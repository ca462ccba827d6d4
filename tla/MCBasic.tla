------------------------------ MODULE MCBasic ------------------------------
(* Families of small programs: each is tried in full up to its row bound. *)
EXTENDS BasicMachine

MCOf(kinds) == {<<k, "">> : k \in kinds}
MCInline(statements) == {<<"THEN", <<s>>>> : s \in statements}

MCLoops ==
    [mode |-> "Structured", rows |-> 6,
     statements |-> MCOf({"NEXT", "WHILE", "WEND", "DO", "DOWHILE", "LOOP", "LOOPUNTIL",
                          "EXITFOR", "EXITDO"})
                    \cup {<<"FOR", "I">>} \cup MCInline(MCOf({"EXITFOR", "EXITDO", "END"}))]

MCBranches ==
    [mode |-> "Structured", rows |-> 6,
     statements |-> MCOf({"IF", "ELSEIF", "ELSE", "ENDIF", "SELECT", "CASEELSE", "ENDSELECT",
                          "NEXT", "EXITFOR", "END"})
                    \cup {<<"FOR", "I">>, <<"CASE", <<"exact">>>>, <<"CASE", <<"range", "exact">>>>}]

MCFunctions ==
    [mode |-> "Structured", rows |-> 9,
     statements |-> MCOf({"NEXT", "ENDFUNCTION", "RETURN", "EXITFOR"})
                    \cup {<<"FOR", "I">>, <<"FUNCTION", "">>, <<"CALL", 1>>}]

MCLoose ==
    [mode |-> "Structured", rows |-> 7,
     statements |-> MCOf({"NEXT", "ENDFUNCTION", "RETURN", "EXITFOR"})
                    \cup {<<"FUNCTION", "">>, <<"CALL", 1>>}
                    \cup MCInline({<<"FOR", "G">>, <<"FOR", "I">>, <<"CALL", 1>>, <<"NEXT", "">>})]

MCSkips ==
    [mode |-> "Structured", rows |-> 5,
     statements |-> MCOf({"SELECT", "CASEELSE", "ENDSELECT", "LET"})
                    \cup {<<"CASE", <<"exact">>>>}
                    \cup MCInline({<<"SELECT", "">>, <<"CASE", <<"exact">>>>, <<"ENDSELECT", "">>})]

MCClassic ==
    [mode |-> "Classic", rows |-> 4,
     statements |-> MCOf({"LET", "REM", "END", "RETURN", "NEXT"})
                    \cup {<<"FOR", "I">>, <<"FOR", "J">>, <<"NEXT", "I">>,
                          <<"GOTO", 1>>, <<"GOTO", 4>>, <<"GOSUB", 3>>, <<"GOSUB", 4>>,
                          <<"ONGOTO", <<1, 4>>>>, <<"ONGOSUB", <<3, 4>>>>,
                          <<"THEN", <<<<"GOTO", 2>>, <<"GOTO", 4>>>>>>}]

MCEnds ==
    [mode |-> "Structured", rows |-> 3,
     statements |-> MCOf({"LET", "IF", "ENDIF", "END"}) \cup MCInline(MCOf({"END"}))]

MCShort == {MCEnds}
MCProfiles == {MCLoops, MCBranches, MCFunctions, MCLoose, MCSkips, MCClassic}
=============================================================================
