----------------------------- MODULE WhereClause -----------------------------
(***************************************************************************)
(* The where clauses of the list tools: the filter a tool sets itself, with*)
(* a value in quotes, joined with the one its caller gives. Clauses are    *)
(* sequences of the characters that validation.go tells apart.             *)
(***************************************************************************)
EXTENDS Integers, Sequences

Quote == "'"
Back  == "\\"
Open  == "("
Close == ")"
Null  == "NUL"
Plain == "x"   \* any other character, and the words between two filters

Char == {Quote, Back, Open, Close, Null, Plain}

Scan == [escaped : BOOLEAN, inSingleQuote : BOOLEAN, parens : Int, failed : BOOLEAN]

Fresh == [escaped |-> FALSE, inSingleQuote |-> FALSE, parens |-> 0, failed |-> FALSE]

(* One turn of the loop, which is left at a parenthesis closed too often.    *)
Scanned(s, ch) ==
    IF s.failed THEN s
    ELSE IF s.escaped THEN [s EXCEPT !.escaped = FALSE]
    ELSE IF ch = Back THEN [s EXCEPT !.escaped = TRUE]
    ELSE IF ch = Quote THEN [s EXCEPT !.inSingleQuote = ~@]
    ELSE IF s.inSingleQuote THEN s
    ELSE IF ch = Open THEN [s EXCEPT !.parens = @ + 1]
    ELSE IF ch = Close THEN [s EXCEPT !.parens = @ - 1, !.failed = s.parens = 0]
    ELSE s

(* The scanner's state after each turn.                                      *)
turns(where) ==
    LET turn[k \in 0 .. Len(where)] ==
            IF k = 0 THEN Fresh ELSE Scanned(turn[k - 1], where[k])
    IN  turn

scanWhereClauseTokens(where) == turns(where)[Len(where)]

ValidateWhereClause(where) ==
    \/ where = <<>>
    \/ /\ \A k \in DOMAIN where : where[k] # Null
       /\ LET s == scanWhereClauseTokens(where)
          IN  ~s.failed /\ ~s.inSingleQuote /\ s.parens = 0

(* strings.ReplaceAll, for a string to replace of one character.             *)
Replaced(s, old, new) ==
    LET upTo[k \in 0 .. Len(s)] ==
            IF k = 0 THEN <<>> ELSE upTo[k - 1] \o (IF s[k] = old THEN new ELSE <<s[k]>>)
    IN  upTo[Len(s)]

(* Mutant: the backslashes that escape the quotes are escaped too.           *)
QuotesFirst(s) == Replaced(Replaced(s, Quote, <<Back, Quote>>), Back, <<Back, Back>>)

EscapeWhereValue(s) == Replaced(Replaced(s, Back, <<Back, Back>>), Quote, <<Back, Quote>>)

(* A tool's own filter, column='value'.                                      *)
Fixed(value) == <<Plain, Quote>> \o EscapeWhereValue(value) \o <<Quote>>

(* Mutant: the caller's clause is not set in parentheses.                    *)
JoinedBare(fixed, user) ==
    IF fixed = <<>> THEN user
    ELSE IF user = <<>> THEN fixed
    ELSE <<Open>> \o fixed \o <<Close, Plain>> \o user

CombineWhereClause(fixed, user) ==
    IF fixed = <<>> THEN user
    ELSE IF user = <<>> THEN fixed
    ELSE <<Open>> \o fixed \o <<Close, Plain, Open>> \o user \o <<Close>>

-----------------------------------------------------------------------------
(* What a reader of the clause, who drops one backslash of each pair, takes  *)
(* for the value of a literal.                                               *)
ReadBack(literal) ==
    LET before == turns(<<Quote>> \o literal)
        read[k \in 0 .. Len(literal)] ==
            IF k = 0 THEN <<>>
            ELSE IF before[k].escaped \/ literal[k] # Back THEN Append(read[k - 1], literal[k])
            ELSE read[k - 1]
    IN  read[Len(literal)]

(* The value of a filter is read back as it was given, and no character of   *)
(* it ends the literal.                                                      *)
ValueKept(value) ==
    /\ ReadBack(EscapeWhereValue(value)) = value
    /\ \A k \in 2 .. Len(Fixed(value)) - 1 : turns(Fixed(value))[k].inSingleQuote
    /\ scanWhereClauseTokens(Fixed(value)) = Fresh

(* A caller's clause that is accepted, and does not end in the middle of an  *)
(* escape, stays inside its parentheses: the tool's filter applies to all of *)
(* it, and the whole is a clause the scanner accepts.                        *)
UserClauseNested(value, user) ==
    LET before == Len(Fixed(value)) + 4
        whole  == CombineWhereClause(Fixed(value), user)
    IN  (user # <<>> /\ ValidateWhereClause(user) /\ ~scanWhereClauseTokens(user).escaped)
            => /\ ValidateWhereClause(whole) \/ \E k \in DOMAIN value : value[k] = Null
               /\ \A k \in before .. before + Len(user) : turns(whole)[k].parens > 0
=============================================================================
