-------------------------------- MODULE RConsole --------------------------------
(***************************************************************************)
(* RConsole::execute (src/RInside/rconsole.cpp 113-159): one text of R     *)
(* code is parsed and its expressions are evaluated one after the other,   *)
(* printing each value when the console is verbose.  The caller learns the *)
(* result from the signals error(m) and parseIncomplete() and from the     *)
(* return value; R's own output arrives through WriteConsole as write(m)   *)
(* at any point of an evaluation.                                          *)
(*                                                                         *)
(* R itself is not in the repository.  Its parser may give any status and  *)
(* any number of expressions, an evaluation may write anything, fail or    *)
(* succeed.  Each action is one call into R with what execute does on its  *)
(* return.                                                                 *)
(***************************************************************************)
EXTENDS Naturals

CONSTANTS
    Verbose,        \* m_verbose
    MaxExprs        \* bound: expressions in one text

ASSUME RConsoleAssumption == Verbose \in BOOLEAN /\ MaxExprs \in Nat

VARIABLES
    call,           \* where execute is: none, parsing, evaluating, printing; crashed
    left,           \* expressions of cmdexpr not yet evaluated
    protected,      \* entries of execute on R's protect stack
    reports         \* results reported by the latest call: error, incomplete, true

rvars == <<call, left, protected, reports>>

RInit == call = "none" /\ left = 0 /\ protected = 0 /\ reports = 1

\* allocVector, SET_STRING_ELT and R_ParseVector, with their two PROTECTs.
Call ==
    /\ call = "none"
    /\ call' = "parsing"
    /\ left' = 0
    /\ protected' = protected + 2
    /\ reports' = 0

\* emit the result, UNPROTECT(2), return.
Return ==
    /\ call' = "none"
    /\ left' = 0
    /\ protected' = protected - 2
    /\ reports' = reports + 1

ParseOK(n) ==
    /\ call = "parsing"
    /\ call' = "evaluating" /\ left' = n
    /\ UNCHANGED <<protected, reports>>

ParseIncomplete == call = "parsing" /\ Return

\* PARSE_NULL, PARSE_ERROR, PARSE_EOF and any other status.
ParseError == call = "parsing" /\ Return

\* The parser runs outside R_tryEval, too: an error it raises instead of
\* reporting it jumps to the top level context that R_ReplDLLinit left behind.
ParseFails ==
    /\ call = "parsing"
    /\ call' = "crashed"
    /\ UNCHANGED <<left, protected, reports>>

EvalErrorProtecting ==                                                           \* mutant
    /\ call = "evaluating" /\ left > 0
    /\ call' = "none" /\ left' = 0 /\ reports' = reports + 1
    /\ UNCHANGED protected

EvalErrorGoingOn ==                                                              \* mutant
    /\ call = "evaluating" /\ left > 0
    /\ left' = left - 1 /\ reports' = reports + 1
    /\ UNCHANGED <<call, protected>>

\* R_tryEval fails: the expressions behind it are not evaluated.
EvalError == call = "evaluating" /\ left > 0 /\ Return

EvalOKCounting ==                                                                \* mutant
    /\ call = "evaluating" /\ left > 0
    /\ call' = (IF Verbose THEN "printing" ELSE call) /\ left' = left - 1
    /\ UNCHANGED <<protected, reports>>

EvalOK ==
    /\ call = "evaluating" /\ left > 0
    /\ IF Verbose THEN call' = "printing" /\ left' = left
                  ELSE call' = call /\ left' = left - 1
    /\ UNCHANGED <<protected, reports>>

\* Rf_PrintValue returns.
Printed ==
    /\ call = "printing"
    /\ call' = "evaluating" /\ left' = left - 1
    /\ UNCHANGED <<protected, reports>>

\* Rf_PrintValue runs R code, a print method, outside R_tryEval: its error
\* takes the same jump.
PrintFails ==
    /\ call = "printing"
    /\ call' = "crashed"
    /\ UNCHANGED <<left, protected, reports>>

Done == call = "evaluating" /\ left = 0 /\ Return

\* R calls WriteConsole.
Writing == call \in {"evaluating", "printing"} /\ left > 0

RTypeOK ==
    /\ call \in {"none", "parsing", "evaluating", "printing", "crashed"}
    /\ left \in 0 .. MaxExprs
    /\ protected \in Nat
    /\ reports \in Nat

(* Whatever way execute returns, it leaves R's protect stack as it was: a   *)
(* leftover entry would keep its object alive for good, a missing one would *)
(* unprotect an object of the caller.                                       *)
ProtectBalanced == protected = IF call = "none" THEN 0 ELSE 2

(* A call reports exactly one result, when it returns: no expression is     *)
(* evaluated after an error, and no error follows a success.                *)
OneReport == reports = IF call = "none" THEN 1 ELSE 0
================================================================================
