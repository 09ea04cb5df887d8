---------------------------- MODULE CommandService ----------------------------
(***************************************************************************)
(* What MainWindow promises of R's messages, without the console of R, the *)
(* slots and their connections, the buffer and m_lastOutput: the handlers  *)
(* run one at a time, and with each command the console gets everything R  *)
(* has said since the command before, in that order, each message once.    *)
(* Left out is only an error whose text R has just written itself.  What R *)
(* says before the first command has begun is heard by nobody.             *)
(***************************************************************************)
EXTENDS Naturals, Sequences, FiniteSets

CONSTANT Message

VARIABLES
    serving,        \* the handler that runs, or stopped
    begun,          \* has a command begun?
    said,           \* what R has said since the console got something
    printed         \* what the running handler has given to the console

Handlers == {"command", "plot", "update"}

\* The error s[i] has the text that R wrote last before it.
Repeats(s, i) ==
    /\ s[i].kind = "error"
    /\ \E j \in 1 .. i - 1 :
          /\ s[j].kind = "write" /\ s[j].text = s[i].text
          /\ \A k \in j + 1 .. i - 1 : s[k].kind # "write"

\* The batch b holds the messages of s that repeat nothing, in their order.
News(s) == {i \in DOMAIN s : ~Repeats(s, i)}
Place(s, i) == Cardinality({j \in News(s) : j <= i})
IsBatch(b, s) ==
    /\ Len(b) = Cardinality(News(s))
    /\ \A i \in News(s) : b[Place(s, i)] = s[i]

ServiceInit == serving = "idle" /\ begun = FALSE /\ said = <<>> /\ printed = <<>>

Begin ==
    /\ serving = "idle" /\ serving' \in Handlers
    /\ begun' = (begun \/ serving' = "command")
    /\ UNCHANGED <<said, printed>>

Say ==
    /\ serving \in Handlers /\ begun
    /\ \E m \in Message, k \in {"write", "error"} :
          said' = Append(said, [from |-> serving, kind |-> k, text |-> m])
    /\ UNCHANGED <<serving, begun, printed>>

\* The console gets a command's messages; then the variables are updated.
Deliver ==
    /\ serving = "command" /\ serving' = "update"
    /\ IsBatch(printed', said)
    /\ said' = <<>>
    /\ UNCHANGED begun

Finish ==
    /\ serving \in {"plot", "update"} /\ serving' = "idle"
    /\ printed' = <<>>
    /\ UNCHANGED <<begun, said>>

\* R code fails where nothing catches the error.
Stop ==
    /\ serving \in Handlers /\ serving' = "stopped"
    /\ UNCHANGED <<begun, said, printed>>

ServiceNext == Begin \/ Say \/ Deliver \/ Finish \/ Stop

Service == ServiceInit /\ [][ServiceNext]_<<serving, begun, said, printed>>
===============================================================================
