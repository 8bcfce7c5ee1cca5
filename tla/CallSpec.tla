------------------------------ MODULE CallSpec ------------------------------
(***************************************************************************)
(* What the call protocol of nark-rpc promises to a program that calls     *)
(* remote functions over one connection, without threads, locks, buffers   *)
(* or message formats: calls are numbered as they are sent, the server     *)
(* executes them one by one in that order and each of them once, and a     *)
(* call is answered at most once, after its execution, with the answer the *)
(* server computed for that very call.  Once the connection is down, or    *)
(* the session has ended, the calls left need not be executed; nor while   *)
(* the replies fill the connection and nobody reads them.                  *)
(***************************************************************************)
EXTENDS Naturals

CONSTANT MaxCalls           \* bound: calls numbered in one behaviour

VARIABLES requested,        \* calls that have been given a number
          executed,         \* calls the server has executed
          answers,          \* answers[i]: the answers call i was given
          broken,           \* is the connection down or the session over?
          unread            \* does the server wait for a reply to be read?

vars == <<requested, executed, answers, broken>>

Init == /\ requested = 0
        /\ executed = 0
        /\ answers = [i \in 1..MaxCalls |-> <<>>]
        /\ broken = FALSE

Request == /\ requested < MaxCalls
           /\ requested' = requested + 1
           /\ UNCHANGED <<executed, answers, broken>>

Execute == /\ executed < requested
           /\ executed' = executed + 1
           /\ UNCHANGED <<requested, answers, broken>>

Answer(i) == /\ i <= executed
             /\ answers[i] = <<>>
             /\ answers' = [answers EXCEPT ![i] = <<i>>]
             /\ UNCHANGED <<requested, executed, broken>>

Break == /\ broken' = TRUE
         /\ UNCHANGED <<requested, executed, answers>>

Next == \/ Request
        \/ Execute
        \/ Break
        \/ \E i \in 1..MaxCalls : Answer(i)

\* While nothing is broken and replies are read, the server does not rest with a
\* request to execute.  `unread` comes and goes as the clients like.
Safety == Init /\ [][Next]_vars
Spec == Safety /\ WF_vars(~broken /\ ~unread /\ Execute)
=============================================================================
