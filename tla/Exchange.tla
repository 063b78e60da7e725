------------------------------ MODULE Exchange ------------------------------
(***************************************************************************)
(* What a latency measurement promises, with no interfaces, no transfer    *)
(* IDs, no sessions and no slots of latency_: requests are taken in order  *)
(* and answered once, answers may be lost, those that are not are measured *)
(* in order and once, each against the time its own request was sent, and  *)
(* what is measured is no more than two delays.                            *)
(***************************************************************************)
EXTENDS Naturals, Sequences

CONSTANTS Spacing,    \* the shortest time between two requests
          MaxDelay    \* the longest time a request or an answer takes

VARIABLES clock,      \* the time
          sent,       \* when each request was sent
          accepted,   \* the last request that was taken
          answers,    \* the requests whose answers are on their way
          measured    \* the last measurement

vars == <<clock, sent, accepted, answers, measured>>

Init == /\ clock = 0
        /\ sent = <<>>
        /\ accepted = 0
        /\ answers = {}
        /\ measured = [req |-> 0, stamp |-> 0, at |-> 0]

Request == /\ sent # <<>> => clock >= sent[Len(sent)] + Spacing
           /\ sent' = Append(sent, clock)
           /\ UNCHANGED <<clock, accepted, answers, measured>>

Take(n) == /\ n > accepted
           /\ clock <= sent[n] + MaxDelay
           /\ accepted' = n
           /\ answers' = answers \cup {n}
           /\ UNCHANGED <<clock, sent, measured>>

Measure(n) == /\ n \in answers
              /\ n > measured.req
              /\ clock <= sent[n] + 2 * MaxDelay
              /\ measured' = [req |-> n, stamp |-> sent[n], at |-> clock]
              /\ answers' \in SUBSET answers
              /\ UNCHANGED <<clock, sent, accepted>>

Lose == /\ answers' \in SUBSET answers
        /\ UNCHANGED <<clock, sent, accepted, measured>>

Tick == /\ clock' = clock + 1
        /\ UNCHANGED <<sent, accepted, answers, measured>>

Next == \/ Request \/ Lose \/ Tick
        \/ \E n \in DOMAIN sent : Take(n) \/ Measure(n)

Spec == Init /\ [][Next]_vars

=============================================================================
