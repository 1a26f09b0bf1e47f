---------------------------- MODULE NameService -----------------------------
(***************************************************************************)
(* What Landns promises a DNS client, as the comments of ResolverSet and   *)
(* AlternateResolver in lib-landns/resolver.go have it: a question is      *)
(* answered from the local zones as they were at one moment of the call,   *)
(* all of them merged; only when they had nothing at that moment it is     *)
(* answered from elsewhere, without authority; never from both.  An error  *)
(* may cut the answer short.                                               *)
(***************************************************************************)
EXTENDS Naturals

CONSTANTS
    Handlers, Questions,
    StaticAnswer(_),    \* what the static zones answer to a question
    ZoneAnswer(_, _),   \* what a dynamic zone answers to a question
    RemoteAnswer(_),    \* what may be heard of a question from elsewhere
    KeyOf(_)            \* a record without its TTL

VARIABLES
    zone,    \* the dynamic zone
    call     \* handler -> [state, question, answers, aa, failed]

serviceVars == <<zone, call>>

Idle(h) == call[h].state = "idle"
Init == \A h \in Handlers : Idle(h)

Becomes(h, state, answers, aa, failed) ==
    /\ call' = [call EXCEPT ![h] = [state |-> state, question |-> call[h].question,
                                    answers |-> answers, aa |-> aa,
                                    failed |-> failed]]
    /\ UNCHANGED zone

Ask(h, q) ==
    /\ Idle(h)
    /\ call' = [call EXCEPT ![h] = [state |-> "asked", question |-> q,
                                    answers |-> {}, aa |-> TRUE, failed |-> FALSE]]
    /\ UNCHANGED zone

\* A message that is no question is answered with nothing.
Skip(h, q) ==
    /\ Idle(h)
    /\ call' = [call EXCEPT ![h] = [state |-> "answered", question |-> q,
                                    answers |-> {}, aa |-> TRUE, failed |-> FALSE]]
    /\ UNCHANGED zone

\* The local zones are read at this moment.
Local(q) == StaticAnswer(q) \cup ZoneAnswer(q, zone)

AnswerLocally(h) ==
    /\ call[h].state = "asked"
    /\ \E part \in SUBSET Local(call[h].question), failed \in BOOLEAN :
          /\ ~ failed => part = Local(call[h].question)
          /\ Becomes(h, "answered", part, TRUE, failed)

LookElsewhere(h) ==
    /\ call[h].state = "asked" /\ Local(call[h].question) = {}
    /\ Becomes(h, "elsewhere", {}, TRUE, FALSE)

AnswerRemotely(h) ==
    /\ call[h].state = "elsewhere"
    /\ \E part \in SUBSET RemoteAnswer(call[h].question), aa, failed \in BOOLEAN :
          /\ part # {} => ~ aa
          /\ Becomes(h, "answered", part, aa, failed)

\* The reply has every record once, with the shortest of its TTLs.
Reply(h) ==
    /\ call[h].state = "answered"
    /\ \E reply \in SUBSET call[h].answers :
          /\ \A r, s \in reply : KeyOf(r) = KeyOf(s) => r = s
          /\ \A a \in call[h].answers :
                \E r \in reply : KeyOf(r) = KeyOf(a) /\ r.ttl <= a.ttl
          /\ Becomes(h, "idle", reply, call[h].aa, call[h].failed)

ZoneChanges == UNCHANGED call

Next ==
    \/ \E h \in Handlers :
          \/ \E q \in Questions : Ask(h, q) \/ Skip(h, q)
          \/ AnswerLocally(h) \/ LookElsewhere(h) \/ AnswerRemotely(h) \/ Reply(h)
    \/ ZoneChanges

Spec == Init /\ [][Next]_serviceVars
=============================================================================
