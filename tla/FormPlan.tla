--------------------------------- MODULE FormPlan ---------------------------------
(***************************************************************************)
(* The mapping of a form's questions to saved facts (create_form_plan of   *)
(* backend/app/autofill_assistant.py): labels that name a fact are mapped  *)
(* by rule, the others by one call to a model, of which the server keeps   *)
(* the outcome in memory for a while.                                      *)
(*                                                                         *)
(* The handlers share one event loop and wait only for the model, so what  *)
(* a handler does before and after that call is one step each.  The plans  *)
(* are in the order in which they were made; the process may restart with  *)
(* none.                                                                   *)
(***************************************************************************)
EXTENDS FormQuestions, Sequences

CONSTANTS
    Askers,    \* requests for a plan
    People,    \* owners of profiles
    Forms,     \* forms, each a set of questions
    Answerable, \* sets of facts that a profile may hold
    Suggested, \* what the model may suggest: sets of <<question, fact>>
    Lifetime,  \* how long a plan is kept
    Capacity,  \* how many plans are kept
    LastHour   \* bound of the clock

ASSUME PlanForms ==
    /\ \A form \in Forms : \A q \in form : Question(q)
    /\ Answerable \subseteq SUBSET Facts
ASSUME PlanLimits == {Lifetime, Capacity} \subseteq Nat \ {0} /\ LastHour \in Nat

VARIABLES
    plans,    \* _plans, the oldest first
    mapping,  \* _pending
    asker,    \* where each request is
    wants,    \* the key of its plan
    told,     \* what it was told
    facts,    \* the facts that each profile holds
    hour      \* the clock

planVars == <<plans, mapping, asker, wants, told, facts, hour>>

\* A key: the hash of the owner, the form and the profile.  Values are not mapped: two
\* profiles are told apart by the facts that they hold.
NoKey == [owner |-> "nobody", form |-> {}, facts |-> {}]

PlanInit ==
    /\ plans = <<>> /\ mapping = {}
    /\ asker = [r \in Askers |-> "idle"]
    /\ wants = [r \in Askers |-> NoKey]
    /\ told = [r \in Askers |-> {}]
    /\ facts \in [People -> Answerable]
    /\ hour = 0
-------------------------------------------------------------------------------
Permitted(key) == {q \in key.form : SafeQuestion(q)}
Unnamed(key) == {q \in Permitted(key) : ~Named(q)}

\* What the rules map.
Mapped(key) ==
    {<<q, q.rule>> : q \in {q \in Permitted(key) : Named(q) /\ q.rule \in key.facts
                                                   /\ AppropriateKind(q, q.rule)}}

\* What the model may be asked is mapped once, to a fact that is there and fits.
Valid(key, suggested) ==
    /\ \A m \in suggested : /\ m[1] \in Unnamed(key) /\ m[2] \in key.facts
                            /\ AppropriateKind(m[1], m[2])
    /\ \A m, n \in suggested : m[1] = n[1] => m = n

\* Plans expire in the order in which they were made: the first n have.
Expired(n) ==
    /\ \A k \in 1..n : plans[k].until <= hour
    /\ \A k \in (n + 1)..Len(plans) : plans[k].until > hour
LiveAfter(n) == SubSeq(plans, n + 1, Len(plans))
PlansOf(kept, key) == {k \in DOMAIN kept : kept[k].key = key}
\* A full cache gives up its oldest plan.
WithinCapacity(kept) == IF Len(kept) > Capacity THEN Tail(kept) ELSE kept

Tell(r, maps) ==
    /\ asker' = [asker EXCEPT ![r] = "told"]
    /\ told' = [told EXCEPT ![r] = maps]

\* The request finds nothing to ask, no model, a kept plan of that model, a call for the
\* same key that another request has under way (409), or asks the model.
AskPlan(r, o, form, model) ==
    LET key == [owner |-> o, form |-> form, facts |-> facts[o]]
    IN  /\ asker[r] = "idle"
        /\ wants' = [wants EXCEPT ![r] = key]
        /\ \/ /\ Unnamed(key) = {} \/ key.facts = {}
              /\ Tell(r, Mapped(key)) /\ UNCHANGED <<plans, mapping>>
           \/ \E n \in 0..Len(plans) : LET found == PlansOf(LiveAfter(n), key) IN
              /\ Unnamed(key) # {} /\ key.facts # {}
              /\ Expired(n) /\ plans' = LiveAfter(n)
              /\ \/ ~model /\ Tell(r, Mapped(key)) /\ UNCHANGED mapping
                 \/ model /\ \E k \in found : Tell(r, LiveAfter(n)[k].maps) /\ UNCHANGED mapping
                 \/ /\ model /\ found = {} /\ key \in mapping
                    /\ asker' = [asker EXCEPT ![r] = "refused"] /\ UNCHANGED <<told, mapping>>
                 \/ /\ model /\ found = {} /\ key \notin mapping
                    /\ mapping' = mapping \union {key}
                    /\ asker' = [asker EXCEPT ![r] = "calling"] /\ UNCHANGED told
        /\ UNCHANGED <<facts, hour>>

\* The model answers, or fails: then the rules' part is kept, so nothing is retried.
PlanAnswered(r, ok, suggested) ==
    LET key == wants[r]
        maps == Mapped(key) \union IF ok /\ Valid(key, suggested) THEN suggested ELSE {}
    IN  /\ asker[r] = "calling"
        /\ mapping' = mapping \ {key}
        /\ plans' = WithinCapacity(
                        Append(plans, [key |-> key, until |-> hour + Lifetime, maps |-> maps]))
        /\ Tell(r, maps)
        /\ UNCHANGED <<wants, facts, hour>>

\* The handler is cancelled: no exception handler keeps a plan, but the key is freed.
PlanCancelled(r) ==
    /\ asker[r] = "calling"
    /\ mapping' = mapping \ {wants[r]}
    /\ asker' = [asker EXCEPT ![r] = "refused"]
    /\ UNCHANGED <<plans, wants, told, facts, hour>>

\* The process restarts: what it kept in memory is gone, and so are its handlers.
Restart ==
    /\ plans' = <<>> /\ mapping' = {}
    /\ asker' = [r \in Askers |-> IF asker[r] = "calling" THEN "refused" ELSE asker[r]]
    /\ UNCHANGED <<wants, told, facts, hour>>

EditFacts(o) ==
    /\ \E f \in Answerable : facts' = [facts EXCEPT ![o] = f]
    /\ UNCHANGED <<plans, mapping, asker, wants, told, hour>>

HourPasses ==
    /\ hour < LastHour /\ hour' = hour + 1
    /\ UNCHANGED <<plans, mapping, asker, wants, told, facts>>

PlanNext ==
    \/ \E r \in Askers, o \in People, form \in Forms, model \in BOOLEAN : AskPlan(r, o, form, model)
    \/ \E r \in Askers, ok \in BOOLEAN, s \in Suggested : PlanAnswered(r, ok, s)
    \/ \E r \in Askers : PlanCancelled(r)
    \/ Restart
    \/ \E o \in People : EditFacts(o)
    \/ HourPasses

PlanSpec == PlanInit /\ [][PlanNext]_planVars
-------------------------------------------------------------------------------
(* Properties *)

\* One call per key at a time, none for a key with a plan, no key that stays taken
\* after its call, and no more plans than there is room for ("there is no automatic
\* provider retry", autofill_assistant.py:210).
OneCallPerPlan ==
    /\ mapping = {wants[r] : r \in {r \in Askers : asker[r] = "calling"}}
    /\ \A r, s \in Askers :
          asker[r] = "calling" /\ asker[s] = "calling" /\ wants[r] = wants[s] => r = s
    /\ \A key \in mapping : PlansOf(plans, key) = {}
    /\ \A k, l \in DOMAIN plans : plans[k].key = plans[l].key => k = l
    /\ Len(plans) <= Capacity

\* A request is told a plan of its own owner, form and profile, which maps each safe
\* question at most once, to a fact that its profile held: whichever request the
\* plan was made for (autofill_assistant.py:236).
PlansAreOwn ==
    \A r \in Askers : asker[r] = "told" =>
        /\ \A m \in told[r] : /\ m[1] \in Permitted(wants[r]) /\ m[2] \in wants[r].facts
                              /\ AppropriateKind(m[1], m[2])
                              /\ Named(m[1]) => m[2] = m[1].rule
        /\ \A m, n \in told[r] : m[1] = n[1] => m = n
===============================================================================
