----------------------------- MODULE ExtensionProofs -----------------------------
(***************************************************************************)
(* Proofs about the extension's access to the platform (ExtensionLink),    *)
(* alone and in the browser of ExtensionMC, for any numbers of logins,     *)
(* requests, grants and events: access ends with the login, a connection   *)
(* leaves no usable grant behind, and only the exchange of a checked code  *)
(* makes a grant live.                                                     *)
(***************************************************************************)
EXTENDS ExtensionMC, FiniteSetTheorems, TLAPS

Dead(l) == l \in revoked \union lapsed
SpentRequest(s) == s <= begun /\ pending # s
CallShape == [kind : {"logout", "authorize", "exchange", "disconnect"},
              login : Logins \union {0}, grant : Grants \union {0},
              state : LinkStates \union {0}, checked : BOOLEAN]
GrantShape == [login : Logins \union {0}, challenge : LinkStates \union {0},
               code : {"none", "fresh", "used", "stale"}, use : {"none", "live", "over"},
               revoked : BOOLEAN]
TabShape == [stage : {"none", "ready", "authorizing", "deliver", "sent"},
             login : Logins \union {0}, grant : Grants \union {0}]
HandlerShape == [kind : {"none", "begin", "disconnect", "complete"},
                 grant : Grants \union {0}, answer : {"none", "done", "refused"}]
MessageShape == [kind : {"begin", "disconnect", "complete", "signed-out"},
                 state : LinkStates \union {0}, grant : Grants \union {0}]

LinkTyping ==
    /\ login \in Nat /\ latest \in Logins \union {0} /\ login <= latest
    /\ revoked \subseteq 1..latest /\ lapsed \subseteq 1..latest
    /\ grants \in [Grants -> GrantShape]
    /\ connect \in [LinkStates -> TabShape]
    /\ pending \in Nat /\ begun \in LinkStates \union {0} /\ pending <= begun
    /\ linked \in Grants \union {0} /\ lost \subseteq Grants
    /\ handler \in HandlerShape
    /\ inbox \in Seq(MessageShape)
    /\ calls \subseteq CallShape

\* Every login but the present one has been signed out or has expired.
OldLoginsAreDead == \A l \in 1..latest : l # login => Dead(l)

\* The first grants are the stored ones.
Stored(g) == grants[g].code # "none"
StoredInOrder == \E n \in 0..MaxGrants : \A g \in Grants : Stored(g) <=> g <= n
GrantsAreOf ==
    \A g \in Grants :
       /\ ~Stored(g) => grants[g].login = 0 /\ grants[g].challenge = 0 /\ ~grants[g].revoked
       /\ Stored(g) => grants[g].login \in 1..latest /\ grants[g].challenge \in LinkStates
       /\ grants[g].use # "none" => grants[g].code = "used"
       /\ grants[g].code = "used" => SpentRequest(grants[g].challenge)

CodesTravel ==
    /\ \A s \in LinkStates : connect[s].stage = "deliver" =>
          connect[s].grant \in Grants /\ Stored(connect[s].grant)
          /\ grants[connect[s].grant].challenge = s
    /\ \A s \in LinkStates : connect[s].stage # "none" => connect[s].login \in 1..latest
    /\ \A i \in 1..Len(inbox) : inbox[i].kind = "complete" =>
          inbox[i].grant \in Grants /\ Stored(inbox[i].grant)
          /\ grants[inbox[i].grant].challenge = inbox[i].state

Expected(c) == handler.kind = "complete" /\ handler.grant = c.grant /\ handler.answer = "none"
CallInv(c) ==
    /\ c.kind \in {"logout", "authorize"} => c.login \in 1..latest
    /\ c.kind = "authorize" => c.state \in LinkStates
    /\ c.kind = "exchange" =>
          /\ c.login = 0 /\ c.grant \in Grants /\ Stored(c.grant)
          /\ grants[c.grant].code # "used"
          /\ grants[c.grant].challenge = c.state /\ SpentRequest(c.state)
          /\ c.grant \in lost \/ Expected(c)
          /\ c.checked /\ grants[c.grant].login \in revoked => grants[c.grant].revoked
    /\ c.kind = "disconnect" => c.grant \in Grants /\ grants[c.grant].code = "used"
CallsInv ==
    /\ \A c \in calls : CallInv(c)
    /\ \A c, d \in calls : c.kind = "exchange" /\ d.kind = "exchange" /\ c.grant = d.grant => c = d

HandlerInv ==
    /\ handler.kind = "none" => handler = Idle
    /\ handler.kind \in {"begin", "disconnect"} =>
          /\ linked # 0 /\ handler.grant = linked
          /\ handler.answer = "done" => ~Usable(linked)
    /\ handler.kind = "complete" =>
          /\ pending = 0 /\ linked = 0
          /\ handler.grant \in Grants /\ Stored(handler.grant)
          /\ SpentRequest(grants[handler.grant].challenge)
          /\ handler.answer = "none" => grants[handler.grant].code # "used"
          /\ handler.answer = "done" => grants[handler.grant].code = "used"
          /\ handler.answer = "refused" => grants[handler.grant].use = "none" \/ handler.grant \in lost
    /\ linked # 0 => grants[linked].code = "used"

DeadGrant(g) == Dead(grants[g].login)
SignedOutFor ==
    \A i \in 1..Len(inbox) : inbox[i].kind = "signed-out" =>
       /\ linked # 0 => DeadGrant(linked)
       /\ handler.kind = "complete" => DeadGrant(handler.grant)
       /\ \A j \in 1..(i - 1) : inbox[j].kind = "complete" => DeadGrant(inbox[j].grant)

LinkInv ==
    /\ LinkTyping /\ OldLoginsAreDead /\ StoredInOrder /\ GrantsAreOf /\ CodesTravel
    /\ CallsInv /\ HandlerInv /\ SignedOutFor
    /\ LoggedOutIsCutOff /\ NoGrantLeftBehind /\ PendingMeansDisconnected
-------------------------------------------------------------------------------
Older(h) ==
    /\ grants'[h].login = grants[h].login /\ grants'[h].challenge = grants[h].challenge
    /\ grants'[h].revoked = grants[h].revoked
    /\ grants'[h].use = grants[h].use \/ (grants[h].use = "live" /\ grants'[h].use = "over")
    /\ grants'[h].code = grants[h].code \/ (grants[h].code = "fresh" /\ grants'[h].code = "stale")

\* A code is used or expires: only its field changes.
LEMMA CodeFact ==
    ASSUME grants \in [Grants -> GrantShape], NEW g \in Grants, NEW v \in {"fresh", "used", "stale"},
           grants' = [grants EXCEPT ![g].code = v]
    PROVE  /\ grants' \in [Grants -> GrantShape]
           /\ \A h \in Grants \ {g} : grants'[h] = grants[h]
           /\ grants'[g].code = v /\ grants'[g].use = grants[g].use
           /\ grants'[g].login = grants[g].login /\ grants'[g].challenge = grants[g].challenge
           /\ grants'[g].revoked = grants[g].revoked
  BY DEF GrantShape

\* A grant expires: only its field changes.
LEMMA UseFact ==
    ASSUME grants \in [Grants -> GrantShape], NEW g \in Grants,
           grants' = [grants EXCEPT ![g].use = "over"]
    PROVE  /\ grants' \in [Grants -> GrantShape]
           /\ \A h \in Grants \ {g} : grants'[h] = grants[h]
           /\ grants'[g].code = grants[g].code /\ grants'[g].use = "over"
           /\ grants'[g].login = grants[g].login /\ grants'[g].challenge = grants[g].challenge
           /\ grants'[g].revoked = grants[g].revoked
  BY DEF GrantShape

\* The clock only ages grants.
LEMMA OlderFact ==
    ASSUME LinkTyping, Expire
    PROVE  grants' \in [Grants -> GrantShape] /\ \A h \in Grants : Older(h)
<1>0. grants \in [Grants -> GrantShape]
  BY DEF LinkTyping
<1>1. ASSUME NEW g \in Grants, grants[g].code = "fresh", grants' = [grants EXCEPT ![g].code = "stale"]
      PROVE grants' \in [Grants -> GrantShape] /\ \A h \in Grants : Older(h)
  BY <1>0, <1>1, CodeFact DEF Older, NoGrant
<1>2. ASSUME NEW g \in Grants, grants[g].use = "live", grants' = [grants EXCEPT ![g].use = "over"]
      PROVE grants' \in [Grants -> GrantShape] /\ \A h \in Grants : Older(h)
  BY <1>0, <1>2, UseFact DEF Older, NoGrant
<1>3. CASE UNCHANGED grants
  BY <1>0, <1>3 DEF Older
<1>4. QED
  BY <1>1, <1>2, <1>3 DEF Expire

\* A logout revokes the grants of its login and changes nothing else of them.
LEMMA LogoutFact ==
    ASSUME LinkTyping, NEW l \in 1..latest,
           grants' = [g \in Grants |-> [grants[g] EXCEPT !.revoked = @ \/ grants[g].login = l]]
    PROVE  \A h \in Grants :
           /\ grants'[h].login = grants[h].login /\ grants'[h].challenge = grants[h].challenge
           /\ grants'[h].code = grants[h].code /\ grants'[h].use = grants[h].use
           /\ grants'[h].revoked <=> (grants[h].revoked \/ grants[h].login = l)
  BY DEF LinkTyping, GrantShape

\* The stored grants are the first: the next one is free.
LEMMA NextGrantFact ==
    ASSUME LinkTyping, StoredInOrder, GrantsAreOf
    PROVE  LET g == Cardinality({h \in Grants : grants[h] # NoGrant}) + 1
           IN  g \in Nat /\ \A h \in Grants : Stored(h) <=> h < g
<1>1. PICK n \in 0..MaxGrants : \A h \in Grants : Stored(h) <=> h <= n
  BY DEF StoredInOrder
<1>2. ASSUME NEW h \in Grants PROVE Stored(h) <=> grants[h] # NoGrant
  BY DEF LinkTyping, GrantsAreOf, GrantShape, NoGrant, Stored
<1>3. n \in Nat /\ MaxGrants \in Nat
  BY LinkConstants
<1>4. {h \in Grants : grants[h] # NoGrant} = 1..n
  BY <1>1, <1>2, <1>3 DEF Grants
<1>5. Cardinality(1..n) = n
  BY <1>3, FS_Interval
<1>6. Cardinality({h \in Grants : grants[h] # NoGrant}) + 1 = n + 1
  BY <1>4, <1>5
<1>7. QED
  BY <1>1, <1>3, <1>6 DEF Grants

\* A disconnection revokes its grant and changes nothing else of it.
LEMMA RevokeFact ==
    ASSUME grants \in [Grants -> GrantShape], NEW g \in Grants,
           grants' = [grants EXCEPT ![g].revoked = TRUE]
    PROVE  /\ \A h \in Grants \ {g} : grants'[h] = grants[h]
           /\ grants'[g].code = grants[g].code /\ grants'[g].use = grants[g].use
           /\ grants'[g].login = grants[g].login /\ grants'[g].challenge = grants[g].challenge
           /\ grants'[g].revoked
  BY DEF GrantShape

\* An exchange makes its grant live and changes nothing else of it.
LEMMA ConsumeFact ==
    ASSUME grants \in [Grants -> GrantShape], NEW g \in Grants,
           grants' = [grants EXCEPT ![g].code = "used", ![g].use = "live"]
    PROVE  /\ grants' \in [Grants -> GrantShape]
           /\ \A h \in Grants \ {g} : grants'[h] = grants[h]
           /\ grants'[g].code = "used" /\ grants'[g].use = "live"
           /\ grants'[g].login = grants[g].login /\ grants'[g].challenge = grants[g].challenge
           /\ grants'[g].revoked = grants[g].revoked
<1>1. grants' = [grants EXCEPT ![g] = [grants[g] EXCEPT !.code = "used", !.use = "live"]]
  BY DEF GrantShape
<1>2. [grants[g] EXCEPT !.code = "used", !.use = "live"] \in GrantShape
  BY DEF GrantShape
<1>3. grants'[g] = [grants[g] EXCEPT !.code = "used", !.use = "live"]
  BY <1>1
<1>4. QED
  BY <1>1, <1>2, <1>3 DEF GrantShape

\* A tab moves on: only its stage changes.
LEMMA TabFact1 ==
    ASSUME connect \in [LinkStates -> TabShape], NEW s \in LinkStates,
           NEW v \in {"ready", "authorizing", "sent"},
           connect' = [connect EXCEPT ![s].stage = v]
    PROVE  /\ connect' \in [LinkStates -> TabShape]
           /\ \A t \in LinkStates \ {s} : connect'[t] = connect[t]
           /\ connect'[s].stage = v /\ connect'[s].login = connect[s].login
  BY DEF TabShape

\* A tab is given the grant it asked for.
LEMMA TabFact2 ==
    ASSUME connect \in [LinkStates -> TabShape], NEW s \in LinkStates, NEW g \in Grants,
           connect' = [connect EXCEPT ![s].stage = "deliver", ![s].grant = g]
    PROVE  /\ connect' \in [LinkStates -> TabShape]
           /\ \A t \in LinkStates \ {s} : connect'[t] = connect[t]
           /\ connect'[s].stage = "deliver" /\ connect'[s].login = connect[s].login
           /\ connect'[s].grant = g
<1>1. [connect[s] EXCEPT !.stage = "deliver", !.grant = g] \in TabShape
  BY DEF TabShape
<1>2. connect' = [connect EXCEPT ![s] = [connect[s] EXCEPT !.stage = "deliver", !.grant = g]]
  BY DEF TabShape
<1>4. QED
  BY <1>1, <1>2 DEF TabShape

\* The bounds are numbers.
LEMMA BoundsFact == MaxLogins \in Nat /\ MaxGrants \in Nat /\ MaxRequests \in Nat
  BY LinkConstants

\* A message that is appended is the last; the others keep their places.
LEMMA AppendFact ==
    ASSUME inbox \in Seq(MessageShape), NEW m \in MessageShape
    PROVE  /\ Append(inbox, m) \in Seq(MessageShape)
           /\ Len(Append(inbox, m)) = Len(inbox) + 1
           /\ \A i \in 1..Len(Append(inbox, m)) :
                 \/ i \in 1..Len(inbox) /\ Append(inbox, m)[i] = inbox[i]
                 \/ i = Len(inbox) + 1 /\ Append(inbox, m)[i] = m
  OBVIOUS

\* The message that is served is the first; the others move up.
LEMMA ServedFact ==
    ASSUME inbox \in Seq(MessageShape), NEW m \in ToSet(inbox), Served(m)
    PROVE  /\ m \in MessageShape /\ m = inbox[1] /\ 1 \in 1..Len(inbox)
           /\ Tail(inbox) \in Seq(MessageShape)
           /\ Len(Tail(inbox)) = Len(inbox) - 1
           /\ \A i \in 1..Len(Tail(inbox)) : i + 1 \in 1..Len(inbox) /\ Tail(inbox)[i] = inbox[i + 1]
<1>1. inbox # <<>> /\ Len(inbox) \in Nat /\ Len(inbox) >= 1
  BY DEF ToSet
<1>2. QED
  BY <1>1 DEF Served

\* Tabs of the platform tell the extension that the user has signed out, or do not
\* know it: at most one message more, the last.
LEMMA NotifiedFact ==
    ASSUME inbox \in Seq(MessageShape), inbox' \in {inbox, Notified}
    PROVE  /\ inbox' \in Seq(MessageShape)
           /\ Len(inbox') \in {Len(inbox), Len(inbox) + 1}
           /\ \A i \in 1..Len(inbox') :
                 \/ i \in 1..Len(inbox) /\ inbox'[i] = inbox[i]
                 \/ i = Len(inbox) + 1 /\ inbox'[i].kind = "signed-out"
<1>1. Message("signed-out", 0, 0) \in MessageShape /\ Message("signed-out", 0, 0).kind = "signed-out"
  BY DEF Message, MessageShape
<1>2. CASE inbox' = inbox
  BY <1>2
<1>3. CASE inbox' = Append(inbox, Message("signed-out", 0, 0))
  BY <1>1, <1>3, AppendFact
<1>4. QED
  BY <1>2, <1>3 DEF Notified

\* The calls have the shape of calls.
LEMMA CallFact ==
    ASSUME NEW l \in Logins \union {0}, NEW g \in Grants \union {0}, NEW s \in LinkStates \union {0}, NEW k \in {"logout", "authorize", "exchange", "disconnect"}
    PROVE  Call(k, l, g, s) \in CallShape
  BY DEF Call, CallShape

\* An answer changes nothing but the answer.
LEMMA AnsweredFact ==
    ASSUME handler \in HandlerShape, NEW c, NEW a \in {"done", "refused"}, Answered(c, a)
    PROVE  /\ handler' \in HandlerShape
           /\ handler'.kind = handler.kind /\ handler'.grant = handler.grant
           /\ handler'.answer = IF handler.grant = c.grant /\ handler.kind # "none" THEN a ELSE handler.answer
  BY DEF Answered, HandlerShape

\* A message that is handled waits for its call.
LEMMA HandlingFact ==
    ASSUME NEW g \in Grants, NEW k \in {"begin", "disconnect", "complete"}, handler' = [Idle EXCEPT !.kind = k, !.grant = g]
    PROVE  /\ handler' \in HandlerShape
           /\ handler'.kind = k /\ handler'.grant = g /\ handler'.answer = "none"
  BY DEF Idle, HandlerShape

SameOrigin ==
    \A g \in Grants : /\ grants'[g].login = grants[g].login
                      /\ grants'[g].challenge = grants[g].challenge
                      /\ Stored(g)' <=> Stored(g)
Lasting ==
    /\ \A s \in LinkStates : SpentRequest(s) => SpentRequest(s)'
    /\ revoked \subseteq revoked' /\ lapsed \subseteq lapsed' /\ lost \subseteq lost'
    /\ latest \in Nat /\ latest' \in Nat /\ latest <= latest'

\* The grants that are stored are the first as long as none is added.
LEMMA StoredKept ==
    ASSUME LinkInv, SameOrigin
    PROVE  StoredInOrder'
  BY DEF LinkInv, StoredInOrder, SameOrigin

\* A code that travels is still that of its request.
LEMMA CodesKept ==
    ASSUME LinkInv, SameOrigin, Lasting, UNCHANGED <<connect, inbox>>
    PROVE  CodesTravel'
  BY DEF LinkInv, LinkTyping, CodesTravel, SameOrigin, Lasting

\* Grants that keep their origin keep what is true of each.
LEMMA GrantsKept ==
    ASSUME LinkInv, SameOrigin, Lasting,
           \A g \in Grants : /\ grants'[g].revoked => grants[g].revoked \/ Stored(g)
                             /\ grants'[g].use # "none" => grants'[g].code = "used"
                             /\ grants'[g].code = "used" => grants[g].code = "used" \/ SpentRequest(grants[g].challenge)
    PROVE  GrantsAreOf'
<1> SUFFICES ASSUME NEW g \in Grants
    PROVE (/\ ~Stored(g) => grants[g].login = 0 /\ grants[g].challenge = 0 /\ ~grants[g].revoked
           /\ Stored(g) => grants[g].login \in 1..latest /\ grants[g].challenge \in LinkStates
           /\ grants[g].use # "none" => grants[g].code = "used"
           /\ grants[g].code = "used" => SpentRequest(grants[g].challenge))'
  BY DEF GrantsAreOf
<1>1. GrantsAreOf
  BY DEF LinkInv
<1>2. grants'[g].code = "used" => grants[g].challenge \in LinkStates /\ SpentRequest(grants[g].challenge)
  BY <1>1 DEF GrantsAreOf, SameOrigin, Stored
<1>3. QED
  BY <1>1, <1>2 DEF GrantsAreOf, SameOrigin, Lasting

\* A call that is under way is still that of its grant.
LEMMA CallKept ==
    ASSUME LinkInv, SameOrigin, Lasting, NEW c \in calls,
           c.kind = "exchange" => /\ Expected(c) => Expected(c)' \/ c.grant \in lost'
                                  /\ grants'[c.grant].code = "used" => grants[c.grant].code = "used"
                                  /\ c.checked /\ grants[c.grant].login \in revoked' =>
                                        grants'[c.grant].revoked
           ,
           c.kind = "disconnect" => grants'[c.grant].code = "used"
    PROVE  CallInv(c)'
<1>1. CallInv(c) /\ GrantsAreOf
  BY DEF LinkInv, CallsInv
<1>2. c.kind = "exchange" => c.grant \in Grants /\ c.state \in LinkStates
  BY <1>1 DEF GrantsAreOf, CallInv
<1>3. QED
  BY <1>1, <1>2 DEF CallInv, SameOrigin, Lasting

\* A sign-out that waits still concerns what the extension holds.
LEMMA SignedOutKept ==
    ASSUME LinkInv, SameOrigin, Lasting, UNCHANGED inbox,
           \/ linked' \in {linked, 0}
           \/ handler.kind = "complete" /\ linked' = handler.grant,
           handler'.kind = "complete" => handler.kind = "complete" /\ handler'.grant = handler.grant
    PROVE  SignedOutFor'
<1> SUFFICES ASSUME NEW i \in 1..Len(inbox), inbox[i].kind = "signed-out"
    PROVE (/\ linked # 0 => DeadGrant(linked)
           /\ handler.kind = "complete" => DeadGrant(handler.grant)
           /\ \A j \in 1..(i - 1) : inbox[j].kind = "complete" => DeadGrant(inbox[j].grant))'
  BY DEF SignedOutFor
<1>1. /\ linked # 0 => DeadGrant(linked)
      /\ handler.kind = "complete" => DeadGrant(handler.grant) /\ handler.grant \in Grants
      /\ \A j \in 1..(i - 1) : inbox[j].kind = "complete" => DeadGrant(inbox[j].grant)
  BY DEF LinkInv, SignedOutFor, HandlerInv
<1>2. \A g \in Grants : DeadGrant(g) => DeadGrant(g)'
  BY DEF DeadGrant, Dead, SameOrigin, Lasting
<1>3. linked \in Grants \union {0} /\ Len(inbox) \in Nat
  BY DEF LinkInv, LinkTyping
<1>4. \A j \in 1..(i - 1) : inbox[j].kind = "complete" => inbox[j].grant \in Grants
  BY <1>3 DEF LinkInv, CodesTravel
<1>5. QED
  BY <1>1, <1>2, <1>3, <1>4

\* The next message is taken: the others wait as before.
LEMMA TakenKept ==
    ASSUME LinkInv, NEW m \in ToSet(inbox), Served(m), inbox' = Tail(inbox),
           UNCHANGED <<grants, revoked, lapsed, latest, connect>>,
           linked' \in {linked, 0},
           handler'.kind = "complete" => m.kind = "complete" /\ handler'.grant = m.grant
    PROVE  CodesTravel' /\ SignedOutFor'
<1>1. /\ m = inbox[1] /\ 1 \in 1..Len(inbox) /\ Len(Tail(inbox)) = Len(inbox) - 1
      /\ \A i \in 1..Len(Tail(inbox)) : i + 1 \in 1..Len(inbox) /\ inbox'[i] = inbox[i + 1]
  BY ServedFact DEF LinkInv, LinkTyping
<1>2. CodesTravel'
  BY <1>1 DEF LinkInv, CodesTravel, Stored
<1>3. SignedOutFor'
  <2> SUFFICES ASSUME NEW i \in 1..Len(inbox'), inbox'[i].kind = "signed-out"
      PROVE (/\ linked # 0 => DeadGrant(linked)
             /\ handler.kind = "complete" => DeadGrant(handler.grant)
             /\ \A j \in 1..(i - 1) : inbox[j].kind = "complete" => DeadGrant(inbox[j].grant))'
    BY DEF SignedOutFor
  <2>1. i + 1 \in 1..Len(inbox) /\ inbox[i + 1].kind = "signed-out"
    BY <1>1
  <2>2. /\ linked # 0 => DeadGrant(linked)
        /\ \A j \in 1..i : inbox[j].kind = "complete" => DeadGrant(inbox[j].grant)
    BY <2>1 DEF LinkInv, SignedOutFor
  <2>3. Len(inbox) \in Nat
    BY DEF LinkInv, LinkTyping
  <2>4. \A j \in 1..(i - 1) : j \in 1..Len(inbox') /\ j + 1 \in 1..i
    BY <1>1, <2>1, <2>3
  <2>5. \A g : DeadGrant(g)' <=> DeadGrant(g)
    BY DEF DeadGrant, Dead
  <2>6. 1 \in 1..i
    BY <2>1, <2>3
  <2>7. QED
    BY <1>1, <2>2, <2>4, <2>5, <2>6
<1>4. QED
  BY <1>2, <1>3

\* A message at the end of the queue.
LEMMA QueuedKept ==
    ASSUME LinkInv, Len(inbox') \in {Len(inbox), Len(inbox) + 1},
           \A i \in 1..Len(inbox') :
              \/ i \in 1..Len(inbox) /\ inbox'[i] = inbox[i]
              \/ i = Len(inbox) + 1 /\ inbox'[i].kind \in {"begin", "disconnect"}
              \/ i = Len(inbox) + 1 /\ inbox'[i].kind = "complete" /\ inbox'[i].grant \in Grants /\ Stored(inbox'[i].grant)
                    /\ grants[inbox'[i].grant].challenge = inbox'[i].state
              \/ /\ i = Len(inbox) + 1 /\ inbox'[i].kind = "signed-out"
                 /\ \A g \in Grants : Stored(g) => DeadGrant(g),
           UNCHANGED <<grants, revoked, lapsed, linked, handler>>,
           latest' >= latest, latest' \in Nat,
           \A s \in LinkStates : 
              \/ connect'[s] = connect[s]
              \/ /\ connect'[s].stage = "sent" /\ connect'[s].login = connect[s].login
                 /\ connect[s].stage # "none"
    PROVE  CodesTravel' /\ SignedOutFor'
<1>1. Len(inbox) \in Nat /\ latest \in Nat /\ linked \in Grants \union {0}
  BY DEF LinkInv, LinkTyping, Logins
<1>2. CodesTravel'
  BY <1>1 DEF LinkInv, CodesTravel, Stored
<1>3. SignedOutFor'
  <2> SUFFICES ASSUME NEW i \in 1..Len(inbox'), inbox'[i].kind = "signed-out"
      PROVE (/\ linked # 0 => DeadGrant(linked)
             /\ handler.kind = "complete" => DeadGrant(handler.grant)
             /\ \A j \in 1..(i - 1) : inbox[j].kind = "complete" => DeadGrant(inbox[j].grant))'
    BY DEF SignedOutFor
  <2>1. \A j \in 1..(i - 1) : j \in 1..Len(inbox) /\ inbox'[j] = inbox[j]
    BY <1>1
  <2>2. \A g : DeadGrant(g)' <=> DeadGrant(g)
    BY DEF DeadGrant, Dead
  <2>3. CASE i \in 1..Len(inbox) /\ inbox'[i] = inbox[i]
    BY <2>1, <2>2, <2>3 DEF LinkInv, SignedOutFor
  <2>4. CASE \A g \in Grants : Stored(g) => DeadGrant(g)
    <3>1. /\ linked # 0 => linked \in Grants /\ Stored(linked)
          /\ handler.kind = "complete" => handler.grant \in Grants /\ Stored(handler.grant)
          /\ \A j \in 1..(i - 1) : inbox[j].kind = "complete" => inbox[j].grant \in Grants /\ Stored(inbox[j].grant)
      BY <1>1, <2>1 DEF LinkInv, HandlerInv, CodesTravel, Stored
    <3>2. QED
      BY <2>1, <2>2, <2>4, <3>1
  <2>5. QED
    BY <2>3, <2>4
<1>4. QED
  BY <1>2, <1>3

\* What only grants, codes, the handler and what the extension holds say.
LinkCore == /\ StoredInOrder /\ HandlerInv
            /\ LoggedOutIsCutOff /\ NoGrantLeftBehind /\ PendingMeansDisconnected
coreVars == <<grants, revoked, lapsed, pending, begun, linked, handler, lost>>

\* What the platform does alone leaves the link as it is.
LEMMA CoreKept ==
    ASSUME LinkInv, UNCHANGED coreVars
    PROVE  LinkCore'
  BY DEF LinkInv, LinkCore, coreVars, StoredInOrder, Stored, HandlerInv, SpentRequest, Usable,
     LoggedOutIsCutOff, NoGrantLeftBehind, PendingMeansDisconnected

\* It leaves the calls and the grants as they are.
LEMMA CoreCallsKept == ASSUME LinkInv, UNCHANGED coreVars, latest' \in Nat, latest <= latest'
   PROVE /\ \A c \in calls : CallInv(c)'
         /\ GrantsAreOf'
<1>1. \A g \in Grants : Stored(g)' <=> Stored(g)
  BY DEF Stored, coreVars
<1>2. \A s : SpentRequest(s)' <=> SpentRequest(s)
  BY DEF SpentRequest, coreVars
<1>3. latest \in Nat
  BY DEF LinkInv, LinkTyping, Logins
<1>4. GrantsAreOf'
  BY <1>1, <1>2, <1>3 DEF LinkInv, GrantsAreOf, coreVars
<1>5. ASSUME NEW c \in calls PROVE CallInv(c)'
  BY <1>1, <1>2, <1>3 DEF LinkInv, CallsInv, CallInv, Expected, coreVars
<1>6. QED
  BY <1>4, <1>5

\* The platform, and the messages it queues.
LEMMA PlatformStep ==
    ASSUME LinkInv, LinkTyping',
           SignIn \/ SignOut \/ RemoveToken \/ AskToConnect \/ AskToDisconnect
           \/ \E s \in LinkStates : InspectRequest(s) \/ Confirm(s) \/ Deliver(s) \/ TabGivesUp(s)
    PROVE  LinkInv'
<1>1. UNCHANGED coreVars
  BY DEF coreVars, SignIn, SignOut, RemoveToken, AskToConnect, AskToDisconnect, Ask,
     InspectRequest, Confirm, Deliver, TabGivesUp, extensionVars, siteVars
<1>2. latest \in Nat /\ latest' \in Nat /\ latest <= latest' /\ (login' = login \/ SignIn \/ RemoveToken)
  BY DEF LinkInv, LinkTyping, Logins, SignIn, SignOut, RemoveToken, AskToConnect,
     AskToDisconnect, Ask, InspectRequest, Confirm, Deliver, TabGivesUp, siteVars
<1>3. LinkCore' /\ GrantsAreOf' /\ \A c \in calls : CallInv(c)'
  BY <1>1, <1>2, CoreKept, CoreCallsKept
<1>4. OldLoginsAreDead'
  BY <1>2, <1>1 DEF LinkInv, LinkTyping, OldLoginsAreDead, Dead, coreVars, SignIn, SignOut,
     RemoveToken, AskToConnect, AskToDisconnect, Ask, InspectRequest, Confirm, Deliver,
         TabGivesUp, siteVars
<1>5. CallsInv'
  <2>1. \A c \in calls' \ calls : c.kind \in {"logout", "authorize"} /\ c.login \in 1..latest' /\ (c.kind = "authorize" => c.state \in LinkStates)
    <3>1. login # 0 => login \in 1..latest
      BY DEF LinkInv, LinkTyping, Logins
    <3>2. ASSUME NEW s \in LinkStates, Confirm(s)
          PROVE  calls' = calls \union {Call("authorize", login, 0, s)} /\ login # 0 /\ UNCHANGED latest
      BY <3>2 DEF Confirm, siteVars, LinkInv, CodesTravel
    <3>3. QED
      BY <3>1, <3>2 DEF SignIn, SignOut, RemoveToken, AskToConnect, AskToDisconnect, Ask,
         InspectRequest, Deliver, TabGivesUp, siteVars, Call
  <2>2. \A c \in calls' : CallInv(c)'
    BY <1>3, <2>1 DEF CallInv
  <2>3. QED
    BY <2>1, <2>2 DEF LinkInv, CallsInv
<1>6. CodesTravel' /\ SignedOutFor'
  <2>1. ASSUME login' = 0 \/ login = 0, SignIn \/ RemoveToken
        PROVE  CodesTravel' /\ SignedOutFor'
    <3>1. \A g \in Grants : Stored(g) => DeadGrant(g)
      BY <2>1 DEF LinkInv, LinkTyping, OldLoginsAreDead, GrantsAreOf, DeadGrant, Dead, SignIn,
         RemoveToken
    <3>2. /\ Len(inbox') \in {Len(inbox), Len(inbox) + 1}
          /\ \A i \in 1..Len(inbox') : (i \in 1..Len(inbox) /\ inbox'[i] = inbox[i]) \/ (i = Len(inbox) + 1 /\ inbox'[i].kind = "signed-out")
      BY <2>1, NotifiedFact DEF LinkInv, LinkTyping, SignIn, RemoveToken
    <3>3. UNCHANGED connect
      BY <2>1 DEF SignIn, RemoveToken
    <3>4. QED
      BY <1>1, <1>2, <3>1, <3>2, <3>3, QueuedKept DEF coreVars
  <2>2. CASE AskToConnect \/ AskToDisconnect
    <3>1. PICK k \in {"begin", "disconnect"} : inbox' = Append(inbox, Message(k, 0, 0))
      BY <2>2 DEF AskToConnect, AskToDisconnect, Ask
    <3>2. Message(k, 0, 0) \in MessageShape /\ Message(k, 0, 0).kind = k
      BY DEF Message, MessageShape
    <3>3. UNCHANGED <<connect, latest>>
      BY <2>2 DEF AskToConnect, AskToDisconnect, Ask, siteVars
    <3>4. inbox \in Seq(MessageShape) /\ Len(inbox) \in Nat
      BY DEF LinkInv, LinkTyping
    <3>5. /\ Len(inbox') = Len(inbox) + 1 
          /\ \A i \in 1..Len(inbox') : (i \in 1..Len(inbox) /\ inbox'[i] = inbox[i]) \/ (i = Len(inbox) + 1 /\ inbox'[i].kind = k)
      BY <3>1, <3>2, <3>4, AppendFact
    <3>6. QED
      BY <1>1, <1>2, <3>3, <3>5, QueuedKept DEF coreVars
  <2>3. ASSUME NEW s \in LinkStates, Deliver(s) PROVE CodesTravel' /\ SignedOutFor'
    <3>1. connect \in [LinkStates -> TabShape] /\ inbox \in Seq(MessageShape) /\ Len(inbox) \in Nat
      BY DEF LinkInv, LinkTyping
    <3>2. UNCHANGED latest
      BY <2>3 DEF Deliver, siteVars
    <3>3. CASE login = connect[s].login
      <4> DEFINE m == Message("complete", s, connect[s].grant)
      <4>1. m \in MessageShape /\ m.kind = "complete" /\ m.state = s /\ m.grant = connect[s].grant
        BY <3>1 DEF Message, MessageShape, TabShape
      <4>2. m.grant \in Grants /\ Stored(m.grant) /\ grants[m.grant].challenge = m.state
        BY <2>3, <4>1 DEF Deliver, LinkInv, CodesTravel
      <4>3. inbox' = Append(inbox, m) /\ connect' = [connect EXCEPT ![s].stage = "sent"]
        BY <2>3, <3>3 DEF Deliver
      <4> HIDE DEF m
      <4>4. /\ Len(inbox') = Len(inbox) + 1 
            /\ \A i \in 1..Len(inbox') : (i \in 1..Len(inbox) /\ inbox'[i] = inbox[i]) \/ (i = Len(inbox) + 1 /\ inbox'[i] = m)
        BY <3>1, <4>1, <4>3, AppendFact
      <4>5. \A t \in LinkStates :
               \/ connect'[t] = connect[t]
               \/ connect'[t].stage = "sent" /\ connect'[t].login = connect[t].login /\ connect[t].stage # "none"
        BY <2>3, <3>1, <4>3, TabFact1 DEF Deliver
      <4>6. QED
        BY <1>1, <1>2, <3>2, <4>1, <4>2, <4>4, <4>5, QueuedKept DEF coreVars
    <3>4. CASE login # connect[s].login
      <4>1. UNCHANGED inbox /\ connect' = [connect EXCEPT ![s].stage = "ready"]
        BY <2>3, <3>4 DEF Deliver
      <4>2. QED
        BY <1>1, <2>3, <3>1, <3>2, <4>1, TabFact1, SMTT(30)
           DEF Deliver, LinkInv, CodesTravel, SignedOutFor, coreVars, Stored, DeadGrant, Dead
    <3>5. QED
      BY <3>3, <3>4
  <2>4. ASSUME NEW s \in LinkStates, InspectRequest(s) \/ Confirm(s) \/ TabGivesUp(s)
        PROVE  CodesTravel' /\ SignedOutFor'
    <3>1. UNCHANGED inbox /\ connect \in [LinkStates -> TabShape] /\ UNCHANGED latest
      BY <2>4 DEF InspectRequest, Confirm, TabGivesUp, extensionVars, siteVars, LinkInv,
         LinkTyping
    <3>2. CASE Confirm(s) \/ TabGivesUp(s)
      <4>1. connect'= [connect EXCEPT ![s].stage = "authorizing"] \/ connect' = [connect EXCEPT ![s].stage = "ready"]
        BY <3>2 DEF Confirm, TabGivesUp
      <4>2. connect[s].login \in 1..latest
        BY <3>2 DEF Confirm, TabGivesUp, LinkInv, CodesTravel
      <4>3. /\ \A t \in LinkStates \ {s} : connect'[t] = connect[t]
            /\ connect'[s].stage \in {"ready", "authorizing"} /\ connect'[s].login \in 1..latest
        BY <3>1, <4>1, <4>2, TabFact1
      <4>4. QED
        BY <1>1, <3>1, <4>3 DEF LinkInv, CodesTravel, SignedOutFor, coreVars, Stored,
           DeadGrant, Dead
    <3>4. CASE InspectRequest(s)
      <4>1. login \in 1..latest
        BY <3>4 DEF InspectRequest, LinkInv, LinkTyping, Logins
      <4>3. /\ \A t \in LinkStates \ {s} : connect'[t] = connect[t]
            /\ connect'[s].stage = "ready" /\ connect'[s].login \in 1..latest
        BY <3>1, <3>4, <4>1 DEF InspectRequest, NoTab
      <4>4. QED
        BY <1>1, <3>1, <4>3 DEF LinkInv, CodesTravel, SignedOutFor, coreVars, Stored,
           DeadGrant, Dead
    <3>5. QED
      BY <2>4, <3>2, <3>4
  <2>5. CASE SignOut
    BY <1>1, <2>5 DEF SignOut, LinkInv, CodesTravel, SignedOutFor, coreVars, Stored,
       DeadGrant, Dead, extensionVars, siteVars
  <2>6. QED
    BY <2>1, <2>2, <2>3, <2>4, <2>5 DEF SignIn, RemoveToken
<1>7. QED
  BY <1>3, <1>4, <1>5, <1>6 DEF LinkInv, LinkCore

\* What no answer of the backend and no clock undoes.
LEMMA ExpireStep ==
    ASSUME LinkInv, LinkTyping', Expire
    PROVE  LinkInv'
<1>1. \A h \in Grants : Older(h)
  BY OlderFact DEF LinkInv
<1>2. /\ lapsed \subseteq lapsed' /\ pending' \in {pending, 0}
      /\ UNCHANGED <<login, latest, revoked, begun, linked, connect, inbox, handler, calls, lost>>
  BY DEF Expire
<1>3. SameOrigin
  BY <1>1 DEF SameOrigin, Older, Stored
<1>4. Lasting
  BY <1>2 DEF Lasting, SpentRequest, LinkStates, LinkInv, LinkTyping, Logins
<1>5. OldLoginsAreDead' /\ PendingMeansDisconnected'
  BY <1>2 DEF LinkInv, OldLoginsAreDead, PendingMeansDisconnected, Dead
<1>6. StoredInOrder' /\ CodesTravel' /\ SignedOutFor'
  BY <1>2, <1>3, <1>4, StoredKept, CodesKept, SignedOutKept
<1>7. GrantsAreOf'
  <2>1. \A g \in Grants : /\ grants'[g].revoked => grants[g].revoked
                          /\ grants'[g].use # "none" => grants'[g].code = "used"
                          /\ grants'[g].code = "used" => grants[g].code = "used"
    BY <1>1 DEF Older, LinkInv, GrantsAreOf
  <2>2. QED
    BY <1>3, <1>4, <2>1, GrantsKept
<1>8. CallsInv'
  <2>1. ASSUME NEW c \in calls PROVE CallInv(c)'
    BY <1>1, <1>2, <1>3, <1>4, CallKept DEF Older, Expected, LinkInv, CallsInv, CallInv
  <2>2. QED
    BY <1>2, <2>1 DEF LinkInv, CallsInv
<1>9. \A g \in Grants : Usable(g)' => Usable(g)
  BY <1>1, <1>2 DEF Usable, Older
<1>10. HandlerInv'
  <2>1. \A g \in Grants : Stored(g) => (SpentRequest(grants[g].challenge) => SpentRequest(grants[g].challenge)')
    BY <1>3, <1>4 DEF LinkInv, GrantsAreOf, Lasting, SameOrigin
  <2>2. linked \in Grants \union {0}
    BY DEF LinkInv, LinkTyping
  <2>3. QED
    BY <1>1, <1>2, <1>3, <1>9, <2>1, <2>2 DEF LinkInv, HandlerInv, Older, SameOrigin
<1>11. LoggedOutIsCutOff' /\ NoGrantLeftBehind'
  BY <1>1, <1>2, <1>9 DEF LinkInv, LoggedOutIsCutOff, NoGrantLeftBehind, Older
<1>12. QED
  BY <1>5, <1>6, <1>7, <1>8, <1>10, <1>11 DEF LinkInv

\* The backend revokes a login with its grants.
LEMMA LogoutStep ==
    ASSUME LinkInv, LinkTyping', NEW c \in calls, HandleLogout(c)
    PROVE  LinkInv'
<1>1. c.login \in 1..latest
  BY DEF HandleLogout, LinkInv, CallsInv, CallInv
<1>2. \A h \in Grants :
         /\ grants'[h].login = grants[h].login /\ grants'[h].challenge = grants[h].challenge
         /\ grants'[h].code = grants[h].code /\ grants'[h].use = grants[h].use
         /\ grants'[h].revoked <=> (grants[h].revoked \/ grants[h].login = c.login)
  BY <1>1, LogoutFact DEF HandleLogout, LinkInv
<1>3. /\ revoked' = revoked \union {c.login} /\ calls' = calls \ {c}
      /\ UNCHANGED <<login, latest, lapsed, connect, pending, begun, linked, handler, inbox, lost>>
  BY DEF HandleLogout, extensionVars
<1>4. SameOrigin
  BY <1>2 DEF SameOrigin, Stored
<1>5. Lasting
  BY <1>3 DEF Lasting, SpentRequest, LinkStates, LinkInv, LinkTyping, Logins
<1>6. OldLoginsAreDead' /\ PendingMeansDisconnected'
  BY <1>3 DEF LinkInv, OldLoginsAreDead, PendingMeansDisconnected, Dead
<1>7. StoredInOrder' /\ CodesTravel' /\ SignedOutFor'
  BY <1>3, <1>4, <1>5, StoredKept, CodesKept, SignedOutKept
<1>8. GrantsAreOf'
  <2>1. \A g \in Grants : /\ grants'[g].revoked => grants[g].revoked \/ Stored(g)
                          /\ grants'[g].use # "none" => grants'[g].code = "used"
    BY <1>1, <1>2 DEF LinkInv, LinkTyping, Logins, GrantsAreOf
  <2>2. QED
    BY <1>2, <1>4, <1>5, <2>1, GrantsKept
<1>9. CallsInv'
  <2>1. ASSUME NEW d \in calls PROVE CallInv(d)'
    BY <1>2, <1>3, <1>4, <1>5, CallKept DEF Expected, LinkInv, CallsInv, CallInv
  <2>2. QED
    BY <1>3, <2>1 DEF LinkInv, CallsInv
<1>10. \A g \in Grants : Usable(g)' => Usable(g)
  BY <1>2, <1>3 DEF Usable
<1>11. HandlerInv'
  <2>1. \A s : SpentRequest(s)' <=> SpentRequest(s)
    BY <1>3 DEF SpentRequest
  <2>2. linked \in Grants \union {0}
    BY DEF LinkInv, LinkTyping
  <2>3. QED
    BY <1>2, <1>3, <1>4, <1>10, <2>1, <2>2 DEF LinkInv, HandlerInv, SameOrigin
<1>12. LoggedOutIsCutOff' /\ NoGrantLeftBehind'
  BY <1>2, <1>3, <1>10 DEF LinkInv, LoggedOutIsCutOff, NoGrantLeftBehind
<1>13. QED
  BY <1>6, <1>7, <1>8, <1>9, <1>11, <1>12 DEF LinkInv

\* The calls of a login: one is checked or given up.
LEMMA CheckLoginStep ==
    ASSUME LinkInv, LinkTyping', NEW c \in calls, CheckLogin(c)
    PROVE  LinkInv'
<1>1. /\ UNCHANGED coreVars /\ UNCHANGED <<login, latest, connect, inbox>>
      /\ c.kind = "authorize" /\ calls' \subseteq (calls \ {c}) \union {[c EXCEPT !.checked = TRUE]}
  BY DEF CheckLogin, coreVars, siteVars, extensionVars
<1>2. LinkCore' /\ GrantsAreOf' /\ \A d \in calls : CallInv(d)'
  BY <1>1, CoreKept, CoreCallsKept DEF LinkInv, LinkTyping, Logins
<1>3. LET d == [c EXCEPT !.checked = TRUE] IN d.kind = "authorize" /\ d.login = c.login /\ d.state = c.state
  BY <1>1 DEF LinkInv, LinkTyping, CallShape
<1>4. CallInv(c)'
  BY <1>2
<1>5. CallInv([c EXCEPT !.checked = TRUE])'
  BY <1>1, <1>3, <1>4 DEF CallInv
<1>6. CallsInv'
  BY <1>1, <1>2, <1>3, <1>5 DEF LinkInv, CallsInv
<1>7. OldLoginsAreDead' /\ CodesTravel' /\ SignedOutFor'
  BY <1>1 DEF LinkInv, OldLoginsAreDead, CodesTravel, SignedOutFor, coreVars, Dead, DeadGrant,
     Stored
<1>8. QED
  BY <1>2, <1>6, <1>7 DEF LinkInv, LinkCore

\* A grant is stored: no code of it has travelled yet.
LEMMA StoreGrantStep ==
    ASSUME LinkInv, LinkTyping', NEW c \in calls, StoreGrant(c)
    PROVE  LinkInv'
<1>1. PICK g \in Grants :
         /\ \A h \in Grants : Stored(h) <=> h < g
         /\ grants' = [grants EXCEPT ![g] = [NoGrant EXCEPT !.login = c.login, !.challenge = c.state, !.code = "fresh"]]
         /\ connect' = connect \/ connect' = [connect EXCEPT ![c.state].stage = "deliver", ![c.state].grant = g]
  <2> DEFINE n == Cardinality({h \in Grants : grants[h] # NoGrant}) + 1
  <2>1. n \in Nat /\ \A h \in Grants : Stored(h) <=> h < n
    BY NextGrantFact DEF LinkInv
  <2>2. /\ n \in Grants
        /\ grants' = [grants EXCEPT ![n] = [NoGrant EXCEPT !.login = c.login, !.challenge = c.state, !.code = "fresh"]]
        /\ connect' = connect \/ connect' = [connect EXCEPT ![c.state].stage = "deliver", ![c.state].grant = n]
    BY DEF StoreGrant
  <2> HIDE DEF n
  <2>3. QED
    BY <2>1, <2>2
<1>2. /\ connect' # connect => connect[c.state].stage = "authorizing"
      /\ calls' = calls \ {c} /\ c.kind = "authorize"
      /\ UNCHANGED <<login, latest, revoked, lapsed, pending, begun, linked, handler, inbox, lost>>
  BY DEF StoreGrant, siteVars, extensionVars
<1>3. c.login \in 1..latest /\ c.state \in LinkStates
  BY <1>1, <1>2 DEF LinkInv, CallsInv, CallInv
<1>4. /\ \A h \in Grants \ {g} : grants'[h] = grants[h]
      /\ grants'[g].login = c.login /\ grants'[g].challenge = c.state /\ grants'[g].code = "fresh"
      /\ grants'[g].use = "none" /\ ~grants'[g].revoked
  BY <1>1, <1>2 DEF NoGrant, LinkInv, LinkTyping
<1>5. ~Stored(g) /\ Stored(g)' /\ \A h \in Grants \ {g} : Stored(h)' <=> Stored(h)
  <2>1. ~Stored(g)
    BY <1>1 DEF Grants
  <2>2. QED
    BY <1>4, <2>1 DEF Stored
<1>6. \A h \in Grants : Stored(h) => grants'[h] = grants[h] /\ Stored(h)'
  BY <1>4, <1>5
<1>7. \A s : SpentRequest(s)' <=> SpentRequest(s)
  BY <1>1, <1>2 DEF SpentRequest
<1>8. OldLoginsAreDead' /\ PendingMeansDisconnected'
  BY <1>1, <1>2 DEF LinkInv, OldLoginsAreDead, PendingMeansDisconnected, Dead
<1>9. StoredInOrder'
  <2>1. \A h \in Grants : Stored(h) <=> h < g
    BY <1>1
  <2>3. \A h \in Grants : Stored(h)' <=> h <= g
    BY <1>5, <2>1 DEF Grants
  <2>2. g \in 0..MaxGrants
    BY <1>1, <1>2 DEF Grants
  <2>4. QED
    BY <2>2, <2>3 DEF StoredInOrder
<1>10. GrantsAreOf'
  BY <1>1, <1>2, <1>3, <1>4, <1>5, <1>7 DEF LinkInv, GrantsAreOf
<1>11. CodesTravel'
  <2>1. \A s \in LinkStates \ {c.state} : connect'[s] = connect[s]
    BY <1>1, <1>2, <1>3, TabFact2 DEF LinkInv, LinkTyping
  <2>2. \/ connect'[c.state] = connect[c.state]
        \/ connect'[c.state].grant = g /\ connect'[c.state].login \in 1..latest
    BY <1>1, <1>2, <1>3, TabFact2 DEF LinkInv, LinkTyping, CodesTravel
  <2>3. QED
    BY <1>1, <1>2, <1>3, <1>4, <1>5, <1>6, <2>1, <2>2 DEF LinkInv, CodesTravel
<1>12. CallsInv'
  <2>1. ASSUME NEW d \in calls' PROVE CallInv(d)'
    <3>1. CallInv(d)
      BY <1>1, <1>2 DEF LinkInv, CallsInv
    <3>2. d.kind = "disconnect" => Stored(d.grant)
      BY <3>1 DEF CallInv, Stored
    <3>3. d.kind \in {"exchange", "disconnect"} =>
             grants'[d.grant] = grants[d.grant] /\ Stored(d.grant)' /\ d.grant \in Grants
      BY <1>6, <3>1, <3>2 DEF CallInv
    <3>4. QED
      BY <1>2, <1>7, <3>1, <3>3 DEF CallInv, Expected
  <2>2. QED
    BY <1>1, <1>2, <2>1 DEF LinkInv, CallsInv
<1>13. \A h \in Grants : (Usable(h)' => Usable(h)) /\ (grants'[h].use = "live" => grants'[h] = grants[h])
  BY <1>1, <1>2, <1>4 DEF Usable
<1>14. HandlerInv'
  <2>1. linked # 0 => linked \in Grants /\ Stored(linked)
    BY DEF LinkInv, LinkTyping, HandlerInv, Stored
  <2>2. handler.kind = "complete" => handler.grant \in Grants /\ Stored(handler.grant)
    BY DEF LinkInv, HandlerInv
  <2>3. QED
    BY <1>1, <1>2, <1>6, <1>7, <1>13, <2>1, <2>2 DEF LinkInv, HandlerInv
<1>15. SignedOutFor'
  <2>1. linked # 0 => linked \in Grants /\ Stored(linked)
    BY DEF LinkInv, LinkTyping, HandlerInv, Stored
  <2>2. handler.kind = "complete" => handler.grant \in Grants /\ Stored(handler.grant)
    BY DEF LinkInv, HandlerInv
  <2>3. \A h \in Grants : Stored(h) => (DeadGrant(h)' <=> DeadGrant(h))
    BY <1>1, <1>2, <1>6 DEF DeadGrant, Dead
  <2>4. \A i \in 1..Len(inbox) : inbox[i].kind = "complete" => inbox[i].grant \in Grants /\ Stored(inbox[i].grant)
    BY DEF LinkInv, CodesTravel
  <2>5. \A i \in 1..Len(inbox) : \A j \in 1..(i - 1) : j \in 1..Len(inbox)
    BY DEF LinkInv, LinkTyping
  <2>6. QED
    BY <1>1, <1>2, <2>1, <2>2, <2>3, <2>4, <2>5 DEF LinkInv, SignedOutFor
<1>16. LoggedOutIsCutOff' /\ NoGrantLeftBehind'
  BY <1>2, <1>13 DEF LinkInv, LoggedOutIsCutOff, NoGrantLeftBehind
<1>17. QED
  BY <1>8, <1>9, <1>10, <1>11, <1>12, <1>14, <1>15, <1>16 DEF LinkInv

\* A code is checked: a grant of a revoked login is revoked already.
LEMMA CheckCodeStep ==
    ASSUME LinkInv, LinkTyping', NEW c \in calls, CheckCode(c)
    PROVE  LinkInv'
<1>1. /\ UNCHANGED <<login, latest, revoked, lapsed, grants, connect, pending, begun, linked, inbox, lost>>
      /\ c.kind = "exchange" /\ ~c.checked
  BY DEF CheckCode, siteVars
<1>2. CallInv(c) /\ c.grant \in Grants /\ grants[c.grant].code # "used" /\ grants[c.grant].use = "none"
  BY <1>1 DEF LinkInv, CallsInv, CallInv, GrantsAreOf
<1>3. /\ \A g : Stored(g)' <=> Stored(g)
      /\ \A s : SpentRequest(s)' <=> SpentRequest(s)
      /\ \A g : Usable(g)' <=> Usable(g)
      /\ \A g : DeadGrant(g)' <=> DeadGrant(g)
  BY <1>1 DEF Stored, SpentRequest, Usable, DeadGrant, Dead
<1>4. OldLoginsAreDead' /\ PendingMeansDisconnected' /\ StoredInOrder' /\ GrantsAreOf' /\ CodesTravel' /\ LoggedOutIsCutOff'
  BY <1>1, <1>3 DEF LinkInv, OldLoginsAreDead, PendingMeansDisconnected, Dead, StoredInOrder,
     GrantsAreOf, CodesTravel, LoggedOutIsCutOff
<1>5. CASE UNCHANGED handler /\ calls' = (calls \ {c}) \union {[c EXCEPT !.checked = TRUE]}
           /\ grants[c.grant].login \notin revoked
  <2> DEFINE d == [c EXCEPT !.checked = TRUE]
  <2>1. d.kind = "exchange" /\ d.grant = c.grant /\ d.state = c.state /\ d.login = c.login
    BY <1>1 DEF LinkInv, LinkTyping, CallShape
  <2> HIDE DEF d
  <2>2. CallInv(d)'
    BY <1>1, <1>2, <1>3, <1>5, <2>1 DEF CallInv, Expected
  <2>3. \A e \in calls : CallInv(e)'
    BY <1>1, <1>3, <1>5 DEF LinkInv, CallsInv, CallInv, Expected
  <2>4. calls' = (calls \ {c}) \union {d}
    BY <1>5 DEF d
  <2>5. CallsInv'
    BY <1>1, <2>1, <2>2, <2>3, <2>4 DEF LinkInv, CallsInv
  <2>6. HandlerInv' /\ SignedOutFor' /\ NoGrantLeftBehind'
    BY <1>1, <1>3, <1>5 DEF LinkInv, HandlerInv, SignedOutFor, NoGrantLeftBehind
  <2>7. QED
    BY <1>4, <2>5, <2>6 DEF LinkInv
<1>6. CASE calls' = calls \ {c} /\ Answered(c, "refused")
  <2>1. /\ handler'.kind = handler.kind /\ handler'.grant = handler.grant
        /\ handler'.answer = IF handler.grant = c.grant /\ handler.kind # "none" THEN "refused" ELSE handler.answer
    BY <1>6, AnsweredFact DEF LinkInv, LinkTyping
  <2>2. handler.kind # "complete" => (handler.grant # c.grant \/ handler.kind = "none")
    BY <1>2 DEF LinkInv, HandlerInv, LinkTyping, HandlerShape
  <2>3. ASSUME NEW d \in calls' PROVE CallInv(d)'
    <3>1. CallInv(d) /\ (d.kind = "exchange" => d.grant # c.grant)
      BY <1>1, <1>6 DEF LinkInv, CallsInv
    <3>2. QED
      BY <1>1, <1>3, <2>1, <3>1 DEF CallInv, Expected
  <2>4. CallsInv'
    BY <1>6, <2>3 DEF LinkInv, CallsInv
  <2>5. HandlerInv'
    <3>1. handler.kind = "none" => handler' = handler
      BY <1>6 DEF Answered
    <3>2. QED
      BY <1>1, <1>2, <1>3, <2>1, <2>2, <3>1 DEF LinkInv, HandlerInv
  <2>6. SignedOutFor' /\ NoGrantLeftBehind'
    BY <1>1, <1>3, <2>1 DEF LinkInv, SignedOutFor, NoGrantLeftBehind
  <2>7. QED
    BY <1>4, <2>4, <2>5, <2>6 DEF LinkInv
<1>7. QED
  BY <1>5, <1>6 DEF CheckCode

\* A code is consumed: the extension waits for it, or has given it up.
LEMMA ConsumeCodeStep ==
    ASSUME LinkInv, LinkTyping', NEW c \in calls, ConsumeCode(c)
    PROVE  LinkInv'
<1>1. /\ UNCHANGED <<login, latest, revoked, lapsed, connect, pending, begun, linked, inbox, lost>>
      /\ c.kind = "exchange" /\ c.checked /\ calls' = calls \ {c}
  BY DEF ConsumeCode, siteVars
<1>2. CallInv(c) /\ c.grant \in Grants /\ Stored(c.grant) /\ grants[c.grant].code # "used" /\ grants[c.grant].use = "none"
  BY <1>1 DEF LinkInv, CallsInv, CallInv, GrantsAreOf
<1>3. ~(linked = c.grant) /\ linked \in Grants \union {0}
  BY <1>2 DEF LinkInv, HandlerInv, LinkTyping, Grants
<1>4. PICK a \in {"done", "refused"} :
         /\ Answered(c, a)
         /\ IF a = "done"
            THEN /\ grants' = [grants EXCEPT ![c.grant].code = "used", ![c.grant].use = "live"]
                 /\ ~grants[c.grant].revoked
            ELSE UNCHANGED grants
  BY DEF ConsumeCode, Consumable
<1>5. /\ handler'.kind = handler.kind /\ handler'.grant = handler.grant
      /\ handler'.answer = IF handler.grant = c.grant /\ handler.kind # "none" THEN a ELSE handler.answer
      /\ handler.kind = "none" => handler' = handler
  BY <1>4, AnsweredFact DEF LinkInv, LinkTyping, Answered
<1>6. handler.kind # "complete" => (handler.grant # c.grant \/ handler.kind = "none")
  BY <1>3 DEF LinkInv, HandlerInv, LinkTyping, HandlerShape
<1>7. /\ \A h \in Grants \ {c.grant} : grants'[h] = grants[h]
      /\ grants'[c.grant].login = grants[c.grant].login /\ grants'[c.grant].challenge = grants[c.grant].challenge
      /\ grants'[c.grant].revoked = grants[c.grant].revoked
      /\ IF a = "done" THEN /\ grants'[c.grant].code = "used" /\ grants'[c.grant].use = "live" /\ ~grants[c.grant].revoked
         ELSE grants'[c.grant] = grants[c.grant]
  BY <1>2, <1>4, ConsumeFact DEF LinkInv, LinkTyping
<1>8. SameOrigin
  BY <1>2, <1>7 DEF SameOrigin, Stored
<1>9. Lasting /\ (\A s : SpentRequest(s)' <=> SpentRequest(s)) /\ (\A g \in Grants : DeadGrant(g)' <=> DeadGrant(g))
  BY <1>1, <1>8 DEF Lasting, SpentRequest, LinkStates, LinkInv, LinkTyping, Logins, DeadGrant,
     Dead, SameOrigin
<1>10. OldLoginsAreDead' /\ PendingMeansDisconnected' /\ StoredInOrder' /\ CodesTravel' /\ SignedOutFor'
  BY <1>1, <1>5, <1>8, <1>9, StoredKept, CodesKept, SignedOutKept
     DEF LinkInv, OldLoginsAreDead, PendingMeansDisconnected, Dead
<1>11. SpentRequest(grants[c.grant].challenge)
  BY <1>1, <1>2 DEF CallInv
<1>12. GrantsAreOf'
  <2>1. \A g \in Grants : /\ grants'[g].revoked => grants[g].revoked
                          /\ grants'[g].use # "none" => grants'[g].code = "used"
                          /\ grants'[g].code = "used" => grants[g].code = "used" \/ SpentRequest(grants[g].challenge)
    BY <1>2, <1>7, <1>11 DEF LinkInv, GrantsAreOf
  <2>2. QED
    BY <1>8, <1>9, <2>1, GrantsKept
<1>13. CallsInv'
  <2>1. ASSUME NEW d \in calls' PROVE CallInv(d)'
    <3>1. CallInv(d) /\ d \in calls /\ (d.kind = "exchange" => d.grant # c.grant) /\ (d.kind = "disconnect" => d.grant # c.grant)
      BY <1>1, <1>2 DEF LinkInv, CallsInv, CallInv
    <3>2. d.kind \in {"exchange", "disconnect"} => d.grant \in Grants /\ grants'[d.grant] = grants[d.grant]
      BY <1>7, <3>1 DEF CallInv
    <3>3. d.kind = "exchange" => (Expected(d) => Expected(d)')
      BY <1>5, <3>1 DEF Expected
    <3>4. QED
      BY <1>1, <1>8, <1>9, <3>1, <3>2, <3>3, CallKept DEF CallInv
  <2>2. QED
    BY <1>1, <2>1 DEF LinkInv, CallsInv
<1>14. HandlerInv'
  <2>1. linked # 0 => grants'[linked] = grants[linked] /\ (Usable(linked)' <=> Usable(linked))
    BY <1>1, <1>3, <1>7 DEF Usable
  <2>2. handler.kind \in {"begin", "disconnect"} => handler'.answer = handler.answer
    BY <1>5, <1>6
  <2>3. handler.kind = "complete" =>
           /\ handler.grant \in Grants /\ Stored(handler.grant)' /\ SpentRequest(grants[handler.grant].challenge)'
    BY <1>5, <1>8, <1>9 DEF LinkInv, HandlerInv, SameOrigin
  <2>4. handler.kind = "complete" =>
           /\ handler'.answer = "none" => grants'[handler.grant].code # "used"
           /\ handler'.answer = "done" => grants'[handler.grant].code = "used"
           /\ handler'.answer = "refused" => grants'[handler.grant].use = "none" \/ handler.grant \in lost
    <3>1. CASE handler.grant = c.grant
      BY <1>2, <1>4, <1>5, <1>7, <3>1
    <3>2. CASE handler.grant # c.grant
      BY <1>5, <1>7, <3>2 DEF LinkInv, HandlerInv
    <3>3. QED
      BY <3>1, <3>2
  <2>5. QED
    BY <1>1, <1>5, <2>1, <2>2, <2>3, <2>4 DEF LinkInv, HandlerInv
<1>15. LoggedOutIsCutOff'
  <2>1. grants[c.grant].login \in revoked => grants[c.grant].revoked
    BY <1>1, <1>2 DEF CallInv
  <2>2. QED
    BY <1>1, <1>7, <2>1 DEF LinkInv, LoggedOutIsCutOff
<1>16. NoGrantLeftBehind'
  <2>1. \A g \in Grants \ {c.grant} : Usable(g)' => Usable(g)
    BY <1>1, <1>7 DEF Usable
  <2>2. c.grant \in lost \/ (handler.kind = "complete" /\ handler.grant = c.grant)
    BY <1>1, <1>2 DEF CallInv, Expected
  <2>3. QED
    BY <1>1, <1>5, <2>1, <2>2 DEF LinkInv, NoGrantLeftBehind
<1>17. QED
  BY <1>10, <1>12, <1>13, <1>14, <1>15, <1>16 DEF LinkInv

\* The backend disconnects the grant the extension holds.
LEMMA DisconnectStep ==
    ASSUME LinkInv, LinkTyping', NEW c \in calls, HandleDisconnect(c)
    PROVE  LinkInv'
<1>1. /\ UNCHANGED <<login, latest, revoked, lapsed, connect, pending, begun, linked, inbox, lost>>
      /\ c.kind = "disconnect" /\ calls' = calls \ {c} /\ Answered(c, "done")
  BY DEF HandleDisconnect, siteVars
<1>2. c.grant \in Grants /\ grants[c.grant].code = "used"
  BY <1>1 DEF LinkInv, CallsInv, CallInv
<1>3. /\ handler'.kind = handler.kind /\ handler'.grant = handler.grant
      /\ handler'.answer = IF handler.grant = c.grant /\ handler.kind # "none" THEN "done" ELSE handler.answer
      /\ handler.kind = "none" => handler' = handler
  BY <1>1, AnsweredFact DEF LinkInv, LinkTyping, Answered
<1>4. /\ \A h \in Grants \ {c.grant} : grants'[h] = grants[h]
      /\ grants'[c.grant].login = grants[c.grant].login /\ grants'[c.grant].challenge = grants[c.grant].challenge
      /\ grants'[c.grant].code = grants[c.grant].code /\ grants'[c.grant].use = grants[c.grant].use
      /\ grants[c.grant].revoked => grants'[c.grant].revoked
      /\ ~Usable(c.grant)'
  BY <1>1, <1>2, RevokeFact DEF HandleDisconnect, LinkInv, LinkTyping, Usable
<1>5. SameOrigin
  BY <1>2, <1>4 DEF SameOrigin, Stored
<1>6. Lasting /\ (\A s : SpentRequest(s)' <=> SpentRequest(s)) /\ (\A g \in Grants : Usable(g)' => Usable(g))
  BY <1>1, <1>4 DEF Lasting, SpentRequest, LinkStates, LinkInv, LinkTyping, Logins, Usable
<1>7. OldLoginsAreDead' /\ PendingMeansDisconnected' /\ StoredInOrder' /\ CodesTravel' /\ SignedOutFor'
  BY <1>1, <1>3, <1>5, <1>6, StoredKept, CodesKept, SignedOutKept
     DEF LinkInv, OldLoginsAreDead, PendingMeansDisconnected, Dead
<1>8. GrantsAreOf'
  <2>1. \A g \in Grants : /\ grants'[g].revoked => grants[g].revoked \/ Stored(g)
                          /\ grants'[g].use # "none" => grants'[g].code = "used"
                          /\ grants'[g].code = "used" => grants[g].code = "used"
    BY <1>2, <1>4 DEF LinkInv, GrantsAreOf, Stored
  <2>2. QED
    BY <1>5, <1>6, <2>1, GrantsKept
<1>9. CallsInv'
  <2>1. ASSUME NEW d \in calls' PROVE CallInv(d)'
    <3>1. CallInv(d) /\ d \in calls /\ (d.kind = "exchange" => d.grant # c.grant)
      BY <1>1, <1>2 DEF LinkInv, CallsInv, CallInv
    <3>2. d.kind = "exchange" => (Expected(d) => Expected(d)') /\ d.grant \in Grants /\ grants'[d.grant] = grants[d.grant]
      BY <1>3, <1>4, <3>1 DEF Expected, CallInv
    <3>3. d.kind = "disconnect" => grants'[d.grant].code = "used"
      BY <1>2, <1>4, <3>1 DEF CallInv
    <3>4. QED
      BY <1>1, <1>5, <1>6, <3>1, <3>2, <3>3, CallKept DEF CallInv
  <2>2. QED
    BY <1>1, <2>1 DEF LinkInv, CallsInv
<1>10. HandlerInv'
  <2>1. \A g \in Grants : grants'[g].code = grants[g].code /\ grants'[g].use = grants[g].use
    BY <1>2, <1>4
  <2>2. handler.kind = "complete" => handler.grant \in Grants /\ Stored(handler.grant)' /\ SpentRequest(grants[handler.grant].challenge)'
    BY <1>1, <1>3, <1>5, <1>6 DEF LinkInv, HandlerInv, GrantsAreOf, SameOrigin
  <2>3. linked \in Grants \union {0}
    BY DEF LinkInv, LinkTyping
  <2>4. handler.kind = "complete" =>
           /\ handler'.answer = "none" => grants'[handler.grant].code # "used"
           /\ handler'.answer = "done" => grants'[handler.grant].code = "used"
           /\ handler'.answer = "refused" => grants'[handler.grant].use = "none" \/ handler.grant \in lost
    BY <1>2, <1>3, <2>1 DEF LinkInv, HandlerInv
  <2>5. handler.kind \in {"begin", "disconnect"} /\ handler'.answer = "done" => ~Usable(linked)'
    BY <1>1, <1>3, <1>4, <1>6, <2>3 DEF LinkInv, HandlerInv
  <2>6. QED
    BY <1>1, <1>3, <2>1, <2>2, <2>3, <2>4, <2>5 DEF LinkInv, HandlerInv
<1>11. LoggedOutIsCutOff' /\ NoGrantLeftBehind'
  BY <1>1, <1>3, <1>4, <1>6 DEF LinkInv, LoggedOutIsCutOff, NoGrantLeftBehind
<1>12. QED
  BY <1>7, <1>8, <1>9, <1>10, <1>11 DEF LinkInv

\* A sign-out is taken: the grant that is forgotten is of a dead login.
LEMMA TakeSignedOutStep ==
    ASSUME LinkInv, LinkTyping', NEW m \in ToSet(inbox), TakeSignedOut(m)
    PROVE  LinkInv'
<1>1. /\ UNCHANGED <<login, latest, revoked, lapsed, grants, connect, begun, handler, calls, lost>>
      /\ linked' = 0 /\ pending' = 0 /\ inbox' = Tail(inbox) /\ Served(m) /\ m.kind = "signed-out" /\ handler = Idle
  BY DEF TakeSignedOut, siteVars, Served
<1>2. SameOrigin /\ Lasting
  BY <1>1 DEF SameOrigin, Lasting, Stored, SpentRequest, LinkStates, LinkInv, LinkTyping, Logins
<1>3. handler.kind = "none"
  BY <1>1 DEF Idle
<1>4. CodesTravel' /\ SignedOutFor'
  BY <1>1, <1>3, TakenKept
<1>5. OldLoginsAreDead' /\ PendingMeansDisconnected' /\ StoredInOrder' /\ LoggedOutIsCutOff'
  BY <1>1, <1>2, StoredKept DEF LinkInv, OldLoginsAreDead, PendingMeansDisconnected, Dead,
     LoggedOutIsCutOff
<1>6. GrantsAreOf'
  BY <1>1, <1>2, GrantsKept DEF LinkInv, GrantsAreOf
<1>7. CallsInv'
  <2>1. ASSUME NEW d \in calls PROVE CallInv(d)'
    BY <1>1, <1>2, CallKept DEF Expected, LinkInv, CallsInv, CallInv
  <2>2. QED
    BY <1>1, <2>1 DEF LinkInv, CallsInv
<1>8. HandlerInv'
  BY <1>1, <1>3 DEF HandlerInv
<1>9. NoGrantLeftBehind'
  <2>1. 1 \in 1..Len(inbox) /\ inbox[1].kind = "signed-out"
    BY <1>1, ServedFact DEF LinkInv, LinkTyping
  <2>2. linked # 0 => DeadGrant(linked)
    BY <2>1 DEF LinkInv, SignedOutFor
  <2>3. linked # 0 => ~Usable(linked)
    BY <2>2 DEF DeadGrant, Dead, Usable
  <2>4. \A g \in Grants : Usable(g)' <=> Usable(g)
    BY <1>1 DEF Usable
  <2>5. \A g \in Grants : g # 0
    BY DEF Grants
  <2>6. QED
    BY <1>1, <1>3, <2>3, <2>4, <2>5 DEF LinkInv, NoGrantLeftBehind
<1>10. QED
  BY <1>4, <1>5, <1>6, <1>7, <1>8, <1>9 DEF LinkInv

\* A request or a disconnection is taken.
LEMMA TakeEndingStep ==
    ASSUME LinkInv, LinkTyping', NEW m \in ToSet(inbox), TakeEnding(m)
    PROVE  LinkInv'
<1>1. /\ UNCHANGED <<login, latest, revoked, lapsed, grants, connect, lost>>
      /\ inbox' = Tail(inbox) /\ Served(m) /\ m.kind \in {"begin", "disconnect"} /\ handler = Idle
  BY DEF TakeEnding, siteVars, Served
<1>2. handler.kind = "none"
  BY <1>1 DEF Idle
<1>3. \/ /\ linked # 0 /\ linked' = linked /\ UNCHANGED <<pending, begun>>
         /\ handler' = [Idle EXCEPT !.kind = m.kind, !.grant = linked]
         /\ calls' = calls \union {Call("disconnect", 0, linked, 0)}
      \/ /\ linked = 0 /\ linked' = 0 /\ UNCHANGED <<handler, calls>>
         /\ \/ NewRequest
            \/ pending' = 0 /\ UNCHANGED begun
  BY DEF TakeEnding, HoldsGrant
<1>4. linked' = linked /\ Lasting
  BY <1>1, <1>3 DEF Lasting, SpentRequest, LinkStates, LinkInv, LinkTyping, Logins, NewRequest
<1>5. SameOrigin
  BY <1>1 DEF SameOrigin, Stored
<1>6. linked # 0 => handler'.kind = m.kind /\ handler'.grant = linked /\ handler'.answer = "none"
  <2>1. linked # 0 => linked \in Grants
    BY DEF LinkInv, LinkTyping
  <2>2. QED
    BY <1>1, <1>3, <2>1, HandlingFact
<1>7. handler'.kind # "complete" /\ (linked = 0 => handler' = Idle)
  BY <1>1, <1>2, <1>3, <1>6
<1>8. CodesTravel' /\ SignedOutFor'
  BY <1>1, <1>4, <1>7, TakenKept
<1>9. OldLoginsAreDead' /\ StoredInOrder' /\ LoggedOutIsCutOff'
  BY <1>1, <1>5, StoredKept DEF LinkInv, OldLoginsAreDead, Dead, LoggedOutIsCutOff
<1>10. PendingMeansDisconnected'
  BY <1>3 DEF LinkInv, PendingMeansDisconnected
<1>11. GrantsAreOf'
  BY <1>1, <1>4, <1>5, GrantsKept DEF LinkInv, GrantsAreOf
<1>12. CallsInv'
  <2>1. ASSUME NEW d \in calls PROVE CallInv(d)'
    BY <1>1, <1>2, <1>4, <1>5, CallKept DEF Expected, LinkInv, CallsInv, CallInv
  <2>2. ASSUME NEW d \in calls' \ calls PROVE d.kind = "disconnect" /\ CallInv(d)'
    <3>1. linked # 0 /\ d = Call("disconnect", 0, linked, 0)
      BY <1>3, <2>2
    <3>2. d.kind = "disconnect" /\ d.grant = linked
      BY <3>1 DEF Call
    <3>3. linked \in Grants /\ grants'[linked].code = "used"
      BY <1>1, <3>1 DEF LinkInv, LinkTyping, HandlerInv
    <3>4. QED
      BY <3>2, <3>3 DEF CallInv
  <2>3. QED
    BY <2>1, <2>2 DEF LinkInv, CallsInv
<1>13. HandlerInv'
  <2>1. CASE linked = 0
    BY <1>1, <1>4, <1>7, <2>1 DEF HandlerInv, Idle
  <2>2. CASE linked # 0
    BY <1>1, <1>4, <1>6, <2>2 DEF LinkInv, HandlerInv
  <2>3. QED
    BY <2>1, <2>2
<1>14. NoGrantLeftBehind'
  BY <1>1, <1>2, <1>4 DEF LinkInv, NoGrantLeftBehind, Usable
<1>15. QED
  BY <1>8, <1>9, <1>10, <1>11, <1>12, <1>13, <1>14 DEF LinkInv

\* A code is taken for the pending request, which no other exchange has had.
LEMMA TakeCompleteStep ==
    ASSUME LinkInv, LinkTyping', NEW m \in ToSet(inbox), TakeComplete(m)
    PROVE  LinkInv'
<1>1. /\ UNCHANGED <<login, latest, revoked, lapsed, grants, connect, begun, linked, lost>>
      /\ inbox' = Tail(inbox) /\ Served(m) /\ m.kind = "complete" /\ handler = Idle
  BY DEF TakeComplete, siteVars, Served
<1>2. handler.kind = "none"
  BY <1>1 DEF Idle
<1>3. m.grant \in Grants /\ Stored(m.grant) /\ grants[m.grant].challenge = m.state /\ m.state \in LinkStates
  BY <1>1, ServedFact DEF LinkInv, LinkTyping, CodesTravel, GrantsAreOf
<1>4. \/ /\ pending = m.state /\ pending' = 0
         /\ handler' = [Idle EXCEPT !.kind = "complete", !.grant = m.grant]
         /\ calls' = calls \union {Call("exchange", 0, m.grant, m.state)}
      \/ UNCHANGED <<pending, handler, calls>>
  BY DEF TakeComplete
<1>5. Lasting
  BY <1>1, <1>4 DEF Lasting, SpentRequest, LinkStates, LinkInv, LinkTyping, Logins
<1>6. SameOrigin
  BY <1>1 DEF SameOrigin, Stored
<1>7. handler' = handler \/ (handler'.kind = "complete" /\ handler'.grant = m.grant /\ handler'.answer = "none")
  BY <1>3, <1>4, HandlingFact
<1>8. CodesTravel' /\ SignedOutFor'
  BY <1>1, <1>2, <1>7, TakenKept
<1>9. OldLoginsAreDead' /\ StoredInOrder' /\ LoggedOutIsCutOff' /\ PendingMeansDisconnected'
  BY <1>1, <1>4, <1>6, StoredKept DEF LinkInv, OldLoginsAreDead, Dead, LoggedOutIsCutOff,
     PendingMeansDisconnected
<1>10. GrantsAreOf'
  BY <1>1, <1>5, <1>6, GrantsKept DEF LinkInv, GrantsAreOf
<1>11. \A d \in calls : CallInv(d)'
  BY <1>1, <1>2, <1>5, <1>6, CallKept DEF Expected, LinkInv, CallsInv, CallInv
<1>12. \A g \in Grants : Usable(g)' <=> Usable(g)
  BY <1>1 DEF Usable
<1>13. CASE UNCHANGED <<pending, handler, calls>>
  <2>1. CallsInv' /\ HandlerInv' /\ NoGrantLeftBehind'
    BY <1>1, <1>2, <1>11, <1>12, <1>13 DEF LinkInv, CallsInv, HandlerInv, NoGrantLeftBehind
  <2>2. QED
    BY <1>8, <1>9, <1>10, <2>1 DEF LinkInv
<1>14. CASE pending = m.state /\ pending' = 0 /\ calls' = calls \union {Call("exchange", 0, m.grant, m.state)}
            /\ handler'.kind = "complete" /\ handler'.grant = m.grant /\ handler'.answer = "none"
  <2> DEFINE e == Call("exchange", 0, m.grant, m.state)
  <2>1. e.kind = "exchange" /\ e.grant = m.grant /\ e.state = m.state /\ e.login = 0 /\ ~e.checked
    BY DEF Call
  <2> HIDE DEF e
  <2>2. pending # 0 /\ linked = 0 /\ ~SpentRequest(m.state) /\ SpentRequest(m.state)'
    BY <1>1, <1>3, <1>14 DEF SpentRequest, LinkStates, LinkInv, LinkTyping,
       PendingMeansDisconnected
  <2>3. grants[m.grant].code # "used" /\ \A d \in calls : d.kind = "exchange" => d.grant # m.grant
    BY <1>3, <2>2 DEF LinkInv, GrantsAreOf, CallsInv, CallInv
  <2>4. CallInv(e)'
    BY <1>1, <1>3, <1>6, <1>14, <2>1, <2>2, <2>3 DEF CallInv, Expected, SameOrigin
  <2>5. calls' = calls \union {e}
    BY <1>14 DEF e
  <2>6. CallsInv'
    BY <1>11, <2>1, <2>3, <2>4, <2>5 DEF LinkInv, CallsInv
  <2>7. HandlerInv'
    BY <1>1, <1>3, <1>6, <1>14, <2>2, <2>3 DEF HandlerInv, SameOrigin
  <2>8. NoGrantLeftBehind'
    BY <1>1, <1>2, <1>12 DEF LinkInv, NoGrantLeftBehind
  <2>9. QED
    BY <1>8, <1>9, <1>10, <2>6, <2>7, <2>8 DEF LinkInv
<1>15. QED
  BY <1>3, <1>4, <1>13, <1>14, HandlingFact

\* What the release of the lock leaves alone.
LEMMA ReleaseKept ==
    ASSUME LinkInv, Lasting,
           UNCHANGED <<login, latest, revoked, lapsed, grants, connect, inbox, calls>>,
           handler' \in {handler, Idle},
           linked' \in {linked, 0} \/ (handler.kind = "complete" /\ linked' = handler.grant),
           handler' = handler \/ handler.answer # "none" \/ (handler.kind = "complete" => handler.grant \in lost')
    PROVE  /\ OldLoginsAreDead' /\ StoredInOrder' /\ GrantsAreOf' /\ CodesTravel' /\ CallsInv' /\ SignedOutFor'
           /\ LoggedOutIsCutOff'
           /\ \A g \in Grants : (Usable(g)' <=> Usable(g)) /\ (Stored(g)' <=> Stored(g))
<1>1. SameOrigin
  BY DEF SameOrigin, Stored
<1>2. Idle.kind = "none"
  BY DEF Idle
<1>3. OldLoginsAreDead' /\ StoredInOrder' /\ CodesTravel' /\ SignedOutFor' /\ LoggedOutIsCutOff'
  BY <1>1, <1>2, StoredKept, CodesKept, SignedOutKept
     DEF LinkInv, OldLoginsAreDead, Dead, LoggedOutIsCutOff
<1>4. GrantsAreOf'
  BY <1>1, GrantsKept DEF LinkInv, GrantsAreOf
<1>5. CallsInv'
  <2>1. ASSUME NEW d \in calls PROVE CallInv(d)'
    <3>1. CallInv(d)
      BY DEF LinkInv, CallsInv
    <3>2. Expected(d) => Expected(d)' \/ d.grant \in lost'
      BY DEF Expected
    <3>3. QED
      BY <1>1, <3>1, <3>2, CallKept DEF CallInv
  <2>2. QED
    BY <2>1 DEF LinkInv, CallsInv
<1>6. \A g \in Grants : (Usable(g)' <=> Usable(g)) /\ (Stored(g)' <=> Stored(g))
  BY DEF Usable, Stored
<1>7. QED
  BY <1>3, <1>4, <1>5, <1>6

\* The awaited answer: the grant that is forgotten is not usable any more.
LEMMA FinishStep ==
    ASSUME LinkInv, LinkTyping', FinishMessage
    PROVE  LinkInv'
<1>1. /\ UNCHANGED <<login, latest, revoked, lapsed, grants, connect, inbox, calls, lost>>
      /\ handler' = Idle /\ handler.answer # "none"
  BY DEF FinishMessage
<1>2. \/ handler.answer = "refused" /\ UNCHANGED <<pending, begun, linked>>
      \/ /\ handler.answer = "done" /\ handler.kind = "complete"
         /\ linked' = handler.grant /\ UNCHANGED <<pending, begun>>
      \/ /\ handler.answer = "done" /\ handler.kind = "begin"
         /\ linked' = 0 /\ NewRequest
      \/ /\ handler.answer = "done" /\ handler.kind \notin {"begin", "complete"}
         /\ linked' = 0 /\ pending' = 0 /\ UNCHANGED begun
  <2>1. handler.answer \in {"done", "refused"} /\ handler.kind \in {"none", "begin", "disconnect", "complete"}
    BY <1>1 DEF LinkInv, LinkTyping, HandlerShape
  <2>2. CASE handler.answer = "refused"
    BY <2>2 DEF FinishMessage
  <2>3. CASE handler.answer = "done" /\ handler.kind = "complete"
    BY <2>3 DEF FinishMessage
  <2>4. CASE handler.answer = "done" /\ handler.kind = "begin"
    BY <2>4 DEF FinishMessage
  <2>5. CASE handler.answer = "done" /\ handler.kind \in {"none", "disconnect"}
    BY <2>5 DEF FinishMessage
  <2>6. QED
    BY <2>1, <2>2, <2>3, <2>4, <2>5
<1>3. Lasting
  BY <1>1, <1>2 DEF Lasting, SpentRequest, LinkStates, LinkInv, LinkTyping, Logins, NewRequest
<1>4. handler.kind \in {"begin", "disconnect", "complete"}
  BY <1>1 DEF LinkInv, LinkTyping, HandlerInv, HandlerShape, Idle
<1>5. /\ OldLoginsAreDead' /\ StoredInOrder' /\ GrantsAreOf' /\ CodesTravel' /\ CallsInv' /\ SignedOutFor'
      /\ LoggedOutIsCutOff'
      /\ \A g \in Grants : (Usable(g)' <=> Usable(g)) /\ (Stored(g)' <=> Stored(g))
  BY <1>1, <1>2, <1>3, ReleaseKept
<1>6. PendingMeansDisconnected'
  BY <1>2 DEF LinkInv, PendingMeansDisconnected, HandlerInv
<1>7. HandlerInv'
  BY <1>1, <1>2 DEF LinkInv, HandlerInv, Idle
<1>8. NoGrantLeftBehind'
  <2> SUFFICES ASSUME NEW g \in Grants, Usable(g) PROVE g = linked' \/ g \in lost
    BY <1>1, <1>5 DEF NoGrantLeftBehind
  <2>1. g = linked \/ g \in lost \/ (handler.kind = "complete" /\ handler.grant = g)
    BY DEF LinkInv, NoGrantLeftBehind
  <2>2. grants[g].use # "none" /\ g # 0
    BY DEF Usable, Grants
  <2>3. CASE handler.kind = "complete"
    BY <1>1, <1>2, <2>1, <2>2, <2>3 DEF LinkInv, HandlerInv
  <2>4. CASE handler.kind \in {"begin", "disconnect"}
    BY <1>1, <1>2, <2>1, <2>4 DEF LinkInv, HandlerInv
  <2>5. QED
    BY <1>4, <2>3, <2>4
<1>9. QED
  BY <1>5, <1>6, <1>7, <1>8 DEF LinkInv

\* The message is given up: an exchange it waited for is counted as lost.
LEMMA AbandonStep ==
    ASSUME LinkInv, LinkTyping', Abandon
    PROVE  LinkInv'
<1>1. /\ UNCHANGED <<login, latest, revoked, lapsed, grants, connect, inbox, calls, pending, begun, linked>>
      /\ handler' = Idle
      /\ lost' = IF handler.kind = "complete" THEN lost \union {handler.grant} ELSE lost
  BY DEF Abandon, siteVars
<1>2. Lasting
  BY <1>1 DEF Lasting, SpentRequest, LinkInv, LinkTyping, Logins
<1>3. /\ OldLoginsAreDead' /\ StoredInOrder' /\ GrantsAreOf' /\ CodesTravel' /\ CallsInv' /\ SignedOutFor'
      /\ LoggedOutIsCutOff'
      /\ \A g \in Grants : (Usable(g)' <=> Usable(g)) /\ (Stored(g)' <=> Stored(g))
  BY <1>1, <1>2, ReleaseKept
<1>4. PendingMeansDisconnected' /\ NoGrantLeftBehind' /\ HandlerInv'
  BY <1>1, <1>3 DEF LinkInv, PendingMeansDisconnected, NoGrantLeftBehind, HandlerInv, Idle
<1>5. QED
  BY <1>3, <1>4 DEF LinkInv

\* The popup forgets a grant it was told is of no use.
LEMMA PopupSignsOutStep ==
    ASSUME LinkInv, LinkTyping', PopupSignsOut
    PROVE  LinkInv'
<1>1. /\ UNCHANGED <<login, latest, revoked, lapsed, grants, connect, inbox, calls, pending, begun, handler, lost>>
      /\ handler = Idle /\ linked' = 0 /\ ~Usable(linked)
  BY DEF PopupSignsOut, siteVars
<1>2. Lasting
  BY <1>1 DEF Lasting, SpentRequest, LinkInv, LinkTyping, Logins
<1>3. /\ OldLoginsAreDead' /\ StoredInOrder' /\ GrantsAreOf' /\ CodesTravel' /\ CallsInv' /\ SignedOutFor'
      /\ LoggedOutIsCutOff'
      /\ \A g \in Grants : (Usable(g)' <=> Usable(g)) /\ (Stored(g)' <=> Stored(g))
  BY <1>1, <1>2, ReleaseKept
<1>4. PendingMeansDisconnected' /\ NoGrantLeftBehind' /\ HandlerInv'
  BY <1>1, <1>3 DEF LinkInv, PendingMeansDisconnected, NoGrantLeftBehind, HandlerInv, Idle
<1>5. QED
  BY <1>3, <1>4 DEF LinkInv

\* The invariant holds initially.
LEMMA LinkInitInv == LinkInit => LinkInv
<1> SUFFICES ASSUME LinkInit PROVE LinkInv
  OBVIOUS
<1> USE DEF LinkInit
<1>1. \A g \in Grants : grants[g].code = "none" /\ grants[g].use = "none" /\ grants[g].login = 0 /\ grants[g].challenge = 0 /\ ~grants[g].revoked
  BY DEF NoGrant
<1>2. LinkTyping
  BY DEF LinkTyping, NoGrant, NoTab, Idle, GrantShape, TabShape, HandlerShape, Grants, Logins,
     LinkStates
<1>3. OldLoginsAreDead /\ CodesTravel /\ PendingMeansDisconnected
  BY DEF OldLoginsAreDead, CodesTravel, PendingMeansDisconnected, NoTab
<1>4. StoredInOrder
  <2>1. 0 \in 0..MaxGrants
    BY LinkConstants
  <2>2. \A g \in Grants : Stored(g) <=> g <= 0
    BY <1>1 DEF Stored, Grants
  <2>3. QED
    BY <2>1, <2>2 DEF StoredInOrder
<1>5. GrantsAreOf /\ LoggedOutIsCutOff /\ NoGrantLeftBehind
  BY <1>1 DEF GrantsAreOf, LoggedOutIsCutOff, NoGrantLeftBehind, Usable, Stored
<1>6. CallsInv /\ HandlerInv /\ SignedOutFor
  BY DEF CallsInv, HandlerInv, SignedOutFor, Idle
<1>7. QED
  BY <1>2, <1>3, <1>4, <1>5, <1>6 DEF LinkInv

\* Every step keeps the fields of the variables.
LEMMA TypingStep ==
    ASSUME LinkInv, LinkNext
    PROVE  LinkTyping'
<1> USE DEF LinkInv, LinkTyping, Logins, Grants, LinkStates, siteVars, extensionVars
<1> USE BoundsFact
<1>1. CASE SignIn
  BY <1>1, NotifiedFact DEF SignIn
<1>2. CASE SignOut
  BY <1>2, CallFact DEF SignOut
<1>3. CASE RemoveToken
  BY <1>3, NotifiedFact DEF RemoveToken
<1>4. CASE Expire
  <2>1. grants' \in [Grants -> GrantShape]
    BY OlderFact, <1>4
  <2>2. QED
    BY <1>4, <2>1 DEF Expire
<1>5. ASSUME NEW s \in LinkStates, InspectRequest(s) PROVE LinkTyping'
  <2>1. [NoTab EXCEPT !.stage = "ready", !.login = login] \in TabShape
    <3>1. login \in Logins
      BY <1>5 DEF InspectRequest
    <3>2. NoTab \in TabShape
      BY DEF NoTab, TabShape
    <3>3. \A t \in TabShape : [t EXCEPT !.stage = "ready", !.login = login] \in TabShape
      BY <3>1 DEF TabShape
    <3>4. QED
      BY <3>2, <3>3
  <2>2. QED
    BY <1>5, <2>1 DEF InspectRequest
<1>6. ASSUME NEW s \in LinkStates, Confirm(s) PROVE LinkTyping'
  <2>1. connect' \in [LinkStates -> TabShape]
    BY <1>6 DEF Confirm, TabShape
  <2>2. Call("authorize", login, 0, s) \in CallShape
    BY CallFact
  <2>3. QED
    BY <1>6, <2>1, <2>2 DEF Confirm
<1>7. ASSUME NEW s \in LinkStates, Deliver(s) PROVE LinkTyping'
  <2>1. connect' \in [LinkStates -> TabShape]
    BY <1>7, TabFact1 DEF Deliver
  <2>2. inbox' \in Seq(MessageShape)
    <3>1. Message("complete", s, connect[s].grant) \in MessageShape
      BY DEF Message, MessageShape, TabShape
    <3>2. QED
      BY <1>7, <3>1, AppendFact DEF Deliver
  <2>3. QED
    BY <1>7, <2>1, <2>2 DEF Deliver
<1>8. ASSUME NEW s \in LinkStates, TabGivesUp(s) PROVE LinkTyping'
  BY <1>8 DEF TabGivesUp, TabShape
<1>9. ASSUME NEW c \in calls, HandleLogout(c) PROVE LinkTyping'
  <2>1. grants' \in [Grants -> GrantShape]
    BY <1>9, ZenonT(60) DEF HandleLogout, GrantShape
  <2>2. c.login \in 1..latest
    BY <1>9 DEF HandleLogout, CallsInv, CallInv
  <2>3. QED
    BY <1>9, <2>1, <2>2 DEF HandleLogout
<1>10. ASSUME NEW c \in calls, CheckLogin(c) PROVE LinkTyping'
  <2>1. [c EXCEPT !.checked = TRUE] \in CallShape
    BY DEF CallShape
  <2>2. QED
    BY <1>10, <2>1 DEF CheckLogin
<1>11. ASSUME NEW c \in calls, StoreGrant(c) PROVE LinkTyping'
  <2> DEFINE g == Cardinality({h \in Grants : grants[h] # NoGrant}) + 1
  <2>1. g \in Grants /\ c.login \in Logins \union {0} /\ c.state \in LinkStates
    BY <1>11 DEF StoreGrant, CallShape, CallsInv, CallInv
  <2>2. [NoGrant EXCEPT !.login = c.login, !.challenge = c.state, !.code = "fresh"] \in GrantShape
    BY <2>1 DEF NoGrant, GrantShape
  <2>3. grants' = [grants EXCEPT ![g] = [NoGrant EXCEPT !.login = c.login, !.challenge = c.state, !.code = "fresh"]]
    BY <1>11 DEF StoreGrant
  <2>4. connect' = connect \/ connect' = [connect EXCEPT ![c.state].stage = "deliver", ![c.state].grant = g]
    BY <1>11 DEF StoreGrant
  <2>5. calls' = calls \ {c} /\ UNCHANGED <<events, siteVars, extensionVars>>
    BY <1>11 DEF StoreGrant
  <2> HIDE DEF g
  <2>6. connect' \in [LinkStates -> TabShape]
    BY <2>1, <2>4, TabFact2
  <2>7. grants' \in [Grants -> GrantShape]
    BY <2>1, <2>2, <2>3
  <2>8. QED
    BY <2>5, <2>6, <2>7
<1>12. ASSUME NEW c \in calls, CheckCode(c) PROVE LinkTyping'
  <2>1. [c EXCEPT !.checked = TRUE] \in CallShape
    BY DEF CallShape
  <2>2. handler' \in HandlerShape
    BY <1>12, AnsweredFact DEF CheckCode
  <2>3. QED
    BY <1>12, <2>1, <2>2 DEF CheckCode
<1>13. ASSUME NEW c \in calls, ConsumeCode(c) PROVE LinkTyping'
  <2>1. grants' \in [Grants -> GrantShape]
    BY <1>13, ConsumeFact DEF ConsumeCode, CallsInv, CallInv
  <2>2. handler' \in HandlerShape
    BY <1>13, AnsweredFact DEF ConsumeCode
  <2>3. QED
    BY <1>13, <2>1, <2>2 DEF ConsumeCode
<1>14. ASSUME NEW c \in calls, HandleDisconnect(c) PROVE LinkTyping'
  <2>1. grants' \in [Grants -> GrantShape]
    <3>1. grants \in [Grants -> GrantShape]
      OBVIOUS
    <3>2. \A h \in Grants : [grants[h] EXCEPT !.revoked = TRUE] \in GrantShape
      BY <3>1 DEF GrantShape
    <3>3. \/ UNCHANGED grants
          \/ grants' = [grants EXCEPT ![c.grant] = [grants[c.grant] EXCEPT !.revoked = TRUE]]
      BY <1>14 DEF HandleDisconnect
    <3>4. CASE grants' = [grants EXCEPT ![c.grant] = [grants[c.grant] EXCEPT !.revoked = TRUE]]
      <4> DEFINE v == [grants[c.grant] EXCEPT !.revoked = TRUE]
      <4>1. c.grant \in Grants => v \in GrantShape
        BY <3>2
      <4> HIDE DEF v
      <4>2. grants' = [grants EXCEPT ![c.grant] = v]
        BY <3>4 DEF v
      <4>3. QED
        BY <3>1, <4>1, <4>2
    <3>5. QED
      BY <3>1, <3>3, <3>4
  <2>2. handler' \in HandlerShape
    BY <1>14, AnsweredFact DEF HandleDisconnect
  <2>3. QED
    BY <1>14, <2>1, <2>2 DEF HandleDisconnect
<1>15. CASE AskToConnect \/ AskToDisconnect
  <2>1. \A k \in {"begin", "disconnect"} : Message(k, 0, 0) \in MessageShape
    BY DEF Message, MessageShape
  <2>2. QED
    BY <1>15, <2>1, AppendFact DEF AskToConnect, AskToDisconnect, Ask, Counted
<1>16. ASSUME NEW m \in ToSet(inbox), TakeEnding(m) PROVE LinkTyping'
  <2>1. inbox' \in Seq(MessageShape)
    BY <1>16, ServedFact DEF TakeEnding
  <2>2. CASE HoldsGrant
    <3>1. linked \in Grants /\ m.kind \in {"begin", "disconnect"}
      BY <1>16, <2>2 DEF HoldsGrant, TakeEnding
    <3>2. Call("disconnect", 0, linked, 0) \in CallShape
      BY <3>1, CallFact
    <3>4. handler' \in HandlerShape /\ calls' \subseteq CallShape
      BY <1>16, <2>2, <3>1, <3>2, HandlingFact DEF TakeEnding
    <3>3. QED
      BY <1>16, <2>1, <2>2, <3>4 DEF TakeEnding
  <2>3. CASE ~HoldsGrant
    BY <1>16, <2>1, <2>3 DEF TakeEnding, NewRequest
  <2>4. QED
    BY <2>2, <2>3
<1>17. ASSUME NEW m \in ToSet(inbox), TakeSignedOut(m) PROVE LinkTyping'
  BY <1>17, ServedFact DEF TakeSignedOut
<1>18. ASSUME NEW m \in ToSet(inbox), TakeComplete(m) PROVE LinkTyping'
  <2>1. inbox' \in Seq(MessageShape) /\ m \in MessageShape /\ m = inbox[1] /\ 1 \in 1..Len(inbox)
    BY <1>18, ServedFact DEF TakeComplete
  <2>2. CASE pending = m.state
    <3>1. m.grant \in Grants /\ m.state \in LinkStates \union {0}
      BY <1>18, <2>1 DEF TakeComplete, CodesTravel, MessageShape
    <3>2. Call("exchange", 0, m.grant, m.state) \in CallShape
      BY <3>1, CallFact
    <3>4. handler' \in HandlerShape /\ calls' \subseteq CallShape
      BY <1>18, <2>2, <3>1, <3>2, HandlingFact DEF TakeComplete
    <3>3. QED
      BY <1>18, <2>1, <2>2, <3>4 DEF TakeComplete
  <2>3. CASE pending # m.state
    BY <1>18, <2>1, <2>3 DEF TakeComplete
  <2>4. QED
    BY <2>2, <2>3
<1>19. CASE FinishMessage
  <2>1. handler' \in HandlerShape
    BY <1>19 DEF FinishMessage, Idle, HandlerShape
  <2>2. linked' \in Grants \union {0}
    BY <1>19 DEF FinishMessage, HandlerInv
  <2>3. /\ pending' \in Nat /\ begun' \in LinkStates \union {0} /\ pending' <= begun'
    <3>1. UNCHANGED <<pending, begun>> \/ NewRequest \/ (pending' = 0 /\ UNCHANGED begun)
      BY <1>19 DEF FinishMessage
    <3>2. QED
      BY <3>1 DEF NewRequest
  <2>4. UNCHANGED <<login, latest, revoked, lapsed, grants, connect, inbox, calls, lost>>
    BY <1>19 DEF FinishMessage
  <2>5. QED
    BY <2>1, <2>2, <2>3, <2>4
<1>20. CASE Abandon
  <2>1. handler' \in HandlerShape
    BY <1>20 DEF Abandon, Idle, HandlerShape
  <2>2. handler.kind = "complete" => handler.grant \in Grants
    BY DEF HandlerInv
  <2>3. QED
    BY <1>20, <2>1, <2>2 DEF Abandon
<1>21. CASE PopupSignsOut
  BY <1>21 DEF PopupSignsOut
<1>22. QED
  BY <1>1, <1>2, <1>3, <1>4, <1>5, <1>6, <1>7, <1>8, <1>9, <1>10, <1>11, <1>12, <1>13, <1>14,
     <1>15, <1>16, <1>17, <1>18, <1>19, <1>20, <1>21 DEF LinkNext

\* Every step keeps the inductive invariant.
LEMMA LinkStepInv == LinkInv /\ [LinkNext]_linkVars => LinkInv'
<1> SUFFICES ASSUME LinkInv, [LinkNext]_linkVars PROVE LinkInv'
  OBVIOUS
<1>1. CASE UNCHANGED linkVars
  BY <1>1 DEF linkVars, LinkInv, LinkTyping, OldLoginsAreDead, Dead, StoredInOrder, Stored,
     GrantsAreOf,
     SpentRequest, CodesTravel, CallsInv, CallInv, Expected, HandlerInv, Usable, SignedOutFor, DeadGrant,
     LoggedOutIsCutOff, NoGrantLeftBehind, PendingMeansDisconnected
<1>2. CASE LinkNext
  <2>1. LinkTyping'
    BY <1>2, TypingStep
  <2>2. QED
    BY <1>2, <2>1, PlatformStep, ExpireStep, LogoutStep, CheckLoginStep, StoreGrantStep,
       CheckCodeStep,
       ConsumeCodeStep, DisconnectStep, TakeSignedOutStep, TakeEndingStep, TakeCompleteStep, FinishStep,
       AbandonStep, PopupSignsOutStep DEF LinkNext
<1>3. QED
  BY <1>1, <1>2

\* It says more than the types.
LEMMA LinkTypesFact == LinkInv => LinkTypes
<1> SUFFICES ASSUME LinkInv PROVE LinkTypes
  OBVIOUS
<1>1. LinkTyping
  BY DEF LinkInv
<1>2. \A g \in Grants : grants[g].login \in Logins \union {0} /\ grants[g].challenge \in LinkStates \union {0}
  BY <1>1 DEF LinkTyping, GrantShape
<1>3. pending \in LinkStates \union {0}
  BY <1>1, BoundsFact DEF LinkTyping, LinkStates
<1>4. login \in Logins \union {0} /\ revoked \union lapsed \subseteq Logins
  BY <1>1, BoundsFact DEF LinkTyping, Logins
<1>5. QED
  BY <1>1, <1>2, <1>3, <1>4 DEF LinkTyping, LinkTypes

\* The link alone: access ends with the login, and a new connection leaves no grant
\* behind, for any numbers of logins, requests, grants and failures.
THEOREM LinkIsSafe ==
    LinkSpec => [](LinkTypes /\ LoggedOutIsCutOff /\ NoGrantLeftBehind /\ PendingMeansDisconnected)
<1>1. LinkSpec => []LinkInv
  BY LinkInitInv, LinkStepInv, PTL DEF LinkSpec
<1>2. LinkInv => LinkTypes /\ LoggedOutIsCutOff /\ NoGrantLeftBehind /\ PendingMeansDisconnected
  BY LinkTypesFact DEF LinkInv
<1>3. QED
  BY <1>1, <1>2, PTL

\* In the browser a step of the link is a step of the link alone, and the other parts
\* leave it where it starts.
LEMMA BrowserStep == [ExtensionNext]_extensionMCVars => [LinkNext]_linkVars
  BY DEF ExtensionNext, extensionMCVars

\* The same of the whole browser: the run of Extension.cfg checks it on a small instance.
THEOREM AccessIsBoundedHolds == ExtensionSpec => []AccessIsBounded
<1>1. ExtensionInit => LinkInv
  BY LinkInitInv DEF ExtensionInit, AtLink
<1>2. LinkInv /\ [ExtensionNext]_extensionMCVars => LinkInv'
  BY BrowserStep, LinkStepInv
<1>3. LinkInv => AccessIsBounded
  BY LinkTypesFact DEF LinkInv, AccessIsBounded
<1>4. QED
  BY <1>1, <1>2, <1>3, PTL DEF ExtensionSpec

\* What a step of the link may not do.
Timely ==
    \A g \in Grants : (grants'[g].use = "live" /\ grants[g].use # "live") =>
       /\ grants[g].login \notin revoked
       /\ [Call("exchange", 0, g, grants[g].challenge) EXCEPT !.checked = TRUE] \in calls

\* No other step makes a grant live.
LEMMA OthersMakeNoneLive ==
    ASSUME LinkInv, LinkNext, NEW g \in Grants, grants'[g].use = "live", grants[g].use # "live"
    PROVE  \E c \in calls : ConsumeCode(c)
<1> SUFFICES ASSUME \A c \in calls : ~ConsumeCode(c) PROVE FALSE
  OBVIOUS
<1>1. grants \in [Grants -> GrantShape]
  BY DEF LinkInv, LinkTyping
<1>2. CASE UNCHANGED grants
  BY <1>2
<1>3. CASE Expire
  BY <1>3, OlderFact DEF LinkInv, Older
<1>4. ASSUME NEW c \in calls, HandleLogout(c) PROVE FALSE
  <2>1. c.login \in 1..latest
    BY <1>4 DEF HandleLogout, LinkInv, CallsInv, CallInv
  <2>2. grants'[g].use = grants[g].use
    BY <1>4, <2>1, LogoutFact DEF HandleLogout, LinkInv
  <2>3. QED
    BY <2>2
<1>5. ASSUME NEW c \in calls, StoreGrant(c) PROVE FALSE
  <2>1. PICK h \in Grants : grants' = [grants EXCEPT ![h] =
           [NoGrant EXCEPT !.login = c.login, !.challenge = c.state, !.code = "fresh"]]
    BY <1>5 DEF StoreGrant
  <2>2. grants'[g] = grants[g] \/ grants'[g].use = "none"
    BY <1>1, <2>1 DEF NoGrant
  <2>3. QED
    BY <2>2
<1>6. ASSUME NEW c \in calls, HandleDisconnect(c) PROVE FALSE
  <2>1. c.grant \in Grants
    BY <1>6 DEF HandleDisconnect, LinkInv, CallsInv, CallInv
  <2>2. grants'[g].use = grants[g].use
    BY <1>1, <1>6, <2>1, RevokeFact DEF HandleDisconnect
  <2>3. QED
    BY <2>2
<1>7. QED
  BY <1>2, <1>3, <1>4, <1>5, <1>6
     DEF LinkNext, SignIn, SignOut, RemoveToken, InspectRequest, Confirm, Deliver, TabGivesUp,
         CheckLogin, CheckCode, AskToConnect, AskToDisconnect, Ask, TakeEnding, TakeSignedOut,
         TakeComplete, FinishMessage, Abandon, PopupSignsOut

\* Only the exchange of its own code, checked while its login was good, makes a grant
\* live: a login signed out after the check has revoked the grant.
LEMMA TimelyStep == LinkInv /\ LinkNext => Timely
<1> SUFFICES ASSUME LinkInv, LinkNext, NEW g \in Grants, grants'[g].use = "live", grants[g].use # "live"
    PROVE /\ grants[g].login \notin revoked
          /\ [Call("exchange", 0, g, grants[g].challenge) EXCEPT !.checked = TRUE] \in calls
  BY DEF Timely
<1>1. PICK c \in calls : ConsumeCode(c)
  BY OthersMakeNoneLive
<1>2. c.kind = "exchange" /\ c.checked
  BY <1>1 DEF ConsumeCode
<1>3. CallInv(c) /\ c \in CallShape
  BY DEF LinkInv, CallsInv, LinkTyping
<1>4. c.grant = g /\ ~grants[g].revoked
  <2>1. CASE Consumable(c.grant)
    <3>1. grants' = [grants EXCEPT ![c.grant].code = "used", ![c.grant].use = "live"]
      BY <1>1, <2>1 DEF ConsumeCode
    <3>2. \A h \in Grants \ {c.grant} : grants'[h] = grants[h]
      BY <1>2, <1>3, <3>1, ConsumeFact DEF CallInv, LinkInv, LinkTyping
    <3>3. QED
      BY <2>1, <3>2 DEF Consumable
  <2>2. CASE ~Consumable(c.grant)
    BY <1>1, <2>2 DEF ConsumeCode
  <2>3. QED
    BY <2>1, <2>2
<1>5. grants[g].login \notin revoked
  BY <1>2, <1>3, <1>4 DEF CallInv
<1>6. c.login = 0 /\ c.state = grants[g].challenge /\ c.checked = TRUE
  BY <1>2, <1>3, <1>4 DEF CallInv, CallShape
<1>7. Call("exchange", 0, g, grants[g].challenge) \in CallShape
  BY <1>2, <1>3, <1>4, <1>6, CallFact DEF CallInv, CallShape
<1>8. ASSUME NEW d \in CallShape, d.kind = "exchange", d.login = 0, d.grant = g, d.state = grants[g].challenge
      PROVE [d EXCEPT !.checked = TRUE] = c
  BY <1>2, <1>3, <1>4, <1>6, <1>8 DEF CallShape
<1>9. [Call("exchange", 0, g, grants[g].challenge) EXCEPT !.checked = TRUE] = c
  BY <1>7, <1>8 DEF Call
<1>10. QED
  BY <1>5, <1>9

\* No exchange outlives the login it was authorised by, alone and in the browser.
THEOREM ExchangesAreTimelyHolds ==
    /\ LinkSpec => ExchangesAreTimely
    /\ ExtensionSpec => ExchangesAreTimely
<1>1. LinkInv /\ [LinkNext]_linkVars => [Timely]_linkVars
  BY TimelyStep
<1>2. LinkSpec => [][Timely]_linkVars
  BY <1>1, LinkInitInv, LinkStepInv, PTL DEF LinkSpec
<1>3. ExtensionInit => LinkInv
  BY LinkInitInv DEF ExtensionInit, AtLink
<1>4. ExtensionSpec => [][Timely]_linkVars
  BY <1>1, <1>3, BrowserStep, LinkStepInv, PTL DEF ExtensionSpec
<1>5. QED
  BY <1>2, <1>4 DEF ExchangesAreTimely, Timely
===============================================================================
