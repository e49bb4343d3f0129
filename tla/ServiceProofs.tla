---------------------------- MODULE ServiceProofs -----------------------------
(***************************************************************************)
(* Proofs about two services of a node and about its programs.             *)
(* Messaging, for any finite set of users, any links and names, any size   *)
(* of the queues and any number of calls: what a call relies on is the     *)
(* guard it holds; a sender keeps a link from being disconnected, a loop   *)
(* over the map keeps links from being removed.                            *)
(* BatchAggregator, for any finite set of requests, any models and any     *)
(* sizes of the batches and of the queue.                                  *)
(* NodePrograms, for any processes, any number of starts, any finite set   *)
(* of commands and any credit.                                             *)
(***************************************************************************)
EXTENDS Messaging, BatchAggregator, NodePrograms, FiniteSetTheorems, SequenceTheorems, TLAPS

(* The messaging registry. *)

Loops == {"broadcast", "connect", "disconnect"}

\* Where a call is, and the link it is at.
Placed(u) ==
    /\ user[u].at \in {"ready", "next"} => user[u].link = NoLink
    /\ user[u].at \in {"enter", "queue", "count"} => user[u].link \in Link
    /\ user[u].at = "ready" => user[u].op = "none"
    /\ user[u].at \in {"queue", "count"} => user[u].op \in {"send", "broadcast"}

\* The guards a call holds, and what they keep as it was.
HoldsLink(u) ==
    user[u].at \in {"queue", "count"} =>
        u \in linkGuards[user[u].link].read /\ connected[user[u].link]

HoldsMap(u) ==
    /\ user[u].op \in Loops => u \in mapGuards.read
    /\ user[u].op = "remove" => u \in mapGuards.write
    /\ user[u].op = "connect" =>
          user[u].todo \subseteq channels /\ user[u].link \in channels \cup {NoLink}

Excluded == mapGuards.write = {} \/ mapGuards.read = {}

MessagingIInv ==
    /\ MessagingTypeOK
    /\ \A u \in User : Placed(u) /\ HoldsLink(u) /\ HoldsMap(u)
    /\ Excluded
    /\ SentAccounted /\ RemovedStaysDisconnected

UserState == [at : {"ready", "enter", "next", "queue", "count"}, op : Op \cup {"none"},
              link : Link \cup {NoLink}, todo : SUBSET Link]

-----------------------------------------------------------------------------
LEMMA GuardsType ==
    ASSUME NEW g \in Guards, NEW u \in User
    PROVE  Reading(g, u) \in Guards /\ Writing(g, u) \in Guards /\ Released(g, u) \in Guards
BY DEF Guards, Reading, Writing, Released

LEMMA UncountedFinite ==
    ASSUME NEW l
    PROVE  IsFiniteSet(Uncounted(l)) /\ Cardinality(Uncounted(l)) \in Nat
<1>1. Uncounted(l) \subseteq User
  BY DEF Uncounted
<1>2. QED
  BY <1>1, MessagingAssumption, FS_Subset, FS_CardinalityType

LEMMA MessagingInitIInv == MessagingInit => MessagingIInv
<1> SUFFICES ASSUME MessagingInit PROVE MessagingIInv
  OBVIOUS
<1>1. \A l \in Link : Uncounted(l) = {}
  BY DEF MessagingInit, Uncounted, Resting
<1>2. SentAccounted
  <2>1. \A l \in Link : sent[l] = 0 /\ taken[l] = 0 /\ Len(outgoing[l]) = 0
    BY DEF MessagingInit
  <2>2. QED
    BY <1>1, <2>1, FS_EmptySet DEF SentAccounted
<1>3. MessagingTypeOK
  <2>1. Resting \in UserState
    BY DEF Resting, UserState, Op
  <2>2. user \in [User -> UserState] /\ mapGuards \in Guards /\ linkGuards \in [Link -> Guards]
    BY <2>1 DEF MessagingInit, Guards, Free
  <2>3. calls \in 0..MaxCalls /\ outgoing \in [Link -> Seq(User)]
        /\ \A l \in Link : Len(outgoing[l]) <= max_pending
    BY MessagingAssumption DEF MessagingInit
  <2>4. QED
    BY <2>2, <2>3 DEF MessagingInit, MessagingTypeOK, UserState
<1>4. \A u \in User : Placed(u) /\ HoldsLink(u) /\ HoldsMap(u)
  BY DEF MessagingInit, Placed, HoldsLink, HoldsMap, Resting, Loops
<1>5. Excluded /\ RemovedStaysDisconnected
  BY DEF MessagingInit, Excluded, RemovedStaysDisconnected, Free
<1>6. QED
  BY <1>2, <1>3, <1>4, <1>5 DEF MessagingIInv

\* A step of one call that neither queues nor counts.
LEMMA NotCounting ==
    ASSUME SentAccounted, NEW u \in User, NEW r,
           user \in [User -> UserState], user' = [user EXCEPT ![u] = r],
           user[u].at # "count", r.at # "count", UNCHANGED <<sent, taken, outgoing>>
    PROVE  SentAccounted'
<1>1. \A l \in Link : Uncounted(l)' = Uncounted(l)
  BY DEF Uncounted
<1>2. QED
  BY <1>1 DEF SentAccounted

LEMMA RegisterLinkIInv ==
    ASSUME MessagingIInv, NEW u \in User, NEW l \in Link, RegisterLink(u, l)
    PROVE  MessagingIInv'
<1>1. /\ UNCHANGED <<connected, outgoing, sent, taken, user, mapGuards, linkGuards>>
      /\ mapGuards.read = {} /\ mapGuards.write = {} /\ calls' \in 0..MaxCalls
      /\ channels' \subseteq Link /\ replaced' \subseteq Link
      /\ channels \cup replaced \subseteq channels' \cup replaced'
  BY MessagingAssumption DEF RegisterLink, Called, CanRead, CanWrite, links, MessagingIInv, MessagingTypeOK
<1>2. MessagingTypeOK'
  BY <1>1 DEF MessagingIInv, MessagingTypeOK
<1>3. SentAccounted'
  BY <1>1 DEF MessagingIInv, SentAccounted, Uncounted
<1>4. RemovedStaysDisconnected'
  BY <1>1 DEF MessagingIInv, RemovedStaysDisconnected
<1>5. \A v \in User : (Placed(v) /\ HoldsLink(v) /\ HoldsMap(v))'
  BY <1>1 DEF MessagingIInv, Placed, HoldsLink, HoldsMap, Loops
<1>6. QED
  BY <1>1, <1>2, <1>3, <1>4, <1>5 DEF MessagingIInv, Excluded

\* A call begins: get and send, a loop over the map, or remove.
LEMMA SendIInv ==
    ASSUME MessagingIInv, NEW u \in User, NEW l \in Link, Send(u, l)
    PROVE  MessagingIInv'
<1>1. PICK r : r = [at |-> "enter", op |-> "send", link |-> l, todo |-> {}]
  OBVIOUS
<1>2. /\ UNCHANGED <<channels, connected, outgoing, sent, taken, mapGuards, linkGuards, replaced>>
      /\ user' = [user EXCEPT ![u] = r] /\ calls' \in 0..MaxCalls
      /\ user[u].at = "ready" /\ user[u].op = "none"
      /\ user \in [User -> UserState]
  BY <1>1, MessagingAssumption DEF Send, Called, links, MessagingIInv, MessagingTypeOK, UserState, Placed
<1>3. r.at = "enter" /\ r.op = "send" /\ r.link = l /\ r.todo = {} /\ r \in UserState
  BY <1>1 DEF UserState, Op
<1>4. MessagingTypeOK'
  BY <1>2, <1>3 DEF MessagingIInv, MessagingTypeOK, UserState
<1>5. SentAccounted'
  BY <1>2, <1>3, NotCounting DEF MessagingIInv
<1>6. RemovedStaysDisconnected'
  BY <1>2, <1>3 DEF MessagingIInv, RemovedStaysDisconnected
<1>7. \A v \in User : user'[v] = IF v = u THEN r ELSE user[v]
  BY <1>2
<1>8. \A v \in User : (Placed(v) /\ HoldsLink(v) /\ HoldsMap(v))'
  BY <1>2, <1>3, <1>7 DEF MessagingIInv, Placed, HoldsLink, HoldsMap, Loops
<1>9. QED
  BY <1>2, <1>4, <1>5, <1>6, <1>8 DEF MessagingIInv, Excluded

\* A call goes from one link of a loop to the next, and the invariant holds
\* of it there.
LEMMA MovesIInv ==
    ASSUME MessagingIInv, NEW u \in User, NEW r \in UserState,
           user' = [user EXCEPT ![u] = r], user[u].at \in {"ready", "enter", "next"},
           r.at \in {"ready", "enter", "next"},
           UNCHANGED <<links, linkGuards, replaced>>,
           channels' \subseteq Link, calls' \in 0..MaxCalls, mapGuards' \in Guards, Excluded',
           \A v \in User \ {u} : HoldsMap(v)',
           Placed(u)', HoldsMap(u)', RemovedStaysDisconnected'
    PROVE  MessagingIInv'
<1>1. /\ user \in [User -> UserState]
      /\ UNCHANGED <<connected, outgoing, sent, taken, linkGuards, replaced>>
  BY DEF MessagingIInv, MessagingTypeOK, UserState, links
<1>2. user' \in [User -> UserState] /\ \A v \in User : user'[v] = IF v = u THEN r ELSE user[v]
  BY <1>1
<1>3. MessagingTypeOK'
  BY <1>1, <1>2 DEF MessagingIInv, MessagingTypeOK, UserState
<1>4. SentAccounted'
  BY <1>1, NotCounting DEF MessagingIInv
<1>5. \A v \in User : (Placed(v) /\ HoldsLink(v) /\ HoldsMap(v))'
  BY <1>1, <1>2 DEF MessagingIInv, Placed, HoldsLink
<1>6. QED
  BY <1>3, <1>4, <1>5 DEF MessagingIInv

LEMMA BeginIInv ==
    ASSUME MessagingIInv, NEW u \in User, NEW op \in Loops, Begin(u, op)
    PROVE  MessagingIInv'
<1> DEFINE r == [at |-> "next", op |-> op, link |-> NoLink, todo |-> channels]
<1>1. /\ UNCHANGED <<channels, links, linkGuards, replaced>> /\ calls' \in 0..MaxCalls
      /\ user' = [user EXCEPT ![u] = r] /\ user[u].at = "ready" /\ user[u].op = "none"
      /\ mapGuards.write = {} /\ mapGuards' = Reading(mapGuards, u)
      /\ user \in [User -> UserState] /\ mapGuards \in Guards /\ channels \subseteq Link
  BY MessagingAssumption
     DEF Begin, Called, CanRead, MessagingIInv, MessagingTypeOK, UserState, Placed
<1>2. r \in UserState /\ r.at = "next" /\ r.op = op /\ r.link = NoLink /\ r.todo = channels
  BY <1>1 DEF UserState, Op, Loops
<1>3. /\ mapGuards' \in Guards /\ mapGuards'.write = {}
      /\ mapGuards'.read = mapGuards.read \cup {u}
  BY <1>1, GuardsType DEF Reading, Guards
<1> HIDE DEF r
<1>4. \A v \in User : user'[v] = IF v = u THEN r ELSE user[v]
  BY <1>1
<1>5. \A v \in User : HoldsMap(v)' /\ Placed(u)'
  BY <1>1, <1>2, <1>3, <1>4 DEF MessagingIInv, HoldsMap, Placed, Loops
<1>6. RemovedStaysDisconnected'
  BY <1>1, <1>4 DEF MessagingIInv, RemovedStaysDisconnected, links
<1>7. Excluded'
  BY <1>3 DEF Excluded
<1>8. QED
  BY <1>1, <1>2, <1>3, <1>5, <1>6, <1>7, MovesIInv

LEMMA RemoveIInv ==
    ASSUME MessagingIInv, NEW u \in User, NEW l \in Link, Remove(u, l)
    PROVE  MessagingIInv'
<1> DEFINE r == [at |-> "next", op |-> "remove", link |-> NoLink, todo |-> {l}]
<1>1. /\ UNCHANGED <<links, linkGuards, replaced>> /\ calls' \in 0..MaxCalls
      /\ channels' = channels \ {l} /\ channels \subseteq Link
      /\ user' = [user EXCEPT ![u] = r] /\ user[u].at = "ready" /\ user[u].op = "none"
      /\ mapGuards.write = {} /\ mapGuards.read = {} /\ mapGuards' = Writing(mapGuards, u)
      /\ user \in [User -> UserState] /\ mapGuards \in Guards
  BY MessagingAssumption
     DEF Remove, Called, CanWrite, MessagingIInv, MessagingTypeOK, UserState, Placed
<1>2. r \in UserState /\ r.at = "next" /\ r.op = "remove" /\ r.link = NoLink /\ r.todo = {l}
  BY DEF UserState, Op
<1>3. mapGuards' \in Guards /\ mapGuards'.write = {u} /\ mapGuards'.read = {}
  BY <1>1, GuardsType DEF Writing, Guards
<1> HIDE DEF r
<1>4. \A v \in User : user'[v] = IF v = u THEN r ELSE user[v]
  BY <1>1
<1>5. \A v \in User : v # u => user[v].op \notin Loops \cup {"remove"}
  BY <1>1 DEF MessagingIInv, HoldsMap
<1>6. \A v \in User : HoldsMap(v)' /\ Placed(u)'
  BY <1>2, <1>3, <1>4, <1>5 DEF HoldsMap, Placed, Loops
<1>7. RemovedStaysDisconnected'
  BY <1>1, <1>2, <1>4 DEF MessagingIInv, RemovedStaysDisconnected, links
<1>8. Excluded'
  BY <1>3 DEF Excluded
<1>9. QED
  BY <1>1, <1>2, <1>3, <1>6, <1>7, <1>8, MovesIInv

LEMMA NextLinkIInv ==
    ASSUME MessagingIInv, NEW u \in User, NextLink(u)
    PROVE  MessagingIInv'
<1>1. PICK l \in user[u].todo :
        user' = [user EXCEPT ![u].at = "enter", ![u].link = l, ![u].todo = @ \ {l}]
  BY DEF NextLink
<1> DEFINE r == [user[u] EXCEPT !.at = "enter", !.link = l, !.todo = @ \ {l}]
<1>2. /\ UNCHANGED <<channels, links, linkGuards, replaced, mapGuards, calls>>
      /\ user' = [user EXCEPT ![u] = r] /\ user[u].at = "next" /\ user[u].link = NoLink
      /\ user \in [User -> UserState] /\ mapGuards \in Guards /\ channels \subseteq Link
      /\ calls \in 0..MaxCalls
  BY <1>1 DEF NextLink, MessagingIInv, MessagingTypeOK, UserState, Placed
<1>3. /\ user[u] \in UserState /\ l \in Link
      /\ r \in UserState /\ r.at = "enter" /\ r.op = user[u].op /\ r.link = l
      /\ r.todo = user[u].todo \ {l}
  BY <1>2 DEF UserState
<1> HIDE DEF r
<1>4. \A v \in User : user'[v] = IF v = u THEN r ELSE user[v]
  BY <1>2
<1>5. \A v \in User : HoldsMap(v)' /\ Placed(u)'
  BY <1>1, <1>2, <1>3, <1>4 DEF MessagingIInv, HoldsMap, Placed, Loops
<1>6. RemovedStaysDisconnected'
  BY <1>1, <1>2, <1>3, <1>4, MessagingAssumption DEF MessagingIInv, RemovedStaysDisconnected, links
<1>7. Excluded'
  BY <1>2 DEF MessagingIInv, Excluded
<1>8. QED
  BY <1>2, <1>3, <1>5, <1>6, <1>7, MovesIInv

LEMMA EndLoopIInv ==
    ASSUME MessagingIInv, NEW u \in User, EndLoop(u)
    PROVE  MessagingIInv'
<1>1. /\ UNCHANGED <<channels, links, linkGuards, replaced, calls>>
      /\ user' = [user EXCEPT ![u] = Resting] /\ user[u].at = "next" /\ user[u].link = NoLink
      /\ user[u].todo = {} /\ mapGuards' = Released(mapGuards, u)
      /\ user \in [User -> UserState] /\ mapGuards \in Guards /\ channels \subseteq Link
      /\ calls \in 0..MaxCalls
  BY DEF EndLoop, MessagingIInv, MessagingTypeOK, UserState, Placed
<1>2. /\ Resting \in UserState /\ Resting.at = "ready" /\ Resting.op = "none"
      /\ Resting.link = NoLink /\ Resting.todo = {}
  BY DEF UserState, Resting, Op
<1>3. /\ mapGuards' \in Guards /\ mapGuards'.write = mapGuards.write \ {u}
      /\ mapGuards'.read = mapGuards.read \ {u}
  BY <1>1, GuardsType DEF Released, Guards
<1>4. \A v \in User : user'[v] = IF v = u THEN Resting ELSE user[v]
  BY <1>1
<1>5. \A v \in User : HoldsMap(v)' /\ Placed(u)'
  BY <1>1, <1>2, <1>3, <1>4 DEF MessagingIInv, HoldsMap, Placed, Loops
<1>6. RemovedStaysDisconnected'
  BY <1>1, <1>4, MessagingAssumption DEF MessagingIInv, RemovedStaysDisconnected, links
<1>7. Excluded'
  BY <1>3 DEF MessagingIInv, Excluded
<1>8. QED
  BY <1>1, <1>2, <1>3, <1>5, <1>6, <1>7, MovesIInv

\* No sender is on the way in a link that is connected or disconnected.
LEMMA SetConnectedIInv ==
    ASSUME MessagingIInv, NEW u \in User, SetConnected(u)
    PROVE  MessagingIInv'
<1> DEFINE l == user[u].link
           r == [user[u] EXCEPT !.at = "next", !.link = NoLink]
<1>1. /\ UNCHANGED <<channels, outgoing, sent, taken, linkGuards, replaced, mapGuards, calls>>
      /\ user' = [user EXCEPT ![u] = r] /\ user[u].at = "enter" /\ l \in Link
      /\ user \in [User -> UserState] /\ connected \in [Link -> BOOLEAN]
      /\ linkGuards[l].read = {}
      /\ connected' = [connected EXCEPT ![l] = user[u].op = "connect"]
      /\ user[u].op \in {"connect", "disconnect", "remove"}
  BY DEF SetConnected, CanWrite, MessagingIInv, MessagingTypeOK, UserState, Placed
<1>2. /\ user[u] \in UserState /\ r \in UserState /\ r.at = "next" /\ r.op = user[u].op
      /\ r.link = NoLink /\ r.todo = user[u].todo
  BY <1>1 DEF UserState
<1>3. \A k \in Link : connected'[k] = IF k = l THEN user[u].op = "connect" ELSE connected[k]
  BY <1>1
<1>4. connected' \in [Link -> BOOLEAN]
  BY <1>1
<1>5. user[u].op = "connect" => l \in channels
  BY <1>1, MessagingAssumption DEF MessagingIInv, HoldsMap
<1> HIDE DEF r, l
<1>6. \A v \in User : user'[v] = IF v = u THEN r ELSE user[v]
  BY <1>1
<1>7. MessagingTypeOK'
  <2>1. user' \in [User -> UserState]
    BY <1>1, <1>2
  <2>2. QED
    BY <1>1, <1>4, <2>1 DEF MessagingIInv, MessagingTypeOK, UserState
<1>8. SentAccounted'
  BY <1>1, <1>2, NotCounting DEF MessagingIInv
<1>9. \A v \in User : HoldsLink(v)'
  BY <1>1, <1>2, <1>3, <1>6 DEF MessagingIInv, HoldsLink, Placed
<1>10. \A v \in User : Placed(v)' /\ HoldsMap(v)'
  BY <1>1, <1>2, <1>6 DEF MessagingIInv, HoldsMap, Placed, Loops
<1>11. RemovedStaysDisconnected'
  <2> SUFFICES ASSUME NEW k \in Link \ (channels \cup replaced), connected'[k]
               PROVE  \E v \in User : user'[v].op = "remove" /\
                          (k \in user'[v].todo \/ user'[v].link = k)
    BY <1>1 DEF RemovedStaysDisconnected
  <2>1. k # l /\ connected[k]
    BY <1>3, <1>5
  <2>2. PICK v \in User : user[v].op = "remove" /\ (k \in user[v].todo \/ user[v].link = k)
    BY <2>1 DEF MessagingIInv, RemovedStaysDisconnected
  <2>3. user'[v].op = "remove" /\ (k \in user'[v].todo \/ user'[v].link = k)
    BY <1>2, <1>6, <2>1, <2>2 DEF l
  <2>4. QED
    BY <2>3
<1>12. QED
  BY <1>1, <1>7, <1>8, <1>9, <1>10, <1>11 DEF MessagingIInv, Excluded

\* Where a send goes on, and that it then holds no link.
LEMMA AfterSendType ==
    ASSUME MessagingIInv, NEW u \in User, user[u].at \in {"enter", "count"},
           user[u].op \in {"send", "broadcast"}
    PROVE  /\ AfterSend(u) \in UserState /\ AfterSend(u).at \in {"ready", "next"}
           /\ AfterSend(u).link = NoLink
           /\ AfterSend(u).at = "ready" => AfterSend(u).op = "none"
           /\ AfterSend(u).op \in {user[u].op, "none"}
           /\ AfterSend(u).op # "connect" /\ AfterSend(u).op # "remove"
<1>1. user[u] \in UserState
  BY DEF MessagingIInv, MessagingTypeOK, UserState
<1>2. CASE user[u].op = "send"
  BY <1>2 DEF AfterSend, Resting, UserState, Op
<1>3. CASE user[u].op = "broadcast"
  BY <1>1, <1>3 DEF AfterSend, UserState, Op
<1>4. QED
  BY <1>2, <1>3

LEMMA EnterIInv ==
    ASSUME MessagingIInv, NEW u \in User, Enter(u)
    PROVE  MessagingIInv'
<1> DEFINE l == user[u].link
           q == [user[u] EXCEPT !.at = "queue"]
<1>1. /\ UNCHANGED <<channels, connected, outgoing, sent, taken, replaced, mapGuards, calls>>
      /\ user[u].at = "enter" /\ l \in Link /\ user[u].op \in {"send", "broadcast"}
      /\ user \in [User -> UserState] /\ linkGuards \in [Link -> Guards]
  BY DEF Enter, MessagingIInv, MessagingTypeOK, UserState, Placed, links
<1>2. /\ user[u] \in UserState /\ q \in UserState /\ q.at = "queue" /\ q.op = user[u].op
      /\ q.link = l /\ q.todo = user[u].todo
  BY <1>1 DEF UserState
<1>3. CASE connected[l]
  <2>1. user' = [user EXCEPT ![u] = q] /\ linkGuards' = [linkGuards EXCEPT ![l] = Reading(@, u)]
    BY <1>3 DEF Enter
  <2>2. /\ linkGuards' \in [Link -> Guards] /\ u \in linkGuards'[l].read
        /\ \A k \in Link : linkGuards[k].read \subseteq linkGuards'[k].read
    <3>1. /\ Reading(linkGuards[l], u) \in Guards
          /\ Reading(linkGuards[l], u).read = linkGuards[l].read \cup {u}
      BY <1>1, GuardsType DEF Reading, Guards
    <3>2. QED
      BY <1>1, <2>1, <3>1
  <2> HIDE DEF q, l
  <2>3. \A v \in User : user'[v] = IF v = u THEN q ELSE user[v]
    BY <1>1, <2>1
  <2>4. MessagingTypeOK'
    <3>1. user' \in [User -> UserState]
      BY <1>1, <1>2, <2>1
    <3>2. QED
      BY <1>1, <2>2, <3>1 DEF MessagingIInv, MessagingTypeOK, UserState
  <2>5. SentAccounted'
    BY <1>1, <1>2, <2>1, NotCounting DEF MessagingIInv
  <2>6. \A v \in User : HoldsLink(v)'
    BY <1>1, <1>2, <1>3, <2>2, <2>3 DEF MessagingIInv, HoldsLink, Placed, l
  <2>7. \A v \in User : Placed(v)' /\ HoldsMap(v)'
    BY <1>1, <1>2, <2>3 DEF MessagingIInv, HoldsMap, Placed, Loops
  <2>8. RemovedStaysDisconnected'
    BY <1>1, <1>2, <2>3 DEF MessagingIInv, RemovedStaysDisconnected
  <2>9. QED
    BY <1>1, <2>4, <2>5, <2>6, <2>7, <2>8 DEF MessagingIInv, Excluded
<1>4. CASE ~connected[l]
  <2>1. user' = [user EXCEPT ![u] = AfterSend(u)] /\ linkGuards' = linkGuards
    BY <1>4 DEF Enter
  <2>2. PICK r : r = AfterSend(u)
    OBVIOUS
  <2>3. /\ r \in UserState /\ r.at \in {"ready", "next"} /\ r.link = NoLink
        /\ (r.at = "ready" => r.op = "none") /\ r.op \in {user[u].op, "none"}
        /\ r.op # "connect" /\ r.op # "remove"
    BY <1>1, <2>2, AfterSendType
  <2>4. \A v \in User : user'[v] = IF v = u THEN r ELSE user[v]
    BY <1>1, <2>1, <2>2
  <2>5. \A v \in User : HoldsMap(v)' /\ Placed(u)'
    BY <1>1, <2>3, <2>4 DEF MessagingIInv, HoldsMap, Placed, Loops
  <2>6. RemovedStaysDisconnected'
    BY <1>1, <2>3, <2>4 DEF MessagingIInv, RemovedStaysDisconnected
  <2>7. channels' \subseteq Link /\ calls' \in 0..MaxCalls /\ mapGuards' \in Guards /\ Excluded'
    BY <1>1 DEF MessagingIInv, MessagingTypeOK, Excluded
  <2>8. UNCHANGED <<links, linkGuards, replaced>> /\ user' = [user EXCEPT ![u] = r]
    BY <1>1, <2>1, <2>2 DEF links
  <2> HIDE DEF l, q
  <2>9. QED
    BY <1>1, <2>3, <2>5, <2>6, <2>7, <2>8, MovesIInv
<1>5. QED
  BY <1>3, <1>4

LEMMA QueueIInv ==
    ASSUME MessagingIInv, NEW u \in User, Queue(u)
    PROVE  MessagingIInv'
<1>0. PICK l : l = user[u].link
  OBVIOUS
<1> DEFINE c == [user[u] EXCEPT !.at = "count"]
<1>1. /\ UNCHANGED <<channels, connected, sent, taken, replaced, mapGuards, linkGuards, calls>>
      /\ user' = [user EXCEPT ![u] = c] /\ user[u].at = "queue" /\ l \in Link
      /\ user \in [User -> UserState] /\ outgoing \in [Link -> Seq(User)]
      /\ Len(outgoing[l]) < max_pending
      /\ outgoing' = [outgoing EXCEPT ![l] = Append(@, u)]
      /\ sent \in [Link -> Nat] /\ taken \in [Link -> Nat]
  BY <1>0 DEF Queue, MessagingIInv, MessagingTypeOK, UserState, Placed
<1>2. /\ user[u] \in UserState /\ c \in UserState /\ c.at = "count" /\ c.op = user[u].op
      /\ c.link = l /\ c.todo = user[u].todo
  BY <1>0, <1>1 DEF UserState
<1> HIDE DEF c
<1>3. \A v \in User : user'[v] = IF v = u THEN c ELSE user[v]
  BY <1>1
<1>4. /\ outgoing' \in [Link -> Seq(User)] /\ Len(outgoing'[l]) = Len(outgoing[l]) + 1
      /\ \A k \in Link : k # l => outgoing'[k] = outgoing[k]
  <2>1. outgoing[l] \in Seq(User)
    BY <1>1
  <2>2. Append(outgoing[l], u) \in Seq(User) /\ Len(Append(outgoing[l], u)) = Len(outgoing[l]) + 1
    BY <2>1, AppendProperties
  <2>3. QED
    BY <1>1, <2>2
<1>5. MessagingTypeOK'
  <2>1. user' \in [User -> UserState]
    BY <1>1, <1>2
  <2>2. Len(outgoing[l]) \in Nat
    BY <1>1, LenProperties
  <2>3. \A k \in Link : Len(outgoing'[k]) <= max_pending
    BY <1>1, <1>4, <2>2, MessagingAssumption DEF MessagingIInv, MessagingTypeOK
  <2>4. QED
    BY <1>1, <1>4, <2>1, <2>3 DEF MessagingIInv, MessagingTypeOK, UserState
<1>6. SentAccounted'
  <2>1. Uncounted(l)' = Uncounted(l) \cup {u} /\ u \notin Uncounted(l)
        /\ \A k \in Link : k # l => Uncounted(k)' = Uncounted(k)
    BY <1>1, <1>2, <1>3, <1>0 DEF Uncounted
  <2>2. Cardinality(Uncounted(l)') = Cardinality(Uncounted(l)) + 1
    BY <2>1, UncountedFinite, FS_AddElement
  <2>3. sent[l] + Cardinality(Uncounted(l)') = taken[l] + Len(outgoing'[l])
    <3>1. sent[l] + Cardinality(Uncounted(l)) = taken[l] + Len(outgoing[l])
      BY <1>1 DEF MessagingIInv, SentAccounted
    <3>2. /\ sent[l] \in Nat /\ taken[l] \in Nat /\ Cardinality(Uncounted(l)) \in Nat
          /\ Len(outgoing[l]) \in Nat
      BY <1>1, UncountedFinite, LenProperties
    <3>3. PICK n \in Nat, x \in Nat, y \in Nat, m \in Nat :
            n = Len(outgoing[l]) /\ x = sent[l] /\ y = taken[l] /\ m = Cardinality(Uncounted(l))
      BY <3>2
    <3>4. Len(outgoing'[l]) = Len(outgoing[l]) + 1
      BY <1>4
    <3>5. x + m = y + n
      BY <3>1, <3>3
    <3>6. x + (m + 1) = y + (n + 1)
      BY <3>5
    <3>7. Cardinality(Uncounted(l)') = m + 1 /\ Len(outgoing'[l]) = n + 1
      BY <2>2, <3>3, <3>4
    <3>8. QED
      BY <3>3, <3>6, <3>7
  <2>4. QED
    BY <1>1, <1>4, <2>1, <2>3 DEF MessagingIInv, SentAccounted
<1>7. \A v \in User : (Placed(v) /\ HoldsLink(v) /\ HoldsMap(v))'
  BY <1>1, <1>2, <1>3, <1>0 DEF MessagingIInv, HoldsLink, Placed, HoldsMap, Loops
<1>8. RemovedStaysDisconnected'
  <2>1. UNCHANGED <<connected, channels, replaced>> /\ c.op = user[u].op /\ c.link = user[u].link
        /\ c.todo = user[u].todo
    BY <1>0, <1>1, <1>2
  <2>2. QED
    BY <1>3, <2>1 DEF MessagingIInv, RemovedStaysDisconnected
<1>9. QED
  BY <1>1, <1>5, <1>6, <1>7, <1>8 DEF MessagingIInv, Excluded

LEMMA CountIInv ==
    ASSUME MessagingIInv, NEW u \in User, Count(u)
    PROVE  MessagingIInv'
<1>0. PICK l : l = user[u].link
  OBVIOUS
<1>1. /\ UNCHANGED <<channels, connected, outgoing, taken, replaced, mapGuards, calls>>
      /\ user[u].at = "count" /\ l \in Link /\ user[u].op \in {"send", "broadcast"}
      /\ user \in [User -> UserState] /\ linkGuards \in [Link -> Guards]
      /\ outgoing \in [Link -> Seq(User)]
      /\ sent' = [sent EXCEPT ![l] = @ + 1] /\ sent \in [Link -> Nat] /\ taken \in [Link -> Nat]
      /\ linkGuards' = [linkGuards EXCEPT ![l] = Released(@, u)]
  BY <1>0 DEF Count, MessagingIInv, MessagingTypeOK, UserState, Placed
<1>2. PICK r : r = AfterSend(u) /\ user' = [user EXCEPT ![u] = r]
  BY DEF Count
<1>3. /\ r \in UserState /\ r.at \in {"ready", "next"} /\ r.link = NoLink
      /\ (r.at = "ready" => r.op = "none") /\ r.op \in {user[u].op, "none"}
      /\ r.op # "connect" /\ r.op # "remove"
  BY <1>1, <1>2, AfterSendType
<1>4. /\ linkGuards' \in [Link -> Guards]
      /\ \A k \in Link : linkGuards[k].read \ {u} \subseteq linkGuards'[k].read
  <2>1. /\ Released(linkGuards[l], u) \in Guards
        /\ Released(linkGuards[l], u).read = linkGuards[l].read \ {u}
    BY <1>1, GuardsType DEF Released, Guards
  <2>2. QED
    BY <1>1, <2>1
<1>5. \A v \in User : user'[v] = IF v = u THEN r ELSE user[v]
  BY <1>1, <1>2
<1>6. /\ sent' \in [Link -> Nat] /\ sent'[l] = sent[l] + 1
      /\ \A k \in Link : k # l => sent'[k] = sent[k]
  BY <1>1
<1>7. MessagingTypeOK'
  <2>1. user' \in [User -> UserState]
    BY <1>1, <1>2, <1>3
  <2>2. QED
    BY <1>1, <1>4, <1>6, <2>1 DEF MessagingIInv, MessagingTypeOK, UserState
<1>8. SentAccounted'
  <2>1. Uncounted(l)' = Uncounted(l) \ {u} /\ u \in Uncounted(l)
        /\ \A k \in Link : k # l => Uncounted(k)' = Uncounted(k)
    BY <1>1, <1>3, <1>5, <1>0 DEF Uncounted
  <2>2. Cardinality(Uncounted(l)') = Cardinality(Uncounted(l)) - 1
    BY <2>1, UncountedFinite, FS_RemoveElement
  <2>3. sent'[l] + Cardinality(Uncounted(l)') = taken[l] + Len(outgoing[l])
    <3>1. sent[l] + Cardinality(Uncounted(l)) = taken[l] + Len(outgoing[l])
      BY <1>1 DEF MessagingIInv, SentAccounted
    <3>2. /\ sent[l] \in Nat /\ taken[l] \in Nat /\ Cardinality(Uncounted(l)) \in Nat
          /\ Len(outgoing[l]) \in Nat
      BY <1>1, UncountedFinite, LenProperties
    <3>3. PICK n \in Nat, x \in Nat, y \in Nat, m \in Nat :
            n = Len(outgoing[l]) /\ x = sent[l] /\ y = taken[l] /\ m = Cardinality(Uncounted(l))
      BY <3>2
    <3>4. (x + 1) + (m - 1) = y + n
      BY <3>1, <3>3
    <3>5. QED
      BY <1>6, <2>2, <3>3, <3>4
  <2>4. QED
    BY <1>1, <1>6, <2>1, <2>3 DEF MessagingIInv, SentAccounted
<1>9. \A v \in User : (Placed(v) /\ HoldsLink(v) /\ HoldsMap(v))'
  <2>1. \A v \in User : Placed(v) /\ HoldsLink(v) /\ HoldsMap(v)
    BY DEF MessagingIInv
  <2>2. UNCHANGED <<connected, channels, mapGuards>> /\ user[u].at = "count"
    BY <1>1
  <2>3. \A v \in User : v # u =>
          user'[v] = user[v] /\ (user[v].link \in Link =>
            (v \in linkGuards[user[v].link].read => v \in linkGuards'[user[v].link].read))
    BY <1>4, <1>5
  <2>4. \A v \in User : v # u => (Placed(v) /\ HoldsLink(v) /\ HoldsMap(v))'
    BY <2>1, <2>2, <2>3 DEF HoldsLink, Placed, HoldsMap
  <2>5. (Placed(u) /\ HoldsLink(u) /\ HoldsMap(u))'
    BY <1>3, <1>5, <2>1, <2>2 DEF HoldsLink, Placed, HoldsMap, Loops
  <2>6. QED
    BY <2>4, <2>5
<1>10. RemovedStaysDisconnected'
  <2>1. UNCHANGED <<connected, channels, replaced>> /\ user[u].op # "remove"
    BY <1>1
  <2>2. QED
    BY <1>5, <2>1 DEF MessagingIInv, RemovedStaysDisconnected
<1>11. QED
  BY <1>1, <1>7, <1>8, <1>9, <1>10 DEF MessagingIInv, Excluded

LEMMA DrainLinkIInv ==
    ASSUME MessagingIInv, NEW l \in Link, Drain(l)
    PROVE  MessagingIInv'
<1>1. /\ UNCHANGED <<channels, connected, sent, user, replaced, mapGuards, linkGuards, calls>>
      /\ outgoing \in [Link -> Seq(User)] /\ outgoing[l] # <<>>
      /\ outgoing' = [outgoing EXCEPT ![l] = Tail(@)]
      /\ sent \in [Link -> Nat] /\ taken \in [Link -> Nat]
      /\ taken' = [taken EXCEPT ![l] = @ + 1]
  BY DEF Drain, MessagingIInv, MessagingTypeOK
<1>2. /\ outgoing' \in [Link -> Seq(User)] /\ Len(outgoing'[l]) = Len(outgoing[l]) - 1
      /\ Len(outgoing[l]) \in Nat
      /\ \A k \in Link : k # l => outgoing'[k] = outgoing[k]
  <2>1. outgoing[l] \in Seq(User)
    BY <1>1
  <2>2. /\ Tail(outgoing[l]) \in Seq(User) /\ Len(Tail(outgoing[l])) = Len(outgoing[l]) - 1
        /\ Len(outgoing[l]) \in Nat
    BY <1>1, <2>1, HeadTailProperties, LenProperties
  <2>3. QED
    BY <1>1, <2>2
<1>3. /\ taken' \in [Link -> Nat] /\ taken'[l] = taken[l] + 1
      /\ \A k \in Link : k # l => taken'[k] = taken[k]
  BY <1>1
<1>4. MessagingTypeOK'
  <2>1. \A k \in Link : Len(outgoing'[k]) <= max_pending
    BY <1>1, <1>2, MessagingAssumption DEF MessagingIInv, MessagingTypeOK
  <2>2. QED
    BY <1>1, <1>2, <1>3, <2>1 DEF MessagingIInv, MessagingTypeOK
<1>5. SentAccounted'
  <2>1. \A k \in Link : Uncounted(k)' = Uncounted(k)
    BY <1>1 DEF Uncounted
  <2>2. sent[l] + Cardinality(Uncounted(l)) = taken'[l] + Len(outgoing'[l])
    <3>1. sent[l] + Cardinality(Uncounted(l)) = taken[l] + Len(outgoing[l])
      BY DEF MessagingIInv, SentAccounted
    <3>2. sent[l] \in Nat /\ taken[l] \in Nat /\ Cardinality(Uncounted(l)) \in Nat
      BY <1>1, UncountedFinite
    <3>3. Len(outgoing[l]) \in Nat /\ Len(outgoing'[l]) = Len(outgoing[l]) - 1
          /\ taken'[l] = taken[l] + 1
      BY <1>2, <1>3
    <3>4. PICK n \in Nat : n = Len(outgoing[l])
      BY <3>3
    <3>5. sent[l] + Cardinality(Uncounted(l)) = (taken[l] + 1) + (n - 1)
      BY <3>1, <3>2, <3>4
    <3>6. QED
      BY <3>3, <3>4, <3>5
  <2>3. QED
    BY <1>1, <1>2, <1>3, <2>1, <2>2 DEF MessagingIInv, SentAccounted
<1>6. QED
  BY <1>1, <1>4, <1>5 DEF MessagingIInv, HoldsLink, Placed, HoldsMap, Excluded, RemovedStaysDisconnected

LEMMA MessagingNextIInv == MessagingIInv /\ [MessagingNext]_messagingVars => MessagingIInv'
<1> SUFFICES ASSUME MessagingIInv, [MessagingNext]_messagingVars PROVE MessagingIInv'
  OBVIOUS
<1>1. ASSUME NEW u \in User, NEW l \in Link,
             RegisterLink(u, l) \/ Send(u, l) \/ Remove(u, l)
      PROVE  MessagingIInv'
  BY <1>1, RegisterLinkIInv, SendIInv, RemoveIInv
<1>2. ASSUME NEW u \in User, NEW op \in {"broadcast", "connect", "disconnect"}, Begin(u, op)
      PROVE  MessagingIInv'
  BY <1>2, BeginIInv DEF Loops
<1>3. ASSUME NEW u \in User, Step(u)
      PROVE  MessagingIInv'
  BY <1>3, NextLinkIInv, EndLoopIInv, SetConnectedIInv, EnterIInv, QueueIInv, CountIInv DEF Step
<1>4. ASSUME NEW l \in Link, Drain(l)
      PROVE  MessagingIInv'
  BY <1>4, DrainLinkIInv
<1>5. CASE UNCHANGED messagingVars
  <2>1. UNCHANGED <<channels, connected, outgoing, sent, taken, user, mapGuards, linkGuards,
                    calls, replaced>>
    BY <1>5 DEF messagingVars
  <2>2. MessagingTypeOK'
    BY <2>1 DEF MessagingIInv, MessagingTypeOK
  <2>3. SentAccounted' /\ RemovedStaysDisconnected'
    BY <2>1 DEF MessagingIInv, SentAccounted, Uncounted, RemovedStaysDisconnected
  <2>4. QED
    BY <2>1, <2>2, <2>3 DEF MessagingIInv, HoldsLink, Placed, HoldsMap, Excluded
<1>6. QED
  BY <1>1, <1>2, <1>3, <1>4, <1>5 DEF MessagingNext

\* What is queued is queued by a sender that holds the link's guard.
LEMMA QueuedByHolder ==
    ASSUME MessagingIInv, [MessagingNext]_messagingVars, NEW l \in Link,
           Len(outgoing'[l]) > Len(outgoing[l])
    PROVE  connected[l]
<1>1. /\ outgoing \in [Link -> Seq(User)] /\ Len(outgoing[l]) \in Nat
      /\ outgoing'[l] # outgoing[l]
  <2>1. outgoing \in [Link -> Seq(User)]
    BY DEF MessagingIInv, MessagingTypeOK
  <2>2. Len(outgoing[l]) \in Nat
    BY <2>1, LenProperties
  <2>3. QED
    BY <2>1, <2>2
<1>2. ASSUME NEW u \in User, Queue(u)
      PROVE  connected[l]
  <2>1. user[u].at = "queue" /\ outgoing' = [outgoing EXCEPT ![user[u].link] = Append(@, u)]
    BY <1>2 DEF Queue
  <2>2. user[u].link = l
    BY <1>1, <2>1
  <2>3. QED
    BY <2>1, <2>2 DEF MessagingIInv, HoldsLink
<1>3. ASSUME NEW k \in Link, Drain(k)
      PROVE  FALSE
  <2>1. outgoing[k] # <<>> /\ outgoing' = [outgoing EXCEPT ![k] = Tail(@)]
    BY <1>3 DEF Drain
  <2>2. k = l
    BY <1>1, <2>1
  <2>3. Len(outgoing'[l]) = Len(outgoing[l]) - 1
    BY <1>1, <2>1, <2>2, HeadTailProperties
  <2>4. QED
    BY <1>1, <2>3
<1>4. ASSUME NEW u \in User,
             \/ \E k \in Link : RegisterLink(u, k) \/ Send(u, k) \/ Remove(u, k)
             \/ \E op \in {"broadcast", "connect", "disconnect"} : Begin(u, op)
             \/ NextLink(u) \/ EndLoop(u) \/ SetConnected(u) \/ Enter(u) \/ Count(u)
      PROVE  FALSE
  BY <1>1, <1>4 DEF RegisterLink, Send, Remove, Begin, NextLink, EndLoop, SetConnected, Enter,
                    Count, links
<1>5. CASE UNCHANGED messagingVars
  BY <1>1, <1>5 DEF messagingVars
<1>6. QED
  BY <1>2, <1>3, <1>4, <1>5 DEF MessagingNext, Step

-----------------------------------------------------------------------------
\* Every variable stays in its type, and no queue of a link passes its
\* capacity (messaging/platforms/p2p.rs, mpsc::channel of outgoing messages).
THEOREM MessagingTypeCorrect == MessagingSpec => []MessagingTypeOK
<1>1. MessagingIInv => MessagingTypeOK
  BY DEF MessagingIInv
<1>2. QED
  BY <1>1, MessagingInitIInv, MessagingNextIInv, PTL DEF MessagingSpec

\* Nothing is queued on a link that is not connected, however a send, a
\* broadcast, connect_all, disconnect_all and remove meet; the count of
\* messages sent is what was queued but for the sends under way; and a channel
\* that was removed stays disconnected while connect_all runs
\* (messaging/registry.rs, messaging/platforms/p2p.rs).
THEOREM MessagingLinksSound == MessagingSpec => LinksSound
<1>1. MessagingIInv => SentAccounted /\ RemovedStaysDisconnected
  BY DEF MessagingIInv
<1>2. MessagingIInv /\ [MessagingNext]_messagingVars =>
        [\A l \in Link : Len(outgoing'[l]) > Len(outgoing[l]) => connected[l]]_messagingVars
  BY QueuedByHolder
<1>3. QED
  BY <1>1, <1>2, MessagingInitIInv, MessagingNextIInv, PTL
     DEF MessagingSpec, LinksSound, QueuedWhileConnected

-------------------------------------------------------------------------------
(* The batch aggregator. *)

\* What is in flight was sent, and has no answer yet.
FlightUnanswered ==
    \A r \in InFlight :
        batchCall[r] \in {"sent", "waiting", "uncounted", "dropped"} /\ reply[r] = "none"

NewUnanswered == \A r \in Inference : batchCall[r] \in {"new", "checked"} => reply[r] = "none"

BatchInHand == batch # {} => processor \in {"filling", "inferring"}

\* A request is counted once, at most.
ToBeCounted == {r \in Inference : batchCall[r] \in {"new", "checked", "sent"}}
DepthBounded == depth + Cardinality(ToBeCounted) <= Cardinality(Inference)

\* Until the batch is closed, its requests are counted in depth, too.
Collected == IF processor = "filling" THEN Cardinality(batch) ELSE 0
DepthCoversBatch == depth + Cardinality(NotCounted) >= Len(batchQueue) + Collected

BatchIInv ==
    /\ BatchTypeOK /\ RequestInOnePlace /\ FlightUnanswered /\ NewUnanswered /\ BatchInHand
    /\ DepthBounded /\ DepthCoversBatch

-----------------------------------------------------------------------------
LEMMA SetsFinite ==
    ASSUME BatchTypeOK
    PROVE  /\ IsFiniteSet(batch) /\ Cardinality(batch) \in Nat
           /\ IsFiniteSet(ToBeCounted) /\ Cardinality(ToBeCounted) \in Nat
           /\ IsFiniteSet(NotCounted) /\ Cardinality(NotCounted) \in Nat
           /\ Cardinality(Inference) \in Nat /\ depth \in Nat /\ Len(batchQueue) \in Nat
<1>1. batch \subseteq Inference /\ ToBeCounted \subseteq Inference /\ NotCounted \subseteq Inference
  BY DEF BatchTypeOK, ToBeCounted, NotCounted
<1>2. Cardinality(Inference) \in Nat
  BY BatchAssumption, FS_CardinalityType
<1>3. depth \in Nat /\ Len(batchQueue) \in Nat
  BY <1>2, LenProperties DEF BatchTypeOK
<1>4. QED
  BY <1>1, <1>2, <1>3, BatchAssumption, FS_Subset, FS_CardinalityType

LEMMA QueueRange ==
    ASSUME NEW q \in Seq(Inference)
    PROVE  Range(q) \subseteq Inference /\ Range(<<>>) = {} /\ IsInjective(<<>>)
<1>1. q \in [1..Len(q) -> Inference]
  BY LenProperties
<1>2. QED
  BY <1>1 DEF Range, IsInjective

LEMMA QueueAppend ==
    ASSUME NEW q \in Seq(Inference), NEW r \in Inference, r \notin Range(q), IsInjective(q)
    PROVE  /\ Append(q, r) \in Seq(Inference) /\ Len(Append(q, r)) = Len(q) + 1
           /\ Range(Append(q, r)) = Range(q) \cup {r} /\ IsInjective(Append(q, r))
<1> DEFINE a == Append(q, r)
<1>1. /\ a \in Seq(Inference) /\ Len(a) = Len(q) + 1 /\ Len(q) \in Nat
      /\ \A i \in 1..Len(q) : a[i] = q[i]
      /\ a[Len(q) + 1] = r
  BY AppendProperties, LenProperties
<1>2. DOMAIN a = 1..(Len(q) + 1) /\ DOMAIN q = 1..Len(q)
  BY <1>1, LenProperties
<1> HIDE DEF a
<1>3. Range(a) = Range(q) \cup {r}
  BY <1>1, <1>2 DEF Range
<1>4. IsInjective(a)
  BY <1>1, <1>2 DEF Range, IsInjective
<1>5. QED
  BY <1>1, <1>3, <1>4 DEF a

LEMMA QueueTail ==
    ASSUME NEW q \in Seq(Inference), q # <<>>, IsInjective(q)
    PROVE  /\ Head(q) \in Inference /\ Tail(q) \in Seq(Inference) /\ Len(Tail(q)) = Len(q) - 1
           /\ Range(q) = Range(Tail(q)) \cup {Head(q)} /\ Head(q) \notin Range(Tail(q))
           /\ IsInjective(Tail(q))
<1> DEFINE t == Tail(q)
<1>1. /\ Head(q) \in Inference /\ t \in Seq(Inference) /\ Len(t) = Len(q) - 1
      /\ Len(q) \in Nat \ {0}
      /\ \A i \in 1..Len(t) : t[i] = q[i + 1]
      /\ Head(q) = q[1]
  BY HeadTailProperties, EmptySeq
<1>2. DOMAIN t = 1..(Len(q) - 1) /\ DOMAIN q = 1..Len(q)
  BY <1>1, LenProperties
<1> HIDE DEF t
<1>3. \A i \in 1..Len(q) : i = 1 \/ (i - 1 \in 1..(Len(q) - 1) /\ t[i - 1] = q[i])
  BY <1>1
<1>4. \A i \in 1..(Len(q) - 1) : i + 1 \in 1..Len(q) /\ t[i] = q[i + 1] /\ i + 1 # 1
  BY <1>1
<1>5. 1 \in 1..Len(q)
  BY <1>1
<1>6. Range(t) \subseteq Range(q) /\ Head(q) \in Range(q)
  BY <1>1, <1>2, <1>4, <1>5 DEF Range
<1>7. \A c \in Range(q) : c = Head(q) \/ c \in Range(t)
  <2> SUFFICES ASSUME NEW i \in 1..Len(q) PROVE q[i] = Head(q) \/ q[i] \in Range(t)
    BY <1>2 DEF Range
  <2>1. CASE i = 1
    BY <1>1, <2>1
  <2>2. CASE i - 1 \in 1..(Len(q) - 1) /\ t[i - 1] = q[i]
    BY <1>2, <2>2 DEF Range
  <2>3. QED
    BY <1>3, <2>1, <2>2
<1>8. Head(q) \notin Range(t)
  <2>1. \A i \in 1..(Len(q) - 1) : t[i] # q[1]
    BY <1>2, <1>4, <1>5 DEF IsInjective
  <2>2. QED
    BY <1>1, <1>2, <2>1 DEF Range
<1>9. IsInjective(t)
  <2> SUFFICES ASSUME NEW i \in 1..(Len(q) - 1), NEW j \in 1..(Len(q) - 1), t[i] = t[j]
               PROVE  i = j
    BY <1>2 DEF IsInjective
  <2>1. q[i + 1] = q[j + 1] /\ i + 1 \in 1..Len(q) /\ j + 1 \in 1..Len(q)
    BY <1>4
  <2>2. i + 1 = j + 1
    BY <1>2, <2>1 DEF IsInjective
  <2>3. QED
    BY <2>2
<1>10. QED
  BY <1>1, <1>6, <1>7, <1>8, <1>9 DEF t

LEMMA BatchInitIInv == BatchInit => BatchIInv
<1> SUFFICES ASSUME BatchInit PROVE BatchIInv
  OBVIOUS
<1>1. Cardinality({}) = 0 /\ Cardinality(Inference) \in Nat /\ Len(<<>>) = 0 /\ Range(<<>>) = {}
  BY BatchAssumption, FS_EmptySet, FS_CardinalityType DEF Range
<1>2. BatchTypeOK
  <2>1. batchCall \in [Inference -> CallStage] /\ reply \in [Inference -> Reply]
    BY DEF BatchInit, CallStage, Reply
  <2>2. Len(batchQueue) <= max_queue_depth /\ Cardinality(batch) <= max_batch_size
        /\ depth \in 0..Cardinality(Inference)
    BY <1>1, BatchAssumption DEF BatchInit
  <2>3. QED
    <3>1. /\ batchQueue \in Seq(Inference) /\ batch \subseteq Inference
          /\ processor \in ProcessorStage /\ shutdown \in BOOLEAN
      BY EmptySeq DEF BatchInit, ProcessorStage
    <3>2. QED
      BY <2>1, <2>2, <3>1 DEF BatchTypeOK
<1>3. ToBeCounted = Inference /\ NotCounted = {}
  BY DEF BatchInit, ToBeCounted, NotCounted
<1>4. RequestInOnePlace /\ FlightUnanswered /\ NewUnanswered /\ BatchInHand
  BY <1>1, QueueRange DEF BatchInit, RequestInOnePlace, FlightUnanswered, NewUnanswered, BatchInHand,
                          InFlight, IsInjective
<1>5. DepthBounded /\ DepthCoversBatch
  BY <1>1, <1>3 DEF BatchInit, DepthBounded, DepthCoversBatch, Collected
<1>6. QED
  BY <1>2, <1>4, <1>5 DEF BatchIInv

-----------------------------------------------------------------------------
(* submit *)

\* What a step of one call leaves of the sets that are counted.
LEMMA CallMoves ==
    ASSUME BatchTypeOK, NEW r \in Inference, NEW to \in CallStage,
           batchCall' = [batchCall EXCEPT ![r] = to]
    PROVE  /\ batchCall' \in [Inference -> CallStage]
           /\ ToBeCounted' = IF to \in {"new", "checked", "sent"} THEN ToBeCounted \cup {r}
                           ELSE ToBeCounted \ {r}
           /\ NotCounted' = IF to \in {"sent", "uncounted"} THEN NotCounted \cup {r}
                            ELSE NotCounted \ {r}
           /\ \A p \in Inference : batchCall'[p] = IF p = r THEN to ELSE batchCall[p]
<1>1. /\ batchCall' \in [Inference -> CallStage]
      /\ \A p \in Inference : batchCall'[p] = IF p = r THEN to ELSE batchCall[p]
  BY DEF BatchTypeOK
<1>2. QED
  BY <1>1 DEF ToBeCounted, NotCounted

\* A call that neither queues nor counts; what it does to the counted sets is
\* nothing, or takes the request out of the uncounted.
LEMMA CallOnlyIInv ==
    ASSUME BatchIInv, NEW r \in Inference, NEW to \in CallStage, NEW answer \in Reply,
           batchCall' = [batchCall EXCEPT ![r] = to], reply' = [reply EXCEPT ![r] = answer],
           UNCHANGED <<batchQueue, batch, processor, shutdown, depth>>,
           to \in {"new", "checked", "sent"} => r \in ToBeCounted,
           to \in {"sent", "uncounted"} <=> r \in NotCounted,
           r \in InFlight => to \in {"sent", "waiting", "uncounted", "dropped"} /\ answer = "none",
           to \in {"new", "checked"} => answer = "none",
           to \in {"sent", "waiting", "uncounted"} => (r \in InFlight) # (answer # "none")
    PROVE  BatchIInv'
<1>1. /\ batchCall' \in [Inference -> CallStage]
      /\ \A p \in Inference : batchCall'[p] = IF p = r THEN to ELSE batchCall[p]
      /\ ToBeCounted' \subseteq ToBeCounted /\ NotCounted' = NotCounted
  <2>1. BatchTypeOK
    BY DEF BatchIInv
  <2>2. QED
    <3>1. /\ batchCall' \in [Inference -> CallStage]
          /\ \A p \in Inference : batchCall'[p] = IF p = r THEN to ELSE batchCall[p]
      BY <2>1, CallMoves
    <3>2. ToBeCounted' \subseteq ToBeCounted
      BY <3>1 DEF ToBeCounted
    <3>3. NotCounted' = NotCounted
      BY <3>1 DEF NotCounted
    <3>4. QED
      BY <3>1, <3>2, <3>3
<1>2. /\ reply' \in [Inference -> Reply]
      /\ \A p \in Inference : reply'[p] = IF p = r THEN answer ELSE reply[p]
  BY DEF BatchIInv, BatchTypeOK
<1>3. InFlight' = InFlight /\ InFlight \subseteq Inference
  BY QueueRange DEF InFlight, BatchIInv, BatchTypeOK
<1>4. BatchTypeOK'
  BY <1>1, <1>2 DEF BatchIInv, BatchTypeOK
<1>5. RequestInOnePlace'
  BY <1>1, <1>2, <1>3 DEF BatchIInv, RequestInOnePlace
<1>6. FlightUnanswered' /\ NewUnanswered' /\ BatchInHand'
  BY <1>1, <1>2, <1>3 DEF BatchIInv, FlightUnanswered, NewUnanswered, BatchInHand
<1>7. DepthBounded'
  <2>1. /\ IsFiniteSet(ToBeCounted) /\ Cardinality(ToBeCounted) \in Nat /\ depth \in Nat
        /\ Cardinality(Inference) \in Nat
    BY SetsFinite DEF BatchIInv
  <2>2. Cardinality(ToBeCounted') <= Cardinality(ToBeCounted) /\ Cardinality(ToBeCounted') \in Nat
    BY <1>1, <2>1, FS_Subset, FS_CardinalityType
  <2>3. QED
    BY <2>1, <2>2 DEF BatchIInv, DepthBounded
<1>8. DepthCoversBatch'
  BY <1>1 DEF BatchIInv, DepthCoversBatch, Collected
<1>9. QED
  BY <1>4, <1>5, <1>6, <1>7, <1>8 DEF BatchIInv

LEMMA CheckShutdownIInv ==
    ASSUME BatchIInv, NEW r \in Inference, CheckShutdown(r)
    PROVE  BatchIInv'
<1>1. /\ batchCall[r] = "new" /\ reply \in [Inference -> Reply] /\ reply[r] = "none"
      /\ r \notin InFlight /\ r \in ToBeCounted /\ r \notin NotCounted
      /\ UNCHANGED <<batchQueue, batch, processor, shutdown, depth>>
  BY DEF CheckShutdown, Moves, processorVars, BatchIInv, BatchTypeOK, FlightUnanswered, NewUnanswered,
         ToBeCounted, NotCounted
<1>2. CASE shutdown
  <2>1. /\ batchCall' = [batchCall EXCEPT ![r] = "returned"]
        /\ reply' = [reply EXCEPT ![r] = "Shutdown"]
    BY <1>2 DEF CheckShutdown, Moves
  <2>2. "returned" \in CallStage /\ "Shutdown" \in Reply
    BY DEF CallStage, Reply
  <2>3. QED
    BY <1>1, <2>1, <2>2, CallOnlyIInv
<1>3. CASE ~shutdown
  <2>1. batchCall' = [batchCall EXCEPT ![r] = "checked"] /\ reply' = [reply EXCEPT ![r] = "none"]
    BY <1>1, <1>3 DEF CheckShutdown, Moves
  <2>2. "checked" \in CallStage /\ "none" \in Reply
    BY DEF CallStage, Reply
  <2>3. QED
    BY <1>1, <2>1, <2>2, CallOnlyIInv
<1>4. QED
  BY <1>2, <1>3

LEMMA ReceiveReplyIInv ==
    ASSUME BatchIInv, NEW r \in Inference, ReceiveReply(r)
    PROVE  BatchIInv'
<1>1. /\ batchCall[r] = "waiting" /\ reply \in [Inference -> Reply] /\ reply[r] # "none"
      /\ r \notin InFlight /\ r \notin NotCounted
      /\ UNCHANGED <<reply, batchQueue, batch, processor, shutdown, depth>>
      /\ batchCall' = [batchCall EXCEPT ![r] = "returned"]
  BY DEF ReceiveReply, Moves, processorVars, BatchIInv, BatchTypeOK, FlightUnanswered, NotCounted
<1>2. PICK answer \in Reply : answer = reply[r]
  BY <1>1
<1>3. reply' = [reply EXCEPT ![r] = answer] /\ "returned" \in CallStage
  BY <1>1, <1>2 DEF CallStage
<1>4. QED
  BY <1>1, <1>2, <1>3, CallOnlyIInv

LEMMA DropCallIInv ==
    ASSUME BatchIInv, NEW r \in Inference, DropCall(r)
    PROVE  BatchIInv'
<1>1. /\ reply \in [Inference -> Reply]
      /\ UNCHANGED <<reply, batchQueue, batch, processor, shutdown, depth>>
  BY DEF DropCall, processorVars, BatchIInv, BatchTypeOK
<1>2. PICK answer \in Reply : answer = reply[r]
  BY <1>1
<1>3. reply' = [reply EXCEPT ![r] = answer] /\ "dropped" \in CallStage /\ "uncounted" \in CallStage
  BY <1>1, <1>2 DEF CallStage
<1>4. r \in InFlight => answer = "none"
  BY <1>2 DEF BatchIInv, FlightUnanswered
<1>5. CASE Moves(r, "sent", "uncounted")
  <2>1. /\ batchCall' = [batchCall EXCEPT ![r] = "uncounted"] /\ r \in NotCounted
        /\ (r \in InFlight) # (answer # "none")
    BY <1>2, <1>5 DEF Moves, NotCounted, BatchIInv, RequestInOnePlace
  <2>2. QED
    BY <1>1, <1>3, <1>4, <2>1, CallOnlyIInv
<1>6. CASE Moves(r, "checked", "dropped") \/ Moves(r, "waiting", "dropped")
  <2>1. batchCall' = [batchCall EXCEPT ![r] = "dropped"] /\ r \notin NotCounted
    BY <1>6 DEF Moves, NotCounted
  <2>2. QED
    BY <1>1, <1>3, <1>4, <2>1, CallOnlyIInv
<1>7. QED
  BY <1>5, <1>6 DEF DropCall

LEMMA CountInIInv ==
    ASSUME BatchIInv, NEW r \in Inference, CountIn(r)
    PROVE  BatchIInv'
<1>1. /\ batchCall[r] = "sent" /\ batchCall' = [batchCall EXCEPT ![r] = "waiting"]
      /\ UNCHANGED <<reply, batchQueue, batch, processor, shutdown>> /\ depth' = depth + 1
      /\ BatchTypeOK /\ "waiting" \in CallStage
  BY DEF CountIn, Moves, processorVars, BatchIInv, CallStage
<1>2. /\ batchCall' \in [Inference -> CallStage]
      /\ \A p \in Inference : batchCall'[p] = IF p = r THEN "waiting" ELSE batchCall[p]
      /\ ToBeCounted' = ToBeCounted \ {r} /\ NotCounted' = NotCounted \ {r}
      /\ r \in ToBeCounted /\ r \in NotCounted
  BY <1>1, CallMoves DEF ToBeCounted, NotCounted
<1>3. /\ Cardinality(ToBeCounted') = Cardinality(ToBeCounted) - 1
      /\ Cardinality(NotCounted') = Cardinality(NotCounted) - 1
  BY <1>1, <1>2, SetsFinite, FS_RemoveElement
<1>4. /\ Cardinality(ToBeCounted) \in Nat /\ Cardinality(NotCounted) \in Nat /\ depth \in Nat
      /\ Cardinality(Inference) \in Nat /\ Len(batchQueue) \in Nat /\ Cardinality(batch) \in Nat
      /\ Cardinality(ToBeCounted') \in Nat
  <2>1. IsFiniteSet(ToBeCounted \ {r})
    BY <1>1, SetsFinite, FS_Subset
  <2>2. QED
    BY <1>1, <1>2, <2>1, SetsFinite, FS_CardinalityType
<1>5. DepthBounded'
  BY <1>1, <1>3, <1>4 DEF BatchIInv, DepthBounded
<1>6. DepthCoversBatch'
  <2>1. PICK q \in Nat, c \in Nat : q = Len(batchQueue) /\ c = Collected
    BY <1>4 DEF Collected
  <2>2. depth + Cardinality(NotCounted) >= q + c
    BY <2>1 DEF BatchIInv, DepthCoversBatch
  <2>3. (depth + 1) + (Cardinality(NotCounted) - 1) >= q + c
    BY <1>4, <2>1, <2>2
  <2>4. Collected' = c /\ Len(batchQueue') = q
    BY <1>1, <2>1 DEF Collected
  <2>5. QED
    BY <1>1, <1>3, <2>3, <2>4 DEF DepthCoversBatch
<1>7. BatchTypeOK'
  <2>1. depth' \in 0..Cardinality(Inference)
    BY <1>1, <1>4, <1>5 DEF DepthBounded
  <2>2. QED
    BY <1>1, <1>2, <2>1 DEF BatchTypeOK
<1>8. InFlight' = InFlight /\ InFlight \subseteq Inference
  BY <1>1, QueueRange DEF InFlight, BatchTypeOK
<1>9. RequestInOnePlace'
  BY <1>1, <1>2, <1>8 DEF BatchIInv, RequestInOnePlace
<1>10. FlightUnanswered' /\ NewUnanswered' /\ BatchInHand'
  BY <1>1, <1>2, <1>8 DEF BatchIInv, FlightUnanswered, NewUnanswered, BatchInHand
<1>11. QED
  BY <1>5, <1>6, <1>7, <1>9, <1>10 DEF BatchIInv

LEMMA SendRequestIInv ==
    ASSUME BatchIInv, NEW r \in Inference, SendRequest(r)
    PROVE  BatchIInv'
<1>1. /\ batchCall[r] = "checked" /\ reply \in [Inference -> Reply] /\ reply[r] = "none"
      /\ r \notin InFlight /\ r \in ToBeCounted /\ r \notin NotCounted
      /\ UNCHANGED <<batch, processor, shutdown, depth>> /\ BatchTypeOK
      /\ batchQueue \in Seq(Inference)
  BY DEF SendRequest, Moves, processorVars, BatchIInv, BatchTypeOK, FlightUnanswered, NewUnanswered,
         ToBeCounted, NotCounted
<1>2. CASE processor = "gone"
  <2>1. /\ batchCall' = [batchCall EXCEPT ![r] = "returned"] /\ UNCHANGED batchQueue
        /\ reply' = [reply EXCEPT ![r] = "QueueFull"]
    BY <1>2 DEF SendRequest, Moves
  <2>2. "returned" \in CallStage /\ "QueueFull" \in Reply
    BY DEF CallStage, Reply
  <2>3. QED
    BY <1>1, <2>1, <2>2, CallOnlyIInv
<1>3. CASE processor # "gone"
  <2>1. /\ batchCall' = [batchCall EXCEPT ![r] = "sent"] /\ UNCHANGED reply
        /\ batchQueue' = Append(batchQueue, r) /\ Len(batchQueue) < max_queue_depth
        /\ "sent" \in CallStage
    BY <1>3 DEF SendRequest, Moves, CallStage
  <2>2. /\ batchQueue' \in Seq(Inference) /\ Len(batchQueue') = Len(batchQueue) + 1
        /\ Range(batchQueue') = Range(batchQueue) \cup {r} /\ IsInjective(batchQueue')
    <3>1. r \notin Range(batchQueue) /\ IsInjective(batchQueue)
      BY <1>1 DEF BatchIInv, InFlight, RequestInOnePlace
    <3>2. QED
      BY <1>1, <2>1, <3>1, QueueAppend
  <2>3. /\ batchCall' \in [Inference -> CallStage]
        /\ \A p \in Inference : batchCall'[p] = IF p = r THEN "sent" ELSE batchCall[p]
        /\ ToBeCounted' = ToBeCounted \cup {r} /\ NotCounted' = NotCounted \cup {r}
    BY <1>1, <2>1, CallMoves
  <2>4. ToBeCounted' = ToBeCounted /\ Cardinality(NotCounted') = Cardinality(NotCounted) + 1
    <3>1. ToBeCounted' = ToBeCounted
      BY <1>1, <2>3
    <3>2. IsFiniteSet(NotCounted)
      BY <1>1, SetsFinite
    <3>3. QED
      BY <1>1, <2>3, <3>1, <3>2, FS_AddElement
  <2>5. /\ Cardinality(NotCounted) \in Nat /\ depth \in Nat
        /\ Len(batchQueue) \in Nat /\ Cardinality(batch) \in Nat
    BY <1>1, SetsFinite
  <2>6. BatchTypeOK'
    <3>1. Len(batchQueue') <= max_queue_depth
      BY <2>1, <2>2, <2>5, BatchAssumption
    <3>2. QED
      BY <1>1, <2>1, <2>2, <2>3, <3>1 DEF BatchTypeOK
  <2>7. InFlight' = InFlight \cup {r} /\ InFlight \subseteq Inference
    BY <1>1, <2>2, QueueRange DEF InFlight, BatchTypeOK
  <2>8. RequestInOnePlace'
    <3>1. Range(batchQueue') \cap batch' = {}
      BY <1>1, <2>2 DEF BatchIInv, RequestInOnePlace, InFlight
    <3>2. QED
      BY <1>1, <2>1, <2>2, <2>3, <2>7, <3>1 DEF BatchIInv, RequestInOnePlace
  <2>9. FlightUnanswered' /\ NewUnanswered' /\ BatchInHand'
    BY <1>1, <2>1, <2>3, <2>7 DEF BatchIInv, FlightUnanswered, NewUnanswered, BatchInHand
  <2>10. DepthBounded'
    BY <1>1, <2>4 DEF BatchIInv, DepthBounded
  <2>11. DepthCoversBatch'
    <3>1. PICK q \in Nat, c \in Nat : q = Len(batchQueue) /\ c = Collected
      BY <2>5 DEF Collected
    <3>2. depth + Cardinality(NotCounted) >= q + c
      BY <3>1 DEF BatchIInv, DepthCoversBatch
    <3>3. depth + (Cardinality(NotCounted) + 1) >= (q + 1) + c
      BY <2>5, <3>1, <3>2
    <3>4. Collected' = c /\ Len(batchQueue') = q + 1
      BY <1>1, <2>2, <3>1 DEF Collected
    <3>5. QED
      BY <1>1, <2>4, <3>3, <3>4 DEF DepthCoversBatch
  <2>12. QED
    BY <2>6, <2>8, <2>9, <2>10, <2>11 DEF BatchIInv
<1>4. QED
  BY <1>2, <1>3

-----------------------------------------------------------------------------
(* BatchProcessor::run *)

\* A step of the processor that moves requests on and answers those of rs,
\* which are in flight no more.
LEMMA ProcessorIInv ==
    ASSUME BatchIInv, NEW rs \in SUBSET InFlight, UNCHANGED <<batchCall, shutdown, depth>>,
           reply' \in [Inference -> Reply],
           \A p \in Inference : IF p \in rs THEN reply'[p] # "none" ELSE reply'[p] = reply[p],
           batchQueue' \in Seq(Inference), Len(batchQueue') <= max_queue_depth,
           IsInjective(batchQueue'), Range(batchQueue') \cap batch' = {},
           batch' \subseteq Inference,
           Cardinality(batch') <= max_batch_size \/ Cardinality(batch') = 1,
           processor' \in ProcessorStage, BatchInHand', InFlight' = InFlight \ rs,
           Len(batchQueue') + Collected' <= Len(batchQueue) + Collected
    PROVE  BatchIInv'
<1>1. BatchTypeOK'
  BY DEF BatchIInv, BatchTypeOK
<1>2. ToBeCounted' = ToBeCounted /\ NotCounted' = NotCounted
  BY DEF ToBeCounted, NotCounted
<1>3. DepthBounded'
  BY <1>2 DEF BatchIInv, DepthBounded
<1>4. DepthCoversBatch'
  <2>1. BatchTypeOK /\ BatchTypeOK'
    BY <1>1 DEF BatchIInv
  <2>2. /\ Len(batchQueue) + Collected \in Nat /\ depth + Cardinality(NotCounted) \in Nat
        /\ Len(batchQueue) \in Nat /\ Collected \in Nat
    BY <2>1, SetsFinite DEF Collected
  <2>3. IsFiniteSet(batch') /\ Cardinality(batch') \in Nat /\ Len(batchQueue') \in Nat
    BY BatchAssumption, FS_Subset, FS_CardinalityType, LenProperties
  <2>4. Len(batchQueue') + Collected' \in Nat
    BY <2>3 DEF Collected
  <2>5. PICK n \in Nat, m \in Nat, d \in Nat :
          /\ n = Len(batchQueue) + Collected /\ m = Len(batchQueue') + Collected'
          /\ d = depth + Cardinality(NotCounted)
    BY <2>2, <2>4
  <2>6. d >= n /\ m <= n
    BY <2>5 DEF BatchIInv, DepthCoversBatch
  <2>7. d >= m
    BY <2>5, <2>6
  <2>8. QED
    BY <1>2, <2>5, <2>7 DEF DepthCoversBatch
<1>5. InFlight \subseteq Inference
  BY QueueRange DEF InFlight, BatchIInv, BatchTypeOK
<1>6. RequestInOnePlace'
  BY <1>5 DEF BatchIInv, RequestInOnePlace, FlightUnanswered
<1>7. FlightUnanswered'
  BY <1>5 DEF BatchIInv, FlightUnanswered
<1>8. NewUnanswered'
  BY DEF BatchIInv, NewUnanswered, FlightUnanswered
<1>9. QED
  BY <1>1, <1>3, <1>4, <1>6, <1>7, <1>8 DEF BatchIInv

LEMMA AnswerAllReplies ==
    ASSUME BatchTypeOK, NEW rs \in SUBSET Inference, NEW how \in SUBSET (Reply \ {"none"}),
           AnswerAll(rs, how)
    PROVE  /\ reply' \in [Inference -> Reply]
           /\ \A p \in Inference : IF p \in rs THEN reply'[p] # "none" ELSE reply'[p] = reply[p]
<1>1. PICK answer \in [rs -> how] :
        reply' = [r \in Inference |-> IF r \in rs THEN answer[r] ELSE reply[r]]
  BY DEF AnswerAll
<1>2. QED
  BY <1>1 DEF BatchTypeOK

\* The queue is emptied and all it held is told of the shutdown.
LEMMA DrainIInv ==
    ASSUME BatchIInv, AnswerAll(Range(batchQueue), {"Shutdown"}), batchQueue' = <<>>,
           UNCHANGED <<batchCall, batch, shutdown, depth>>, batch = {},
           processor' \in {"stopped", "gone"}
    PROVE  BatchIInv'
<1>1. BatchTypeOK /\ batchQueue \in Seq(Inference) /\ Range(batchQueue) \subseteq InFlight
      /\ Len(batchQueue) \in Nat
  BY LenProperties DEF BatchIInv, BatchTypeOK, InFlight
<1>2. Range(batchQueue) \subseteq Inference
  BY <1>1, QueueRange
<1>3. {"Shutdown"} \in SUBSET (Reply \ {"none"})
  BY DEF Reply
<1>4. /\ reply' \in [Inference -> Reply]
      /\ \A p \in Inference :
            IF p \in Range(batchQueue) THEN reply'[p] # "none" ELSE reply'[p] = reply[p]
  BY <1>1, <1>2, <1>3, AnswerAllReplies
<1>5. /\ batchQueue' \in Seq(Inference) /\ Len(batchQueue') = 0 /\ Range(batchQueue') = {}
      /\ IsInjective(batchQueue')
  BY <1>1, QueueRange, EmptySeq
<1>6. InFlight' = InFlight \ Range(batchQueue)
  BY <1>5 DEF InFlight
<1>7. Cardinality(batch') = 0 /\ 0 <= max_batch_size /\ 0 <= max_queue_depth
  BY FS_EmptySet, BatchAssumption
<1>8. Collected' = 0 /\ Collected \in Nat /\ processor' \in ProcessorStage /\ BatchInHand'
  BY <1>1, SetsFinite DEF Collected, ProcessorStage, BatchInHand
<1>9. Len(batchQueue') + Collected' <= Len(batchQueue) + Collected
  BY <1>1, <1>5, <1>8
<1>10. QED
  BY <1>1, <1>4, <1>5, <1>6, <1>7, <1>8, <1>9, ProcessorIInv

\* The loop goes on, and all requests stay where they are.
LEMMA OnlyLoopIInv ==
    ASSUME BatchIInv, UNCHANGED <<batchCall, reply, batchQueue, batch, shutdown, depth>>,
           processor' \in {"top", "first"}, processor \notin {"filling", "inferring"}
    PROVE  BatchIInv'
<1>1. BatchTypeOK /\ Range(batchQueue) \cap batch = {} /\ IsInjective(batchQueue)
  BY DEF BatchIInv, RequestInOnePlace
<1>2. InFlight' = InFlight /\ Collected' = Collected /\ processor' \in ProcessorStage /\ BatchInHand'
  BY DEF InFlight, Collected, ProcessorStage, BatchInHand, BatchIInv
<1>3. Len(batchQueue) \in Nat /\ Collected \in Nat
  BY <1>1, SetsFinite DEF Collected
<1>4. Len(batchQueue') + Collected' <= Len(batchQueue) + Collected
  BY <1>2, <1>3
<1>5. {} \in SUBSET InFlight
  OBVIOUS
<1>6. QED
  BY <1>1, <1>2, <1>4, <1>5, ProcessorIInv DEF BatchTypeOK

LEMMA LoopTopIInv ==
    ASSUME BatchIInv, LoopTop
    PROVE  BatchIInv'
<1>1. batch = {} /\ processor = "top" /\ UNCHANGED <<batchCall, batch, shutdown, depth>>
  BY DEF LoopTop, BatchIInv, BatchInHand
<1>2. CASE shutdown
  BY <1>1, <1>2, DrainIInv DEF LoopTop, LeaveLoop
<1>3. CASE ~shutdown
  BY <1>1, <1>3, OnlyLoopIInv DEF LoopTop
<1>4. QED
  BY <1>2, <1>3

LEMMA FirstTimesOutIInv ==
    ASSUME BatchIInv, FirstTimesOut
    PROVE  BatchIInv'
BY OnlyLoopIInv DEF FirstTimesOut

LEMMA DropProcessorIInv ==
    ASSUME BatchIInv, DropProcessor
    PROVE  BatchIInv'
<1>1. batch = {}
  BY DEF DropProcessor, BatchIInv, BatchInHand
<1>2. QED
  BY <1>1, DrainIInv DEF DropProcessor

\* The head of the queue goes into the batch.
LEMMA TakeIInv ==
    ASSUME BatchIInv, batchQueue # <<>>, batchQueue' = Tail(batchQueue),
           batch' = batch \cup {Head(batchQueue)}, processor' = "filling",
           UNCHANGED <<batchCall, reply, shutdown, depth>>,
           processor = "filling" \/ batch = {},
           batch = {} \/ Cardinality(batch) < max_batch_size
    PROVE  BatchIInv'
<1>1. BatchTypeOK /\ batchQueue \in Seq(Inference) /\ IsInjective(batchQueue)
      /\ Range(batchQueue) \cap batch = {} /\ batch \subseteq Inference
      /\ reply \in [Inference -> Reply]
  BY DEF BatchIInv, BatchTypeOK, RequestInOnePlace
<1>2. PICK r \in Inference : r = Head(batchQueue)
  BY <1>1, QueueTail
<1>3. /\ batchQueue' \in Seq(Inference) /\ Len(batchQueue') = Len(batchQueue) - 1
      /\ Range(batchQueue) = Range(batchQueue') \cup {r} /\ r \notin Range(batchQueue')
      /\ IsInjective(batchQueue')
  BY <1>1, <1>2, QueueTail
<1>4. /\ Cardinality(batch) \in Nat /\ Cardinality(batch') = Cardinality(batch) + 1
      /\ Len(batchQueue) \in Nat
  <2>1. r \notin batch /\ batch' = batch \cup {r}
    BY <1>1, <1>2, <1>3
  <2>2. IsFiniteSet(batch) /\ Cardinality(batch) \in Nat /\ Len(batchQueue) \in Nat
    BY <1>1, SetsFinite
  <2>3. QED
    BY <2>1, <2>2, FS_AddElement
<1>5. Cardinality(batch') <= max_batch_size \/ Cardinality(batch') = 1
  <2>1. CASE batch = {}
    BY <1>4, <2>1, FS_EmptySet
  <2>2. CASE Cardinality(batch) < max_batch_size
    BY <1>4, <2>2, BatchAssumption
  <2>3. QED
    BY <2>1, <2>2
<1>6. InFlight' = InFlight \ {} /\ {} \in SUBSET InFlight
  BY <1>2, <1>3 DEF InFlight
<1>7. Collected = Cardinality(batch) /\ Collected' = Cardinality(batch')
  <2>1. Cardinality({}) = 0
    BY FS_EmptySet
  <2>2. QED
    BY <2>1 DEF Collected
<1>8. Len(batchQueue') + Collected' <= Len(batchQueue) + Collected
  <2>1. PICK n \in Nat : n = Len(batchQueue)
    BY <1>4
  <2>2. (n - 1) + (Cardinality(batch) + 1) <= n + Cardinality(batch)
    BY <1>4
  <2>3. QED
    BY <1>3, <1>4, <1>7, <2>1, <2>2
<1>9. Len(batchQueue') <= max_queue_depth
  BY <1>3, <1>4, BatchAssumption DEF BatchIInv, BatchTypeOK
<1>10. Range(batchQueue') \cap batch' = {} /\ batch' \subseteq Inference
  BY <1>1, <1>2, <1>3
<1>11. processor' \in ProcessorStage /\ BatchInHand'
  BY DEF ProcessorStage, BatchInHand
<1>12. QED
  BY <1>1, <1>3, <1>5, <1>6, <1>8, <1>9, <1>10, <1>11, ProcessorIInv

LEMMA TakeFirstIInv ==
    ASSUME BatchIInv, TakeFirst
    PROVE  BatchIInv'
<1>1. batch = {}
  BY DEF TakeFirst, BatchIInv, BatchInHand
<1>2. batch' = batch \cup {Head(batchQueue)}
  BY <1>1 DEF TakeFirst
<1>3. QED
  BY <1>1, <1>2, TakeIInv DEF TakeFirst

LEMMA TakeMoreIInv ==
    ASSUME BatchIInv, TakeMore
    PROVE  BatchIInv'
<1>1. Cardinality(batch) < max_batch_size
  <2>1. Cardinality(batch) \in Nat
    BY SetsFinite DEF BatchIInv
  <2>2. QED
    BY <2>1, BatchAssumption DEF TakeMore, BatchFull
<1>2. QED
  BY <1>1, TakeIInv DEF TakeMore

LEMMA InferGroupIInv ==
    ASSUME BatchIInv, NEW m \in Model, InferGroup(m)
    PROVE  BatchIInv'
<1>1. /\ BatchTypeOK /\ batch \subseteq Inference /\ Group(m) \subseteq batch
      /\ Range(batchQueue) \cap batch = {} /\ IsInjective(batchQueue)
      /\ batchQueue \in Seq(Inference) /\ Len(batchQueue) <= max_queue_depth
      /\ processor = "inferring" /\ batch' = batch \ Group(m)
      /\ processor' = IF batch' = {} THEN "top" ELSE "inferring"
      /\ UNCHANGED <<batchCall, batchQueue, shutdown, depth>>
  BY DEF InferGroup, Group, BatchIInv, BatchTypeOK, RequestInOnePlace
<1>2. {"Ok", "InferenceFailed"} \in SUBSET (Reply \ {"none"})
  BY DEF Reply
<1>3. /\ reply' \in [Inference -> Reply]
      /\ \A p \in Inference : IF p \in Group(m) THEN reply'[p] # "none" ELSE reply'[p] = reply[p]
  BY <1>1, <1>2, AnswerAllReplies DEF InferGroup
<1>4. InFlight' = InFlight \ Group(m) /\ Group(m) \in SUBSET InFlight
  BY <1>1 DEF InFlight
<1>5. Cardinality(batch') <= max_batch_size \/ Cardinality(batch') = 1
  <2>1. IsFiniteSet(batch) /\ Cardinality(batch) \in Nat
    BY <1>1, SetsFinite
  <2>2. Cardinality(batch') <= Cardinality(batch) /\ Cardinality(batch') \in Nat
    BY <1>1, <2>1, FS_Subset, FS_CardinalityType
  <2>3. CASE Cardinality(batch) <= max_batch_size
    BY <2>1, <2>2, <2>3, BatchAssumption
  <2>4. CASE Cardinality(batch) = 1
    <3>1. Group(m) # {}
      BY DEF InferGroup
    <3>2. Cardinality(batch') # Cardinality(batch)
      BY <1>1, <2>1, <3>1, FS_Subset
    <3>3. QED
      BY <2>1, <2>2, <2>4, <3>2, BatchAssumption
  <2>5. QED
    BY <1>1, <2>3, <2>4 DEF BatchTypeOK
<1>6. Collected' = 0 /\ Collected = 0 /\ processor' \in ProcessorStage /\ BatchInHand'
  BY <1>1 DEF Collected, ProcessorStage, BatchInHand
<1>7. Len(batchQueue') + Collected' <= Len(batchQueue) + Collected
  <2>1. Len(batchQueue) \in Nat
    BY <1>1, LenProperties
  <2>2. QED
    BY <1>1, <1>6, <2>1
<1>8. Range(batchQueue') \cap batch' = {} /\ batch' \subseteq Inference
  BY <1>1
<1>9. QED
  BY <1>1, <1>3, <1>4, <1>5, <1>6, <1>7, <1>8, ProcessorIInv

\* What is subtracted from depth covers the batch and no more than the batch.
LEMMA CloseBatchIInv ==
    ASSUME BatchIInv, CloseBatch
    PROVE  BatchIInv'
<1>1. /\ BatchTypeOK /\ processor = "filling" /\ processor' = "inferring"
      /\ depth' = CountedOut(Cardinality(batch))
      /\ UNCHANGED <<batchCall, reply, batchQueue, batch, shutdown>>
  BY DEF CloseBatch, BatchIInv
<1>2. PICK b \in Nat, q \in Nat, u \in Nat, n \in Nat, i \in Nat :
        /\ b = Cardinality(batch) /\ q = Len(batchQueue) /\ u = Cardinality(ToBeCounted)
        /\ n = Cardinality(NotCounted) /\ i = Cardinality(Inference)
  BY <1>1, SetsFinite
<1>3. depth \in Nat /\ depth + u <= i /\ depth + n >= q + b /\ depth \in 0..i
  <2>1. depth + n >= q + b
    BY <1>1, <1>2 DEF BatchIInv, DepthCoversBatch, Collected
  <2>2. QED
    BY <1>1, <1>2, <2>1, SetsFinite DEF BatchIInv, DepthBounded, BatchTypeOK
<1>4. /\ depth' \in Nat /\ depth' <= depth /\ depth' + n >= q
  BY <1>1, <1>2, <1>3 DEF CountedOut
<1>5. ToBeCounted' = ToBeCounted /\ NotCounted' = NotCounted /\ InFlight' = InFlight
  BY <1>1 DEF ToBeCounted, NotCounted, InFlight
<1>6. DepthBounded' /\ depth' \in 0..Cardinality(Inference)
  <2>1. PICK d \in Nat, e \in Nat : d = depth /\ e = depth'
    BY <1>3, <1>4
  <2>2. d + u <= i /\ e <= d
    BY <1>3, <1>4, <2>1
  <2>3. e + u <= i /\ e \in 0..i
    BY <1>2, <2>1, <2>2
  <2>4. QED
    BY <1>2, <1>5, <2>1, <2>3 DEF DepthBounded
<1>7. DepthCoversBatch'
  <2>1. Collected' = 0 /\ Len(batchQueue') = q
    BY <1>1, <1>2 DEF Collected
  <2>2. QED
    BY <1>2, <1>4, <1>5, <2>1 DEF DepthCoversBatch
<1>8. BatchTypeOK'
  BY <1>1, <1>6 DEF BatchTypeOK, ProcessorStage
<1>9. RequestInOnePlace' /\ FlightUnanswered' /\ NewUnanswered' /\ BatchInHand'
  BY <1>1, <1>5 DEF BatchIInv, RequestInOnePlace, FlightUnanswered, NewUnanswered, BatchInHand
<1>10. QED
  BY <1>6, <1>7, <1>8, <1>9 DEF BatchIInv

-----------------------------------------------------------------------------
LEMMA BatchNextIInv == BatchIInv /\ [BatchNext]_batchVars => BatchIInv'
<1> SUFFICES ASSUME BatchIInv, [BatchNext]_batchVars PROVE BatchIInv'
  OBVIOUS
<1>1. ASSUME NEW r \in Inference,
             CheckShutdown(r) \/ SendRequest(r) \/ CountIn(r) \/ ReceiveReply(r) \/ DropCall(r)
      PROVE  BatchIInv'
  BY <1>1, CheckShutdownIInv, SendRequestIInv, CountInIInv, ReceiveReplyIInv, DropCallIInv
<1>2. CASE RunProcessor
  BY <1>2, LoopTopIInv, TakeFirstIInv, FirstTimesOutIInv, TakeMoreIInv, CloseBatchIInv,
     DropProcessorIInv, InferGroupIInv DEF RunProcessor
<1>3. CASE ShutDown \/ UNCHANGED batchVars
  <2>1. /\ UNCHANGED <<batchCall, reply, batchQueue, batch, processor, depth>>
        /\ shutdown' \in BOOLEAN
    BY <1>3 DEF ShutDown, batchVars, BatchIInv, BatchTypeOK
  <2>2. BatchTypeOK'
    BY <2>1 DEF BatchIInv, BatchTypeOK
  <2>3. InFlight' = InFlight /\ ToBeCounted' = ToBeCounted /\ NotCounted' = NotCounted
        /\ Collected' = Collected
    BY <2>1 DEF InFlight, ToBeCounted, NotCounted, Collected
  <2>4. QED
    BY <2>1, <2>2, <2>3 DEF BatchIInv, RequestInOnePlace, FlightUnanswered, NewUnanswered, BatchInHand,
                            DepthBounded, DepthCoversBatch
<1>4. QED
  BY <1>1, <1>2, <1>3 DEF BatchNext

LEMMA BatchInvariance == BatchSpec => []BatchIInv
BY BatchInitIInv, BatchNextIInv, PTL DEF BatchSpec

\* Every variable stays in its type: the queue and the batch keep to their
\* sizes, and depth counts no request twice (inference/batch.rs).
THEOREM BatchTypeCorrect == BatchSpec => []BatchTypeOK
<1>1. BatchIInv => BatchTypeOK
  BY DEF BatchIInv
<1>2. QED
  BY <1>1, BatchInvariance, PTL

\* A request is queued, in the batch or answered, never in two of these, and
\* none is lost when the shutdown comes; and depth covers the queue but for
\* those whose caller has yet to count or has gone (inference/batch.rs).
THEOREM RequestsAccounted == BatchSpec => []BatchesAccounted
<1>1. BatchIInv => BatchesAccounted
  <2> SUFFICES ASSUME BatchIInv PROVE DepthCoversQueue
    BY DEF BatchIInv, BatchesAccounted
  <2>1. BatchTypeOK /\ DepthCoversBatch
    BY DEF BatchIInv
  <2>2. PICK q \in Nat, c \in Nat, d \in Nat :
          q = Len(batchQueue) /\ c = Collected /\ d = depth + Cardinality(NotCounted)
    BY <2>1, SetsFinite DEF Collected
  <2>3. d >= q + c
    BY <2>1, <2>2 DEF DepthCoversBatch
  <2>4. d >= q
    BY <2>2, <2>3
  <2>5. QED
    BY <2>2, <2>4 DEF DepthCoversQueue
<1>2. QED
  BY <1>1, BatchInvariance, PTL

-----------------------------------------------------------------------------
(* First starts: for any programs and any number of starts. *)

MakesKey(p) == programAt[p] \in {"generate", "write"}

\* Without a key nobody is past its making; whoever makes one has it in hand.
KeysInHand ==
    /\ identity = None => \A p \in Process : programAt[p] \in {"stopped", "generate"}
    /\ \A p \in Process : MakesKey(p) => programId[p] \in Key

\* Unless first starts overlap, one program at most makes a key, for want of
\* one, and while the file is empty nobody goes on.
KeysApart ==
    /\ \A p, q \in Process : MakesKey(p) /\ MakesKey(q) => p = q
    /\ \A p \in Process : programAt[p] = "generate" => identity = None
    /\ \A p \in Process : programAt[p] = "write" => identity = Empty
    /\ identity = Empty =>
         \A p \in Process : programAt[p] \in {"stopped", "generate", "write", "load"}
    /\ \A p \in Process :
         programAt[p] \in {"config", "open", "running"} => programId[p] = identity

SetupIInv ==
    /\ SetupTypeOK /\ KeysInHand /\ FilesWhole
    /\ raced \/ KeysApart

LEMMA SetupInitIInv == SetupInit => SetupIInv
<1> SUFFICES ASSUME SetupInit PROVE SetupIInv
  OBVIOUS
<1>1. /\ identity = None /\ config \in {None, "edited"} /\ Empty # config /\ Empty # None
      /\ \A p \in Process : programAt[p] = "stopped"
  BY ProgramsAssumption DEF SetupInit, Process
<1>2. SetupTypeOK
  <2>1. programStarts \in 0..MaxProgramStarts
    BY ProgramsAssumption DEF SetupInit
  <2>2. programAt \in [Process -> {"stopped", "generate", "write", "save", "saving",
                                            "load", "config", "open", "running"}]
    BY DEF SetupInit
  <2>3. /\ setupHolder \in [File -> Process \cup {None}]
        /\ programId \in [Process -> Key \cup {None}]
    BY DEF SetupInit
  <2>4. /\ identity \in Key \cup {None, Empty} /\ tornFiles \in SUBSET {"identity", "config"}
        /\ config \in {"default", "edited", None, Empty} /\ raced \in BOOLEAN
    BY DEF SetupInit
  <2>5. QED
    BY <2>1, <2>2, <2>3, <2>4 DEF SetupTypeOK
<1>3. KeysInHand /\ FilesWhole /\ KeysApart
  BY <1>1 DEF KeysInHand, KeysApart, MakesKey, FilesWhole
<1>4. QED
  BY <1>2, <1>3 DEF SetupIInv

LEMMA StopKeeps ==
    ASSUME SetupIInv, NEW p \in Process, programAt[p] \notin {"write", "saving"}, SetupStop(p),
           UNCHANGED <<identity, config, programStarts, tornFiles, raced>>
    PROVE  SetupIInv'
<1>1. SetupTypeOK'
  BY DEF SetupIInv, SetupTypeOK, SetupStop, SetupGo, Process
<1>2. KeysInHand'
  BY DEF SetupIInv, SetupTypeOK, SetupStop, SetupGo, Process, KeysInHand, MakesKey
<1>3. FilesWhole'
  BY DEF SetupIInv, SetupTypeOK, SetupStop, SetupGo, Process, FilesWhole
<1>4. (raced \/ KeysApart)'
  BY DEF SetupIInv, SetupTypeOK, SetupStop, SetupGo, Process, KeysApart, MakesKey
<1>5. QED
  BY <1>1, <1>2, <1>3, <1>4 DEF SetupIInv

LEMMA SetupBeginKeeps ==
    ASSUME SetupIInv, NEW p \in Process, SetupBegin(p)
    PROVE  SetupIInv'
<1>1. SetupTypeOK'
  <2>1. programStarts' \in Key /\ programStarts' \in 0..MaxProgramStarts
    BY ProgramsAssumption DEF SetupIInv, SetupTypeOK, SetupBegin, Key
  <2>2. programAt' \in [Process -> {"stopped", "generate", "write", "save", "saving",
                                    "load", "config", "open", "running"}]
    BY DEF SetupIInv, SetupTypeOK, SetupBegin, SetupGo
  <2>3. programId' \in [Process -> Key \cup {None}]
    BY <2>1 DEF SetupIInv, SetupTypeOK, SetupBegin
  <2>4. raced' \in BOOLEAN
    BY DEF SetupIInv, SetupTypeOK, SetupBegin
  <2>5. QED
    BY <2>1, <2>2, <2>3, <2>4 DEF SetupIInv, SetupTypeOK, SetupBegin
<1>2. KeysInHand'
  BY ProgramsAssumption DEF SetupIInv, SetupBegin, SetupTypeOK, SetupStop, SetupGo, Process,
     KeysInHand, MakesKey, Key
<1>3. FilesWhole'
  BY ProgramsAssumption DEF SetupIInv, SetupBegin, SetupTypeOK, SetupStop, SetupGo, Process,
     KeysInHand, MakesKey, FilesWhole
<1>4. (raced \/ KeysApart)'
  <2>0. /\ raced' = raced \/ (raced' <=> raced \/ \E q \in Process : MakesKey(q))
        /\ \A q \in Process : q # p => programAt'[q] = programAt[q] /\ programId'[q] = programId[q]
        /\ identity' = identity /\ programAt'[p] \in {"load", "generate"}
        /\ programAt'[p] = "generate" =>
             identity = None /\ (raced' <=> raced \/ \E q \in Process : MakesKey(q))
    BY DEF SetupIInv, SetupBegin, SetupTypeOK, SetupGo, Process, MakesKey
  <2>1. CASE raced'
    BY <2>1
  <2>2. CASE ~raced'
    <3>1. KeysApart
      BY <2>0, <2>2 DEF SetupIInv
    <3>2. CASE programAt'[p] = "load"
      BY <2>0, <3>1, <3>2 DEF KeysApart, MakesKey
    <3>3. CASE programAt'[p] = "generate"
      <4>1. \A q \in Process : ~MakesKey(q)
        BY <2>0, <2>2, <3>3
      <4>2. identity' = None /\ None # Empty
        BY <2>0, <3>3, ProgramsAssumption
      <4>3. \A q \in Process : q # p => programAt'[q] \notin {"generate", "write"}
        BY <2>0, <4>1 DEF MakesKey
      <4>4. QED
        BY <2>0, <3>1, <3>3, <4>2, <4>3 DEF KeysApart, MakesKey
    <3>4. QED
      BY <2>0, <3>2, <3>3
  <2>3. QED
    BY <2>1, <2>2
<1>5. QED
  BY <1>1, <1>2, <1>3, <1>4 DEF SetupIInv

LEMMA TruncateIdentityKeeps ==
    ASSUME SetupIInv, NEW p \in Process, TruncateIdentity(p)
    PROVE  SetupIInv'
<1>1. SetupTypeOK'
  BY DEF SetupIInv, TruncateIdentity, SetupTypeOK, SetupStop, SetupGo, Process, Key, File,
     database, Process
<1>2. KeysInHand'
  BY ProgramsAssumption DEF SetupIInv, TruncateIdentity, SetupTypeOK, SetupStop, SetupGo,
     Process, KeysInHand, MakesKey, Key
<1>3. FilesWhole'
  BY DEF SetupIInv, TruncateIdentity, SetupTypeOK, SetupStop, SetupGo, Process, KeysInHand,
     MakesKey, FilesWhole
<1>4. (raced \/ KeysApart)'
  BY DEF SetupIInv, TruncateIdentity, SetupTypeOK, SetupStop, SetupGo, Process, KeysInHand,
     KeysApart, MakesKey, Key
<1>5. QED
  BY <1>1, <1>2, <1>3, <1>4 DEF SetupIInv

LEMMA WriteIdentityKeeps ==
    ASSUME SetupIInv, NEW p \in Process, WriteIdentity(p)
    PROVE  SetupIInv'
<1>1. SetupTypeOK'
  BY DEF SetupIInv, WriteIdentity, SetupTypeOK, SetupStop, SetupGo, Process, Key, File,
     database, Process
<1>2. KeysInHand'
  BY ProgramsAssumption DEF SetupIInv, WriteIdentity, SetupTypeOK, SetupStop, SetupGo, Process,
     KeysInHand, MakesKey, Key
<1>3. FilesWhole'
  BY ProgramsAssumption DEF SetupIInv, WriteIdentity, SetupTypeOK, SetupStop, SetupGo, Process,
     KeysInHand, MakesKey, FilesWhole, Key
<1>4. (raced \/ KeysApart)'
  <2>1. CASE raced
    BY <2>1 DEF WriteIdentity
  <2>2. CASE KeysApart
    <3>1. /\ \A q \in Process : q # p => programAt'[q] = programAt[q] /\ programId'[q] = programId[q]
          /\ programAt'[p] \in {"save", "config"} /\ MakesKey(p)
          /\ identity' = programId[p] /\ programId'[p] = programId[p] /\ identity = Empty
      BY <2>2 DEF SetupIInv, WriteIdentity, SetupTypeOK, SetupGo,
         Process, KeysApart, MakesKey
    <3>2. identity' # Empty /\ identity' # None
      BY <3>1, ProgramsAssumption DEF SetupIInv, KeysInHand, Key
    <3>3. \A q \in Process : q # p => programAt[q] \in {"stopped", "load"}
      BY <2>2, <3>1 DEF KeysApart, MakesKey
    <3>4. KeysApart'
      BY <3>1, <3>2, <3>3 DEF KeysApart, MakesKey
    <3>5. QED
      BY <3>4
  <2>3. QED
    BY <2>1, <2>2 DEF SetupIInv
<1>5. QED
  BY <1>1, <1>2, <1>3, <1>4 DEF SetupIInv

LEMMA TruncateConfigKeeps ==
    ASSUME SetupIInv, NEW p \in Process, TruncateConfig(p)
    PROVE  SetupIInv'
<1>1. SetupTypeOK'
  BY DEF SetupIInv, TruncateConfig, SetupTypeOK, SetupStop, SetupGo, Process, Key, File,
     database, Process
<1>2. KeysInHand'
  BY DEF SetupIInv, TruncateConfig, SetupTypeOK, SetupStop, SetupGo, Process, KeysInHand,
     MakesKey, Key
<1>3. FilesWhole'
  BY DEF SetupIInv, TruncateConfig, SetupTypeOK, SetupStop, SetupGo, Process, KeysInHand,
     MakesKey, FilesWhole
<1>4. (raced \/ KeysApart)'
  BY DEF SetupIInv, TruncateConfig, SetupTypeOK, SetupStop, SetupGo, Process, KeysInHand,
     KeysApart, MakesKey, Key
<1>5. QED
  BY <1>1, <1>2, <1>3, <1>4 DEF SetupIInv

LEMMA WriteConfigKeeps ==
    ASSUME SetupIInv, NEW p \in Process, WriteConfig(p)
    PROVE  SetupIInv'
<1>1. SetupTypeOK'
  BY DEF SetupIInv, WriteConfig, SetupTypeOK, SetupStop, SetupGo, Process, Key, File, database,
     Process
<1>2. KeysInHand'
  BY DEF SetupIInv, WriteConfig, SetupTypeOK, SetupStop, SetupGo, Process, KeysInHand, MakesKey,
     Key
<1>3. FilesWhole'
  BY ProgramsAssumption DEF SetupIInv, WriteConfig, SetupTypeOK, SetupStop, SetupGo, Process,
     KeysInHand, MakesKey, FilesWhole
<1>4. (raced \/ KeysApart)'
  BY DEF SetupIInv, WriteConfig, SetupTypeOK, SetupStop, SetupGo, Process, KeysInHand,
     KeysApart, MakesKey, Key
<1>5. QED
  BY <1>1, <1>2, <1>3, <1>4 DEF SetupIInv

LEMMA LoadIdentityKeeps ==
    ASSUME SetupIInv, NEW p \in Process, LoadIdentity(p)
    PROVE  SetupIInv'
<1>1. CASE SetupStop(p)
  BY <1>1, StopKeeps DEF LoadIdentity
<1>2. CASE ~SetupStop(p)
  <2>1. SetupTypeOK'
    BY <1>2 DEF SetupIInv, LoadIdentity, SetupTypeOK, SetupStop, SetupGo, Process, Key, File,
       database, Process
  <2>2. KeysInHand'
    BY <1>2 DEF SetupIInv, LoadIdentity, SetupTypeOK, SetupStop, SetupGo, Process, KeysInHand,
       MakesKey, Key
  <2>3. FilesWhole'
    BY <1>2 DEF SetupIInv, LoadIdentity, SetupTypeOK, SetupStop, SetupGo, Process, KeysInHand,
       MakesKey, FilesWhole
  <2>4. (raced \/ KeysApart)'
    BY <1>2 DEF SetupIInv, LoadIdentity, SetupTypeOK, SetupStop, SetupGo, Process, KeysInHand,
       KeysApart, MakesKey, Key
  <2>5. QED
    BY <2>1, <2>2, <2>3, <2>4 DEF SetupIInv
<1>3. QED
  BY <1>1, <1>2

LEMMA LoadConfigKeeps ==
    ASSUME SetupIInv, NEW p \in Process, LoadConfig(p)
    PROVE  SetupIInv'
<1>1. CASE SetupStop(p)
  BY <1>1, StopKeeps DEF LoadConfig
<1>2. CASE ~SetupStop(p)
  <2>1. SetupTypeOK'
    BY <1>2 DEF SetupIInv, LoadConfig, SetupTypeOK, SetupStop, SetupGo, Process, Key, File,
       database, Process
  <2>2. KeysInHand'
    BY <1>2 DEF SetupIInv, LoadConfig, SetupTypeOK, SetupStop, SetupGo, Process, KeysInHand,
       MakesKey, Key
  <2>3. FilesWhole'
    BY <1>2 DEF SetupIInv, LoadConfig, SetupTypeOK, SetupStop, SetupGo, Process, KeysInHand,
       MakesKey, FilesWhole
  <2>4. (raced \/ KeysApart)'
    BY <1>2 DEF SetupIInv, LoadConfig, SetupTypeOK, SetupStop, SetupGo, Process, KeysInHand,
       KeysApart, MakesKey, Key
  <2>5. QED
    BY <2>1, <2>2, <2>3, <2>4 DEF SetupIInv
<1>3. QED
  BY <1>1, <1>2

LEMMA SetupOpenKeeps ==
    ASSUME SetupIInv, NEW p \in Process, SetupOpen(p)
    PROVE  SetupIInv'
<1>1. CASE SetupStop(p)
  BY <1>1, StopKeeps DEF SetupOpen
<1>2. CASE ~SetupStop(p)
  <2>1. SetupTypeOK'
    BY <1>2 DEF SetupIInv, SetupOpen, SetupTypeOK, SetupStop, SetupGo, Process, Key, File,
       database, Process
  <2>2. KeysInHand'
    BY <1>2 DEF SetupIInv, SetupOpen, SetupTypeOK, SetupStop, SetupGo, Process, KeysInHand,
       MakesKey, Key
  <2>3. FilesWhole'
    BY <1>2 DEF SetupIInv, SetupOpen, SetupTypeOK, SetupStop, SetupGo, Process, KeysInHand,
       MakesKey, FilesWhole
  <2>4. (raced \/ KeysApart)'
    BY <1>2 DEF SetupIInv, SetupOpen, SetupTypeOK, SetupStop, SetupGo, Process, KeysInHand,
       KeysApart, MakesKey, Key
  <2>5. QED
    BY <2>1, <2>2, <2>3, <2>4 DEF SetupIInv
<1>3. QED
  BY <1>1, <1>2

LEMMA DieKeeps ==
    ASSUME SetupIInv, NEW p \in Process, Die(p)
    PROVE  SetupIInv'
<1>1. SetupTypeOK'
  BY DEF SetupIInv, Die, SetupTypeOK, SetupStop, SetupGo, Process, Key, File, database, Process
<1>2. KeysInHand'
  BY DEF SetupIInv, Die, SetupTypeOK, SetupStop, SetupGo, Process, KeysInHand, MakesKey, Key
<1>3. FilesWhole'
  BY DEF SetupIInv, Die, SetupTypeOK, SetupStop, SetupGo, Process, KeysInHand, MakesKey,
     FilesWhole
<1>4. (raced \/ KeysApart)'
  BY DEF SetupIInv, Die, SetupTypeOK, SetupStop, SetupGo, Process, KeysInHand, KeysApart,
     MakesKey, Key
<1>5. QED
  BY <1>1, <1>2, <1>3, <1>4 DEF SetupIInv

LEMMA SetupNextIInv == SetupIInv /\ [SetupNext]_setupVars => SetupIInv'
<1> SUFFICES ASSUME SetupIInv, [SetupNext]_setupVars
             PROVE  SetupIInv'
  OBVIOUS
<1>1. CASE Edit
  BY <1>1, ProgramsAssumption DEF Edit, SetupIInv, SetupTypeOK, KeysInHand, KeysApart, MakesKey,
     FilesWhole
<1>2. ASSUME NEW p \in Process, SetupStep(p)
      PROVE  SetupIInv'
  BY <1>2, SetupBeginKeeps, TruncateIdentityKeeps, WriteIdentityKeeps, TruncateConfigKeeps,
     WriteConfigKeeps,
     LoadIdentityKeeps, LoadConfigKeeps, SetupOpenKeeps, DieKeeps DEF SetupStep
<1>3. CASE UNCHANGED setupVars
  BY <1>3 DEF setupVars, SetupIInv, SetupTypeOK, KeysInHand, KeysApart, MakesKey, FilesWhole
<1>4. QED
  BY <1>1, <1>2, <1>3 DEF SetupNext, Process

-----------------------------------------------------------------------------
(* A node and the commands of its user: for any processes and any credit. *)

OfTokens == OfWallet \cup OfRuntime
Empties == {"no active jobs", "no completed jobs", "not found"}

\* Only one process has the database open.
FileHeld ==
    \A c \in NodeCommand :
        /\ commandAt[c] \in {"load", "credit", "work", "save"} => databaseHolder = c
        /\ commandAt[c] = "print" /\ does[c] \in OfTokens => databaseHolder = c
        /\ commandAt[c] \in {"new", "ended"} => does[c] = "nothing"
        /\ commandAt[c] = "ask" => does[c] = "network status"
        /\ commandAt[c] = "credit" => does[c] \in OfTokens

\* What it loaded is what is stored, but for a change it is about to save.
WalletLoaded ==
    \A c \in NodeCommand :
        commandAt[c] \in {"credit", "work"} /\ does[c] \in OfTokens => commandWallet[c] = storedWallet
WalletToSave ==
    \A c \in NodeCommand : commandAt[c] = "save" /\ does[c] \in Spending =>
        /\ commandWallet[c] = Moved(storedWallet, does[c])
        /\ IF does[c] = "unstake" THEN storedWallet.staked > 0 ELSE storedWallet.available > 0
WalletShown ==
    \A c \in NodeCommand :
        commandAt[c] = "print" /\ does[c] \in OfWallet /\ report[c] # "failed" =>
            commandWallet[c] = storedWallet

\* Who has jobs runs, with the database, and so does who says there are none.
JobsOfOne ==
    /\ \A c \in NodeCommand :
         commandAt[c] = "print" /\ report[c] \in Empties => does[c] \in OfJobs
    /\ node_jobs => \E d \in NodeCommand : commandAt[d] = "work" /\ does[d] = "serve"

\* An agent is made by its process, once, and named by others only then.
AgentsMade ==
    \A c \in NodeCommand :
        /\ c \in looked => commandAt[c] # "new"
        /\ agentTable[c] # "none" => commandAt[c] \in {"print", "ended"}
AgentsNamed ==
    \A c, a \in NodeCommand : a \in about[c] =>
        commandAt[c] # "new" /\ (agentTable[a] # "none" \/ (a = c /\ c \notin looked))
StopsNamed ==
    \A c, a \in NodeCommand : a \in about[c] /\ report[c] = "stopped" => agentTable[a] = "stopped"
OneIsStopped ==
    \A c, a, b \in NodeCommand :
        commandAt[c] = "save" /\ does[c] = "agent stop" /\ a \in about[c] /\ b \in about[c] =>
            a # c /\ b = a

TokensAdded ==
    /\ storedWallet.available + storedWallet.in_escrow + storedWallet.staked = CreditOfRuntime * credits
    /\ IsFiniteSet(sendsReported) /\ storedWallet.in_escrow >= Cardinality(sendsReported)

\* A send is reported by the process that made it, when it has saved.
SendsSaved == \A c \in NodeCommand : c \in sendsReported => commandAt[c] \in {"print", "ended"}

CommandIInv ==
    /\ CommandTypeOK
    /\ FileHeld /\ WalletLoaded /\ WalletToSave /\ WalletShown /\ JobsOfOne
    /\ AgentsMade /\ AgentsNamed /\ StopsNamed /\ OneIsStopped /\ TokensAdded /\ SendsSaved

\* What the kinds of command have to do with one another.
LEMMA KindsOfCommand ==
    /\ \A x \in OfTokens : x \notin OfFile /\ x # "nothing" /\ x # "network status"
                          /\ x # "agent stop" /\ x # "agent run"
    /\ \A x \in OfJobs : x \in OfTokens /\ x \notin OfWallet /\ x # "serve"
    /\ "serve" \in OfTokens
    /\ \A x \in OfWallet : x \in OfTokens
    /\ \A x \in Spending : x \in OfWallet /\ x \in OfTokens /\ x # "serve" /\ x # "agent stop"
    /\ "nothing" \notin OfFile
BY DEF OfTokens, OfWallet, OfRuntime, OfJobs, OfPeers, OfFile,
   OfAgents, OfNetwork, Spending

\* A step of one process, seen by the others.
OthersStay(c) ==
    \A d \in NodeCommand : d # c =>
        /\ commandAt'[d] = commandAt[d] /\ does'[d] = does[d]
        /\ commandWallet'[d] = commandWallet[d] /\ report'[d] = report[d] /\ about'[d] = about[d]

\* A stop under way stays the stop of one.
LEMMA StopsOneStill ==
    ASSUME OneIsStopped,
           \A d \in NodeCommand : commandAt'[d] = "save" /\ does'[d] = "agent stop" =>
               commandAt[d] = "save" /\ does[d] = "agent stop" /\ about'[d] = about[d]
    PROVE  OneIsStopped'
<1>1. ASSUME NEW d \in NodeCommand, NEW x \in NodeCommand, NEW y \in NodeCommand,
             commandAt'[d] = "save", does'[d] = "agent stop", x \in about'[d], y \in about'[d]
      PROVE  x # d /\ y = x
  <2>1. commandAt[d] = "save" /\ does[d] = "agent stop" /\ x \in about[d] /\ y \in about[d]
    BY <1>1
  <2>2. QED
    BY <2>1 DEF OneIsStopped
<1>2. QED
  BY <1>1 DEF OneIsStopped

LEMMA CommandBeginKeeps ==
    ASSUME CommandIInv, NEW c \in NodeCommand, CommandBegin(c)
    PROVE  CommandIInv'
<1>1. CommandTypeOK
  BY DEF CommandIInv
<1>2. /\ UNCHANGED <<databaseHolder, agentTable, storedWallet, node_jobs, credits, sendsReported>>
      /\ OthersStay(c)
      /\ commandAt[c] = "new"
      /\ commandWallet'[c] = commandWallet[c]
      /\ \/ /\ commandAt'[c] = "open" /\ report'[c] = report[c] /\ about'[c] = about[c]
            /\ \A d \in NodeCommand : d # c => (d \in looked' <=> d \in looked)
         \/ /\ commandAt'[c] = "ask" /\ does'[c] = "network status" /\ looked' = looked
            /\ report'[c] = report[c] /\ about'[c] = about[c]
         \/ /\ commandAt'[c] = "print" /\ does'[c] = does[c] /\ looked' = looked
            /\ \/ report'[c] = "deployed" /\ \A b \in NodeCommand : b \in about'[c] => b = c
               \/ report'[c] = "no database" /\ \A b \in NodeCommand : b \notin about'[c]
               \/ report'[c] = "failed" /\ \A b \in NodeCommand : b \notin about'[c]
  <2> USE <1>1 DEF CommandGo, CommandTypeOK, OthersStay, Tell
  <2>1. PICK command \in OfFile \cup OfRuntime \cup OfWallet :
          IF command \in OfFile /\ ~databaseThere
          THEN /\ IF command = "network status"
                  THEN /\ CommandGo(c, "ask") /\ does' = [does EXCEPT ![c] = command]
                       /\ UNCHANGED <<report, about>>
                  ELSE CommandGo(c, "print") /\ WithoutDatabase(c, command) /\ UNCHANGED does
               /\ UNCHANGED looked
          ELSE /\ CommandGo(c, "open") /\ does' = [does EXCEPT ![c] = command]
               /\ looked' = looked \cup ({c} \cap {d \in NodeCommand : command = "agent run"})
               /\ UNCHANGED <<report, about>>
    BY DEF CommandBegin
  <2>2. /\ UNCHANGED <<databaseHolder, agentTable, storedWallet, commandWallet, node_jobs, credits, sendsReported>>
        /\ commandAt[c] = "new"
    BY DEF CommandBegin
  <2>3. CASE ~(command \in OfFile /\ ~databaseThere)
    BY <2>1, <2>2, <2>3
  <2>4. CASE command \in OfFile /\ ~databaseThere /\ command = "network status"
    BY <2>1, <2>2, <2>4
  <2>5. CASE command \in OfFile /\ ~databaseThere /\ command # "network status"
    <3>1. CommandGo(c, "print") /\ WithoutDatabase(c, command) /\ UNCHANGED <<does, looked>>
      BY <2>1, <2>5
    <3>2. CASE command = "agent run"
      <4>1. Tell(c, "deployed", {c})
        BY <3>1, <3>2 DEF WithoutDatabase
      <4>2. commandAt'[c] = "print" /\ report'[c] = "deployed" /\ about'[c] = {c} /\ does' = does /\ looked' = looked
        BY <3>1, <4>1
      <4>3. OthersStay(c)
        BY <3>1, <4>1, <2>2
      <4>4. \A b \in NodeCommand : b \in about'[c] => b = c
        BY <4>2
      <4>5. QED
        BY <2>2, <4>2, <4>3, <4>4
    <3>3. CASE command # "agent run"
      BY <3>1, <3>3, <2>2 DEF WithoutDatabase
    <3>4. QED
      BY <3>2, <3>3
  <2>6. QED
    BY <2>3, <2>4, <2>5
<1>6. CommandTypeOK'
  <2>1. DOMAIN report' = NodeCommand /\ about' \in [NodeCommand -> SUBSET NodeCommand]
    <3>1. \/ \E told : \E of \in SUBSET NodeCommand : Tell(c, told, of)
          \/ UNCHANGED <<report, about>>
      BY DEF CommandBegin, WithoutDatabase
    <3>2. QED
      BY <1>1, <3>1 DEF CommandTypeOK, Tell
  <2>2. commandWallet' \in [NodeCommand -> Wallet] /\ storedWallet' \in Wallet
    BY <1>1, <1>2, ProgramsAssumption DEF CommandBegin, CommandGo, CommandTypeOK,
       WithoutDatabase
  <2>3. does' \in [NodeCommand -> OfFile \cup OfRuntime \cup OfWallet \cup {"nothing"}]
    BY <1>1 DEF CommandBegin, CommandGo, CommandTypeOK, WithoutDatabase
  <2>4. /\ commandAt' \in [NodeCommand -> {"new", "open", "load", "credit", "work", "save", "ask",
                                           "print", "ended"}]
        /\ agentTable' \in [NodeCommand -> {"none", "running", "stopped"}]
    BY <1>1 DEF CommandBegin, CommandGo, CommandTypeOK, WithoutDatabase
  <2>5. /\ databaseThere' \in BOOLEAN /\ databaseHolder' \in NodeCommand \cup {NoCommand}
        /\ node_jobs' \in BOOLEAN
        /\ credits' \in Nat /\ looked' \subseteq NodeCommand /\ sendsReported' \subseteq NodeCommand
    BY <1>1 DEF CommandBegin, CommandGo, CommandTypeOK, WithoutDatabase
  <2>6. QED
    BY <2>1, <2>2, <2>3, <2>4, <2>5 DEF CommandTypeOK
<1>7. FileHeld'
  BY <1>2, KindsOfCommand DEF CommandIInv, OthersStay, FileHeld
<1>8. WalletLoaded'
  BY <1>2 DEF CommandIInv, OthersStay, WalletLoaded
<1>9. WalletToSave'
  BY <1>2 DEF CommandIInv, OthersStay, WalletToSave
<1>10. WalletShown'
  BY <1>2, KindsOfCommand DEF CommandIInv, OthersStay, WalletShown, FileHeld
<1>11. JobsOfOne'
  BY <1>2 DEF CommandIInv, OthersStay, JobsOfOne, Empties
<1>12. AgentsMade'
  BY <1>2 DEF CommandIInv, OthersStay, AgentsMade
<1>13. AgentsNamed'
  BY <1>2 DEF CommandIInv, OthersStay, AgentsNamed, AgentsMade
<1>14. StopsNamed'
  BY <1>2 DEF CommandIInv, OthersStay, StopsNamed
<1>15. OneIsStopped'
  <2>1. ASSUME NEW d \in NodeCommand, commandAt'[d] = "save"
        PROVE  commandAt[d] = "save" /\ does'[d] = does[d] /\ about'[d] = about[d]
    BY <1>2, <2>1 DEF OthersStay
  <2>2. QED
    BY <2>1, StopsOneStill DEF CommandIInv
<1>16. SendsSaved'
  BY <1>2 DEF CommandIInv, OthersStay, SendsSaved
<1>17. TokensAdded'
  BY <1>2 DEF CommandIInv, TokensAdded
<1>18. QED
  BY <1>1, <1>2, <1>6, <1>7, <1>8, <1>9, <1>10, <1>11, <1>12, <1>13, <1>14, <1>15, <1>16, <1>17
     DEF CommandIInv

LEMMA CommandOpenKeeps ==
    ASSUME CommandIInv, NEW c \in NodeCommand, CommandOpen(c)
    PROVE  CommandIInv'
<1>1. CommandTypeOK
  BY DEF CommandIInv
<1>2. /\ UNCHANGED <<agentTable, storedWallet, node_jobs, credits, looked, sendsReported>>
      /\ OthersStay(c)
      /\ commandAt[c] = "open"
      /\ commandWallet'[c] = commandWallet[c]
      /\ \/ /\ databaseHolder = NoCommand /\ databaseHolder' = c /\ does'[c] = does[c]
            /\ report'[c] = report[c] /\ about'[c] = about[c]
            /\ \/ commandAt'[c] = "work" /\ does[c] \in OfFile
               \/ commandAt'[c] = "load"
         \/ /\ databaseHolder' = databaseHolder /\ does'[c] = "nothing" /\ commandAt'[c] = "print"
            /\ report'[c] = "failed" /\ \A b \in NodeCommand : b \notin about'[c]
  BY <1>1 DEF CommandOpen, CommandGo, CommandTypeOK, OthersStay, Tell
<1>6. CommandTypeOK'
  <2>1. DOMAIN report' = NodeCommand /\ about' \in [NodeCommand -> SUBSET NodeCommand]
    BY <1>1 DEF CommandOpen, CommandGo, CommandTypeOK, Tell
  <2>2. commandWallet' \in [NodeCommand -> Wallet] /\ storedWallet' \in Wallet
    BY <1>1, <1>2, ProgramsAssumption DEF CommandOpen, CommandGo, CommandTypeOK
  <2>3. does' \in [NodeCommand -> OfFile \cup OfRuntime \cup OfWallet \cup {"nothing"}]
    BY <1>1 DEF CommandOpen, CommandGo, CommandTypeOK
  <2>4. /\ commandAt' \in [NodeCommand -> {"new", "open", "load", "credit", "work", "save", "ask",
                                           "print", "ended"}]
        /\ agentTable' \in [NodeCommand -> {"none", "running", "stopped"}]
    BY <1>1 DEF CommandOpen, CommandGo, CommandTypeOK
  <2>5. /\ databaseThere' \in BOOLEAN /\ databaseHolder' \in NodeCommand \cup {NoCommand}
        /\ node_jobs' \in BOOLEAN
        /\ credits' \in Nat /\ looked' \subseteq NodeCommand /\ sendsReported' \subseteq NodeCommand
    BY <1>1 DEF CommandOpen, CommandGo, CommandTypeOK
  <2>6. QED
    BY <2>1, <2>2, <2>3, <2>4, <2>5 DEF CommandTypeOK
<1>7. FileHeld'
  <2>1. CASE databaseHolder = NoCommand /\ databaseHolder' = c /\ does'[c] = does[c]
             /\ (commandAt'[c] = "load" \/ commandAt'[c] = "work")
    <3>1. \A d \in NodeCommand : databaseHolder # d
      BY <2>1, ProgramsAssumption
    <3>2. QED
      BY <1>2, <2>1, <3>1 DEF CommandIInv, OthersStay, FileHeld
  <2>2. CASE databaseHolder' = databaseHolder /\ does'[c] = "nothing" /\ commandAt'[c] = "print"
    BY <1>2, <2>2, KindsOfCommand DEF CommandIInv, OthersStay, FileHeld
  <2>3. QED
    BY <1>2, <2>1, <2>2
<1>8. WalletLoaded'
  BY <1>2, KindsOfCommand DEF CommandIInv, OthersStay, WalletLoaded
<1>9. WalletToSave'
  BY <1>2 DEF CommandIInv, OthersStay, WalletToSave
<1>10. WalletShown'
  BY <1>2 DEF CommandIInv, OthersStay, WalletShown
<1>11. JobsOfOne'
  BY <1>2 DEF CommandIInv, OthersStay, JobsOfOne, Empties
<1>12. AgentsMade'
  BY <1>2 DEF CommandIInv, OthersStay, AgentsMade
<1>13. AgentsNamed'
  BY <1>2 DEF CommandIInv, OthersStay, AgentsNamed
<1>14. StopsNamed'
  BY <1>2 DEF CommandIInv, OthersStay, StopsNamed
<1>15. OneIsStopped'
  <2>1. ASSUME NEW d \in NodeCommand, commandAt'[d] = "save"
        PROVE  commandAt[d] = "save" /\ does'[d] = does[d] /\ about'[d] = about[d]
    BY <1>2, <2>1 DEF OthersStay
  <2>2. QED
    BY <2>1, StopsOneStill DEF CommandIInv
<1>16. SendsSaved'
  BY <1>2 DEF CommandIInv, OthersStay, SendsSaved
<1>17. TokensAdded'
  BY <1>2 DEF CommandIInv, TokensAdded
<1>18. QED
  BY <1>1, <1>2, <1>6, <1>7, <1>8, <1>9, <1>10, <1>11, <1>12, <1>13, <1>14, <1>15, <1>16, <1>17
     DEF CommandIInv

LEMMA EndKeeps ==
    ASSUME CommandIInv, NEW c \in NodeCommand, End(c)
    PROVE  CommandIInv'
<1>1. CommandTypeOK
  BY DEF CommandIInv
<1>2. /\ UNCHANGED <<agentTable, storedWallet, credits, looked, sendsReported>>
      /\ OthersStay(c)
      /\ commandAt[c] \notin {"new", "ended"} /\ commandAt'[c] = "ended" /\ does'[c] = "nothing"
      /\ databaseHolder' = IF databaseHolder = c THEN NoCommand ELSE databaseHolder
      /\ node_jobs' = (node_jobs /\ ~(does[c] = "serve" /\ databaseHolder = c))
      /\ \/ report'[c] = report[c] /\ about'[c] = about[c]
         \/ report'[c] = "nothing" /\ \A b \in NodeCommand : b \notin about'[c]
  BY <1>1 DEF End, CommandGo, CommandTypeOK, OthersStay, Tell
<1>6. CommandTypeOK'
  <2>1. DOMAIN report' = NodeCommand /\ about' \in [NodeCommand -> SUBSET NodeCommand]
    BY <1>1 DEF End, CommandGo, CommandTypeOK, Tell
  <2>2. commandWallet' \in [NodeCommand -> Wallet] /\ storedWallet' \in Wallet
    BY <1>1, <1>2, ProgramsAssumption DEF End, CommandGo, CommandTypeOK, NoTokens, Wallet
  <2>3. does' \in [NodeCommand -> OfFile \cup OfRuntime \cup OfWallet \cup {"nothing"}]
    BY <1>1 DEF End, CommandGo, CommandTypeOK
  <2>4. /\ commandAt' \in [NodeCommand -> {"new", "open", "load", "credit", "work", "save", "ask",
                                           "print", "ended"}]
        /\ agentTable' \in [NodeCommand -> {"none", "running", "stopped"}]
    BY <1>1 DEF End, CommandGo, CommandTypeOK
  <2>5. /\ databaseThere' \in BOOLEAN /\ databaseHolder' \in NodeCommand \cup {NoCommand}
        /\ node_jobs' \in BOOLEAN
        /\ credits' \in Nat /\ looked' \subseteq NodeCommand /\ sendsReported' \subseteq NodeCommand
    BY <1>1 DEF End, CommandGo, CommandTypeOK
  <2>6. QED
    BY <2>1, <2>2, <2>3, <2>4, <2>5 DEF CommandTypeOK
<1>7. FileHeld'
  BY <1>2, KindsOfCommand DEF CommandIInv, OthersStay, FileHeld
<1>8. WalletLoaded'
  BY <1>2 DEF CommandIInv, OthersStay, WalletLoaded
<1>9. WalletToSave'
  BY <1>2 DEF CommandIInv, OthersStay, WalletToSave
<1>10. WalletShown'
  BY <1>2 DEF CommandIInv, OthersStay, WalletShown
<1>11. JobsOfOne'
  BY <1>2, KindsOfCommand DEF CommandIInv, OthersStay, JobsOfOne, FileHeld
<1>12. AgentsMade'
  BY <1>2 DEF CommandIInv, OthersStay, AgentsMade
<1>13. AgentsNamed'
  BY <1>2 DEF CommandIInv, OthersStay, AgentsNamed
<1>14. StopsNamed'
  BY <1>2 DEF CommandIInv, OthersStay, StopsNamed
<1>15. OneIsStopped'
  <2>1. ASSUME NEW d \in NodeCommand, commandAt'[d] = "save"
        PROVE  commandAt[d] = "save" /\ does'[d] = does[d] /\ about'[d] = about[d]
    BY <1>2, <2>1 DEF OthersStay
  <2>2. QED
    BY <2>1, StopsOneStill DEF CommandIInv
<1>16. SendsSaved'
  BY <1>2 DEF CommandIInv, OthersStay, SendsSaved
<1>17. TokensAdded'
  BY <1>2 DEF CommandIInv, TokensAdded
<1>18. QED
  BY <1>1, <1>2, <1>6, <1>7, <1>8, <1>9, <1>10, <1>11, <1>12, <1>13, <1>14, <1>15, <1>16, <1>17
     DEF CommandIInv

LEMMA LoadWalletKeeps ==
    ASSUME CommandIInv, NEW c \in NodeCommand, LoadWallet(c)
    PROVE  CommandIInv'
<1>1. CommandTypeOK
  BY DEF CommandIInv
<1>2. /\ UNCHANGED <<databaseHolder, agentTable, storedWallet, node_jobs, credits, looked, sendsReported>>
      /\ OthersStay(c)
      /\ commandAt[c] = "load" /\ commandWallet'[c] = storedWallet
      /\ commandAt'[c] = "work" \/ (commandAt'[c] = "credit" /\ does[c] \in OfTokens)
      /\ does'[c] = does[c] /\ report'[c] = report[c] /\ about'[c] = about[c]
  BY <1>1 DEF LoadWallet, CommandGo, CommandTypeOK, OthersStay, Tell, get_setting, OfTokens
<1>6. CommandTypeOK'
  <2>1. DOMAIN report' = NodeCommand /\ about' \in [NodeCommand -> SUBSET NodeCommand]
    BY <1>1 DEF LoadWallet, CommandGo, CommandTypeOK, get_setting, Tell
  <2>2. commandWallet' \in [NodeCommand -> Wallet] /\ storedWallet' \in Wallet
    BY <1>1, <1>2, ProgramsAssumption DEF LoadWallet, CommandGo, CommandTypeOK, get_setting
  <2>3. does' \in [NodeCommand -> OfFile \cup OfRuntime \cup OfWallet \cup {"nothing"}]
    BY <1>1 DEF LoadWallet, CommandGo, CommandTypeOK, get_setting
  <2>4. /\ commandAt' \in [NodeCommand -> {"new", "open", "load", "credit", "work", "save", "ask",
                                           "print", "ended"}]
        /\ agentTable' \in [NodeCommand -> {"none", "running", "stopped"}]
    BY <1>1 DEF LoadWallet, CommandGo, CommandTypeOK, get_setting
  <2>5. /\ databaseThere' \in BOOLEAN /\ databaseHolder' \in NodeCommand \cup {NoCommand}
        /\ node_jobs' \in BOOLEAN
        /\ credits' \in Nat /\ looked' \subseteq NodeCommand /\ sendsReported' \subseteq NodeCommand
    BY <1>1 DEF LoadWallet, CommandGo, CommandTypeOK, get_setting
  <2>6. QED
    BY <2>1, <2>2, <2>3, <2>4, <2>5 DEF CommandTypeOK
<1>7. FileHeld'
  BY <1>2, KindsOfCommand DEF CommandIInv, OthersStay, FileHeld
<1>8. WalletLoaded'
  BY <1>2 DEF CommandIInv, OthersStay, WalletLoaded
<1>9. WalletToSave'
  BY <1>2 DEF CommandIInv, OthersStay, WalletToSave
<1>10. WalletShown'
  BY <1>2 DEF CommandIInv, OthersStay, WalletShown
<1>11. JobsOfOne'
  BY <1>2 DEF CommandIInv, OthersStay, JobsOfOne
<1>12. AgentsMade'
  BY <1>2 DEF CommandIInv, OthersStay, AgentsMade
<1>13. AgentsNamed'
  BY <1>2 DEF CommandIInv, OthersStay, AgentsNamed
<1>14. StopsNamed'
  BY <1>2 DEF CommandIInv, OthersStay, StopsNamed
<1>15. OneIsStopped'
  <2>1. ASSUME NEW d \in NodeCommand, commandAt'[d] = "save"
        PROVE  commandAt[d] = "save" /\ does'[d] = does[d] /\ about'[d] = about[d]
    BY <1>2, <2>1 DEF OthersStay
  <2>2. QED
    BY <2>1, StopsOneStill DEF CommandIInv
<1>16. SendsSaved'
  BY <1>2 DEF CommandIInv, OthersStay, SendsSaved
<1>17. TokensAdded'
  BY <1>2 DEF CommandIInv, TokensAdded
<1>18. QED
  BY <1>1, <1>2, <1>6, <1>7, <1>8, <1>9, <1>10, <1>11, <1>12, <1>13, <1>14, <1>15, <1>16, <1>17
     DEF CommandIInv

LEMMA CreditRuntimeKeeps ==
    ASSUME CommandIInv, NEW c \in NodeCommand, CreditRuntime(c)
    PROVE  CommandIInv'
<1>1. CommandTypeOK
  BY DEF CommandIInv
<1>2. /\ UNCHANGED <<databaseHolder, agentTable, node_jobs, looked, sendsReported>>
      /\ OthersStay(c)
      /\ commandAt[c] = "credit" /\ commandAt'[c] = "work"
      /\ does'[c] = does[c] /\ report'[c] = report[c] /\ about'[c] = about[c]
  BY <1>1 DEF CreditRuntime, CommandGo, CommandTypeOK, OthersStay, Tell, store_setting
<1>3. /\ storedWallet' = commandWallet'[c] /\ credits' = credits + 1
      /\ commandWallet'[c] = [commandWallet[c] EXCEPT !.available = @ + CreditOfRuntime]
  BY <1>1 DEF CreditRuntime, CommandTypeOK, store_setting
<1>4. commandWallet[c] = storedWallet
  BY <1>2 DEF CommandIInv, FileHeld, WalletLoaded
<1>6. CommandTypeOK'
  <2>1. DOMAIN report' = NodeCommand /\ about' \in [NodeCommand -> SUBSET NodeCommand]
    BY <1>1 DEF CreditRuntime, CommandGo, CommandTypeOK, store_setting, Tell
  <2>2. commandWallet' \in [NodeCommand -> Wallet] /\ storedWallet' \in Wallet
    BY <1>1, <1>2, ProgramsAssumption DEF CreditRuntime, CommandGo, CommandTypeOK,
       store_setting, Wallet
  <2>3. does' \in [NodeCommand -> OfFile \cup OfRuntime \cup OfWallet \cup {"nothing"}]
    BY <1>1 DEF CreditRuntime, CommandGo, CommandTypeOK, store_setting
  <2>4. /\ commandAt' \in [NodeCommand -> {"new", "open", "load", "credit", "work", "save", "ask",
                                           "print", "ended"}]
        /\ agentTable' \in [NodeCommand -> {"none", "running", "stopped"}]
    BY <1>1 DEF CreditRuntime, CommandGo, CommandTypeOK, store_setting
  <2>5. /\ databaseThere' \in BOOLEAN /\ databaseHolder' \in NodeCommand \cup {NoCommand}
        /\ node_jobs' \in BOOLEAN
        /\ credits' \in Nat /\ looked' \subseteq NodeCommand /\ sendsReported' \subseteq NodeCommand
    BY <1>1 DEF CreditRuntime, CommandGo, CommandTypeOK, store_setting
  <2>6. QED
    BY <2>1, <2>2, <2>3, <2>4, <2>5 DEF CommandTypeOK
<1>7. FileHeld'
  BY <1>2, KindsOfCommand DEF CommandIInv, OthersStay, FileHeld
<1>8. WalletLoaded'
  BY <1>2, <1>3, <1>4 DEF CommandIInv, OthersStay, WalletLoaded, FileHeld
<1>9. WalletToSave'
  BY <1>2, <1>3, <1>4 DEF CommandIInv, OthersStay, WalletToSave, FileHeld
<1>10. WalletShown'
  BY <1>2, <1>3, <1>4, KindsOfCommand DEF CommandIInv, OthersStay, WalletShown, FileHeld
<1>11. JobsOfOne'
  BY <1>2 DEF CommandIInv, OthersStay, JobsOfOne
<1>12. AgentsMade'
  BY <1>2 DEF CommandIInv, OthersStay, AgentsMade
<1>13. AgentsNamed'
  BY <1>2 DEF CommandIInv, OthersStay, AgentsNamed
<1>14. StopsNamed'
  BY <1>2 DEF CommandIInv, OthersStay, StopsNamed
<1>15. OneIsStopped'
  <2>1. ASSUME NEW d \in NodeCommand, commandAt'[d] = "save"
        PROVE  commandAt[d] = "save" /\ does'[d] = does[d] /\ about'[d] = about[d]
    BY <1>2, <2>1 DEF OthersStay
  <2>2. QED
    BY <2>1, StopsOneStill DEF CommandIInv
<1>16. SendsSaved'
  BY <1>2 DEF CommandIInv, OthersStay, SendsSaved
<1>17. TokensAdded'
  <2>1. /\ storedWallet'.available = storedWallet.available + CreditOfRuntime
        /\ storedWallet'.in_escrow = storedWallet.in_escrow /\ storedWallet'.staked = storedWallet.staked
    BY <1>1, <1>3, <1>4 DEF CommandTypeOK, Wallet
  <2>2. CreditOfRuntime * (credits + 1) = CreditOfRuntime * credits + CreditOfRuntime
    BY <1>1, ProgramsAssumption DEF CommandTypeOK
  <2>3. /\ storedWallet.available \in Nat /\ storedWallet.in_escrow \in Nat /\ storedWallet.staked \in Nat
        /\ credits \in Nat /\ CreditOfRuntime * credits \in Int /\ credits' = credits + 1
    BY <1>1, <1>3, ProgramsAssumption DEF CommandTypeOK, Wallet
  <2>4. /\ storedWallet'.available + storedWallet'.in_escrow + storedWallet'.staked = CreditOfRuntime * credits'
        /\ storedWallet'.in_escrow = storedWallet.in_escrow
    BY <2>1, <2>2, <2>3, ProgramsAssumption DEF CommandIInv, TokensAdded
  <2>5. QED
    BY <1>2, <2>4 DEF CommandIInv, TokensAdded
<1>18. QED
  BY <1>1, <1>2, <1>6, <1>7, <1>8, <1>9, <1>10, <1>11, <1>12, <1>13, <1>14, <1>15, <1>16, <1>17
     DEF CommandIInv

LEMMA SpendKeeps ==
    ASSUME CommandIInv, NEW c \in NodeCommand, Spend(c)
    PROVE  CommandIInv'
<1>1. CommandTypeOK
  BY DEF CommandIInv
<1>2. /\ UNCHANGED <<databaseHolder, agentTable, storedWallet, node_jobs, credits, looked, sendsReported>>
      /\ OthersStay(c)
      /\ commandAt[c] = "work" /\ does[c] \in Spending
      /\ does'[c] = does[c]
      /\ \/ commandAt'[c] = "print" /\ report'[c] = "failed" /\ \A b \in NodeCommand : b \notin about'[c]
         \/ commandAt'[c] = "save" /\ report'[c] = report[c] /\ about'[c] = about[c]
  BY <1>1 DEF Spend, CommandGo, CommandTypeOK, OthersStay, Tell
<1>3. commandWallet[c] = storedWallet /\ storedWallet \in Wallet
  BY <1>1, <1>2, KindsOfCommand DEF CommandIInv, WalletLoaded, CommandTypeOK
<1>4. commandAt'[c] = "save" =>
        /\ IF does[c] = "unstake" THEN storedWallet.staked > 0 ELSE storedWallet.available > 0
        /\ commandWallet' = [commandWallet EXCEPT ![c] = Moved(storedWallet, does[c])]
  BY <1>1, <1>3 DEF Spend, CommandGo, CommandTypeOK, Wallet
<1>5. commandAt'[c] # "save" => UNCHANGED commandWallet
  BY <1>1 DEF Spend, CommandGo, CommandTypeOK
<1>6. CommandTypeOK'
  <2>1. DOMAIN report' = NodeCommand /\ about' \in [NodeCommand -> SUBSET NodeCommand]
    BY <1>1 DEF Spend, CommandGo, CommandTypeOK, Tell
  <2>2. commandWallet' \in [NodeCommand -> Wallet] /\ storedWallet' \in Wallet
    <3>1. commandAt'[c] = "save" => Moved(storedWallet, does[c]) \in Wallet
      <4>1. ASSUME NEW x \in Nat, NEW y \in Nat, NEW z \in Nat,
                   storedWallet = [available |-> x, in_escrow |-> y, staked |-> z], commandAt'[c] = "save"
            PROVE  Moved(storedWallet, does[c]) \in Wallet
        <5>1. /\ does[c] \in {"send", "stake", "unstake"}
              /\ (does[c] = "unstake" => z > 0) /\ (does[c] # "unstake" => x > 0)
          BY <1>2, <1>4, <4>1 DEF Spending
        <5>2. CASE does[c] = "send"
          <6>1. Moved(storedWallet, does[c]) = [available |-> x - 1, in_escrow |-> y + 1, staked |-> z]
            BY <4>1, <5>2 DEF Moved
          <6>2. QED
            BY <5>1, <5>2, <6>1 DEF Wallet
        <5>3. CASE does[c] = "stake"
          <6>1. Moved(storedWallet, does[c]) = [available |-> x - 1, in_escrow |-> y, staked |-> z + 1]
            BY <4>1, <5>3 DEF Moved
          <6>2. QED
            BY <5>1, <5>3, <6>1 DEF Wallet
        <5>4. CASE does[c] = "unstake"
          <6>1. Moved(storedWallet, does[c]) = [available |-> x + 1, in_escrow |-> y, staked |-> z - 1]
            BY <4>1, <5>4 DEF Moved
          <6>2. QED
            BY <5>1, <5>4, <6>1 DEF Wallet
        <5>5. QED
          BY <5>1, <5>2, <5>3, <5>4
      <4>2. QED
        BY <1>3, <4>1 DEF Wallet
    <3>2. QED
      BY <1>1, <1>2, <1>4, <1>5, <3>1 DEF CommandTypeOK
  <2>3. does' \in [NodeCommand -> OfFile \cup OfRuntime \cup OfWallet \cup {"nothing"}]
    BY <1>1 DEF Spend, CommandGo, CommandTypeOK
  <2>4. /\ commandAt' \in [NodeCommand -> {"new", "open", "load", "credit", "work", "save", "ask",
                                           "print", "ended"}]
        /\ agentTable' \in [NodeCommand -> {"none", "running", "stopped"}]
    BY <1>1 DEF Spend, CommandGo, CommandTypeOK
  <2>5. /\ databaseThere' \in BOOLEAN /\ databaseHolder' \in NodeCommand \cup {NoCommand}
        /\ node_jobs' \in BOOLEAN
        /\ credits' \in Nat /\ looked' \subseteq NodeCommand /\ sendsReported' \subseteq NodeCommand
    BY <1>1 DEF Spend, CommandGo, CommandTypeOK
  <2>6. QED
    BY <2>1, <2>2, <2>3, <2>4, <2>5 DEF CommandTypeOK
<1>7. FileHeld'
  BY <1>2, KindsOfCommand DEF CommandIInv, OthersStay, FileHeld
<1>8. WalletLoaded'
  BY <1>2 DEF CommandIInv, OthersStay, WalletLoaded
<1>9. WalletToSave'
  <2>1. ASSUME NEW d \in NodeCommand, commandAt'[d] = "save", does'[d] \in Spending, d # c
        PROVE  commandAt[d] = "save" /\ does[d] = does'[d] /\ commandWallet'[d] = commandWallet[d]
    BY <1>2, <2>1 DEF OthersStay
  <2>2. commandAt'[c] = "save" => commandWallet'[c] = Moved(storedWallet, does[c])
    BY <1>1, <1>4 DEF CommandTypeOK
  <2>3. QED
    BY <1>2, <1>4, <2>1, <2>2 DEF CommandIInv, WalletToSave
<1>10. WalletShown'
  BY <1>2, <1>5 DEF CommandIInv, OthersStay, WalletShown
<1>11. JobsOfOne'
  BY <1>2, KindsOfCommand DEF CommandIInv, OthersStay, JobsOfOne, Empties
<1>12. AgentsMade'
  BY <1>2 DEF CommandIInv, OthersStay, AgentsMade
<1>13. AgentsNamed'
  BY <1>2 DEF CommandIInv, OthersStay, AgentsNamed
<1>14. StopsNamed'
  BY <1>2 DEF CommandIInv, OthersStay, StopsNamed
<1>15. OneIsStopped'
  <2>1. ASSUME NEW d \in NodeCommand, commandAt'[d] = "save", does'[d] = "agent stop"
        PROVE  commandAt[d] = "save" /\ does[d] = "agent stop" /\ about'[d] = about[d]
    BY <1>2, <2>1, KindsOfCommand DEF OthersStay
  <2>2. QED
    BY <2>1, StopsOneStill DEF CommandIInv
<1>16. SendsSaved'
  BY <1>2 DEF CommandIInv, OthersStay, SendsSaved
<1>17. TokensAdded'
  BY <1>2 DEF CommandIInv, TokensAdded
<1>18. QED
  BY <1>1, <1>2, <1>6, <1>7, <1>8, <1>9, <1>10, <1>11, <1>12, <1>13, <1>14, <1>15, <1>16, <1>17
     DEF CommandIInv

LEMMA SaveWalletKeeps ==
    ASSUME CommandIInv, NEW c \in NodeCommand, SaveWallet(c)
    PROVE  CommandIInv'
<1>1. CommandTypeOK
  BY DEF CommandIInv
<1>2. /\ UNCHANGED <<databaseHolder, agentTable, node_jobs, credits, looked>>
      /\ OthersStay(c)
      /\ commandAt[c] = "save" /\ does[c] \in Spending /\ commandAt'[c] = "print"
      /\ does'[c] = does[c] /\ commandWallet'[c] = commandWallet[c]
      /\ storedWallet' = commandWallet[c]
      /\ report'[c] = "done" /\ \A b \in NodeCommand : b \notin about'[c]
      /\ IF does[c] = "send" THEN sendsReported' = sendsReported \cup {c} ELSE sendsReported' = sendsReported
  BY <1>1 DEF SaveWallet, CommandGo, CommandTypeOK, OthersStay, Tell, store_setting
<1>6. CommandTypeOK'
  <2>1. DOMAIN report' = NodeCommand /\ about' \in [NodeCommand -> SUBSET NodeCommand]
    BY <1>1 DEF SaveWallet, CommandGo, CommandTypeOK, store_setting, Tell
  <2>2. commandWallet' \in [NodeCommand -> Wallet] /\ storedWallet' \in Wallet
    BY <1>1, <1>2, ProgramsAssumption DEF SaveWallet, CommandGo, CommandTypeOK, store_setting
  <2>3. does' \in [NodeCommand -> OfFile \cup OfRuntime \cup OfWallet \cup {"nothing"}]
    BY <1>1 DEF SaveWallet, CommandGo, CommandTypeOK, store_setting
  <2>4. /\ commandAt' \in [NodeCommand -> {"new", "open", "load", "credit", "work", "save", "ask",
                                           "print", "ended"}]
        /\ agentTable' \in [NodeCommand -> {"none", "running", "stopped"}]
    BY <1>1 DEF SaveWallet, CommandGo, CommandTypeOK, store_setting
  <2>5. /\ databaseThere' \in BOOLEAN /\ databaseHolder' \in NodeCommand \cup {NoCommand}
        /\ node_jobs' \in BOOLEAN
        /\ credits' \in Nat /\ looked' \subseteq NodeCommand /\ sendsReported' \subseteq NodeCommand
    BY <1>1 DEF SaveWallet, CommandGo, CommandTypeOK, store_setting
  <2>6. QED
    BY <2>1, <2>2, <2>3, <2>4, <2>5 DEF CommandTypeOK
<1>7. FileHeld'
  BY <1>2, KindsOfCommand DEF CommandIInv, OthersStay, FileHeld
<1>8. WalletLoaded'
  BY <1>2 DEF CommandIInv, OthersStay, WalletLoaded, FileHeld
<1>9. WalletToSave'
  BY <1>2 DEF CommandIInv, OthersStay, WalletToSave, FileHeld
<1>10. WalletShown'
  BY <1>2, KindsOfCommand DEF CommandIInv, OthersStay, WalletShown, FileHeld
<1>11. JobsOfOne'
  BY <1>2 DEF CommandIInv, OthersStay, JobsOfOne, Empties
<1>12. AgentsMade'
  BY <1>2 DEF CommandIInv, OthersStay, AgentsMade
<1>13. AgentsNamed'
  BY <1>2 DEF CommandIInv, OthersStay, AgentsNamed
<1>14. StopsNamed'
  BY <1>2 DEF CommandIInv, OthersStay, StopsNamed
<1>15. OneIsStopped'
  <2>1. ASSUME NEW d \in NodeCommand, commandAt'[d] = "save"
        PROVE  commandAt[d] = "save" /\ does'[d] = does[d] /\ about'[d] = about[d]
    BY <1>2, <2>1 DEF OthersStay
  <2>2. QED
    BY <2>1, StopsOneStill DEF CommandIInv
<1>16. SendsSaved'
  BY <1>2 DEF CommandIInv, OthersStay, SendsSaved
<1>17. TokensAdded'
  <2>1. storedWallet' = Moved(storedWallet, does[c]) /\ c \notin sendsReported
    BY <1>2 DEF CommandIInv, WalletToSave, SendsSaved
  <2>2. IF does[c] = "unstake" THEN storedWallet.staked > 0 ELSE storedWallet.available > 0
    BY <1>2 DEF CommandIInv, WalletToSave
  <2>3. /\ storedWallet'.available + storedWallet'.in_escrow + storedWallet'.staked
             = storedWallet.available + storedWallet.in_escrow + storedWallet.staked
        /\ storedWallet'.in_escrow = storedWallet.in_escrow + (IF does[c] = "send" THEN 1 ELSE 0)
        /\ storedWallet.in_escrow \in Nat
    BY <1>1, <2>1, <2>2 DEF CommandTypeOK, Moved, Wallet
  <2>4. /\ IsFiniteSet(sendsReported) /\ Cardinality(sendsReported) \in Nat
        /\ storedWallet.in_escrow >= Cardinality(sendsReported)
    BY FS_CardinalityType DEF CommandIInv, TokensAdded
  <2>5. /\ IsFiniteSet(sendsReported')
        /\ Cardinality(sendsReported') = Cardinality(sendsReported) + (IF does[c] = "send" THEN 1 ELSE 0)
    <3>1. CASE does[c] = "send"
      <4>1. /\ IsFiniteSet(sendsReported \cup {c})
            /\ Cardinality(sendsReported \cup {c}) = Cardinality(sendsReported) + 1
        BY <2>1, <2>4, FS_AddElement
      <4>2. QED
        BY <1>2, <3>1, <4>1
    <3>2. CASE does[c] # "send"
      BY <1>2, <2>4, <3>2
    <3>3. QED
      BY <3>1, <3>2
  <2>6. storedWallet'.in_escrow >= Cardinality(sendsReported')
    BY <2>3, <2>4, <2>5
  <2>7. QED
    BY <1>2, <2>3, <2>5, <2>6 DEF CommandIInv, TokensAdded
<1>18. QED
  BY <1>1, <1>2, <1>6, <1>7, <1>8, <1>9, <1>10, <1>11, <1>12, <1>13, <1>14, <1>15, <1>16, <1>17
     DEF CommandIInv

LEMMA RunAgentKeeps ==
    ASSUME CommandIInv, NEW c \in NodeCommand, RunAgent(c)
    PROVE  CommandIInv'
<1>1. CommandTypeOK
  BY DEF CommandIInv
<1>2. /\ UNCHANGED <<databaseHolder, storedWallet, node_jobs, credits, looked, sendsReported>>
      /\ OthersStay(c)
      /\ commandAt[c] = "work" /\ does[c] = "agent run" /\ commandAt'[c] = "print"
      /\ does'[c] = does[c] /\ commandWallet'[c] = commandWallet[c]
      /\ report'[c] = "deployed" /\ \A b \in NodeCommand : b \in about'[c] => b = c
      /\ agentTable'[c] = "running" /\ \A d \in NodeCommand : d # c => agentTable'[d] = agentTable[d]
  BY <1>1 DEF RunAgent, CommandGo, CommandTypeOK, OthersStay, Tell, store_agent
<1>6. CommandTypeOK'
  <2>1. DOMAIN report' = NodeCommand /\ about' \in [NodeCommand -> SUBSET NodeCommand]
    BY <1>1 DEF RunAgent, CommandGo, CommandTypeOK, store_agent, Tell
  <2>2. commandWallet' \in [NodeCommand -> Wallet] /\ storedWallet' \in Wallet
    BY <1>1, <1>2, ProgramsAssumption DEF RunAgent, CommandGo, CommandTypeOK, store_agent
  <2>3. does' \in [NodeCommand -> OfFile \cup OfRuntime \cup OfWallet \cup {"nothing"}]
    BY <1>1 DEF RunAgent, CommandGo, CommandTypeOK, store_agent
  <2>4. /\ commandAt' \in [NodeCommand -> {"new", "open", "load", "credit", "work", "save", "ask",
                                           "print", "ended"}]
        /\ agentTable' \in [NodeCommand -> {"none", "running", "stopped"}]
    BY <1>1 DEF RunAgent, CommandGo, CommandTypeOK, store_agent
  <2>5. /\ databaseThere' \in BOOLEAN /\ databaseHolder' \in NodeCommand \cup {NoCommand}
        /\ node_jobs' \in BOOLEAN
        /\ credits' \in Nat /\ looked' \subseteq NodeCommand /\ sendsReported' \subseteq NodeCommand
    BY <1>1 DEF RunAgent, CommandGo, CommandTypeOK, store_agent
  <2>6. QED
    BY <2>1, <2>2, <2>3, <2>4, <2>5 DEF CommandTypeOK
<1>7. FileHeld'
  BY <1>2, KindsOfCommand DEF CommandIInv, OthersStay, FileHeld
<1>8. WalletLoaded'
  BY <1>2 DEF CommandIInv, OthersStay, WalletLoaded
<1>9. WalletToSave'
  BY <1>2 DEF CommandIInv, OthersStay, WalletToSave
<1>10. WalletShown'
  BY <1>2, KindsOfCommand DEF CommandIInv, OthersStay, WalletShown
<1>11. JobsOfOne'
  BY <1>2 DEF CommandIInv, OthersStay, JobsOfOne, Empties
<1>12. AgentsMade'
  BY <1>2 DEF CommandIInv, OthersStay, AgentsMade
<1>13. AgentsNamed'
  <2>1. ASSUME NEW d \in NodeCommand, NEW a \in NodeCommand, a \in about'[d]
        PROVE  commandAt'[d] # "new" /\ (agentTable'[a] # "none" \/ (a = d /\ d \notin looked'))
    <3>1. CASE d = c
      BY <1>2, <2>1, <3>1
    <3>2. CASE d # c
      <4>1. a \in about[d] /\ commandAt'[d] = commandAt[d] /\ looked' = looked
        BY <1>2, <2>1, <3>2 DEF OthersStay
      <4>2. commandAt[d] # "new" /\ (agentTable[a] # "none" \/ (a = d /\ d \notin looked))
        BY <4>1 DEF CommandIInv, AgentsNamed
      <4>3. agentTable[a] # "none" => agentTable'[a] # "none"
        BY <1>2
      <4>4. QED
        BY <4>1, <4>2, <4>3
    <3>3. QED
      BY <3>1, <3>2
  <2>2. QED
    BY <2>1 DEF AgentsNamed
<1>14. StopsNamed'
  <2>1. ASSUME NEW d \in NodeCommand, report'[d] = "stopped"
        PROVE  report[d] = "stopped" /\ about'[d] = about[d]
    BY <1>2, <2>1 DEF OthersStay
  <2>2. agentTable[c] # "stopped" /\ \A b \in NodeCommand : b # c => agentTable'[b] = agentTable[b]
    BY <1>2 DEF CommandIInv, AgentsMade
  <2>3. QED
    BY <2>1, <2>2 DEF CommandIInv, StopsNamed
<1>15. OneIsStopped'
  <2>1. ASSUME NEW d \in NodeCommand, commandAt'[d] = "save"
        PROVE  commandAt[d] = "save" /\ does'[d] = does[d] /\ about'[d] = about[d]
    BY <1>2, <2>1 DEF OthersStay
  <2>2. QED
    BY <2>1, StopsOneStill DEF CommandIInv
<1>16. SendsSaved'
  BY <1>2 DEF CommandIInv, OthersStay, SendsSaved
<1>17. TokensAdded'
  BY <1>2 DEF CommandIInv, TokensAdded
<1>18. QED
  BY <1>1, <1>2, <1>6, <1>7, <1>8, <1>9, <1>10, <1>11, <1>12, <1>13, <1>14, <1>15, <1>16, <1>17
     DEF CommandIInv

LEMMA StopAgentKeeps ==
    ASSUME CommandIInv, NEW c \in NodeCommand, StopAgent(c)
    PROVE  CommandIInv'
<1>1. CommandTypeOK
  BY DEF CommandIInv
<1>2. /\ UNCHANGED <<databaseHolder, storedWallet, node_jobs, credits, looked, sendsReported>>
      /\ does[c] = "agent stop" /\ commandAt[c] \in {"work", "save"}
      /\ does' = does /\ commandWallet' = commandWallet /\ UNCHANGED databaseThere
  BY DEF StopAgent
<1>3. \/ /\ commandAt[c] = "work" /\ agentTable' = agentTable
         /\ \/ CommandGo(c, "print") /\ Tell(c, "failed", {})
            \/ \E a \in NodeCommand \ {c} :
                 agentTable[a] # "none" /\ CommandGo(c, "save") /\ Tell(c, "nothing", {a})
      \/ /\ commandAt[c] = "save" /\ CommandGo(c, "print") /\ Tell(c, "stopped", about[c])
         /\ \E a \in about[c] : agentTable' = [agentTable EXCEPT ![a] = "stopped"]
  BY DEF StopAgent, get_agent, store_agent
<1>4. CASE /\ commandAt[c] = "work" /\ agentTable' = agentTable
           /\ CommandGo(c, "print") /\ Tell(c, "failed", {})
  <2>1. /\ OthersStay(c) /\ commandAt'[c] = "print" /\ report'[c] = "failed"
        /\ \A b \in NodeCommand : b \notin about'[c]
    BY <1>1, <1>2, <1>4 DEF CommandTypeOK, OthersStay, CommandGo, Tell
  <2>2. CommandTypeOK'
    BY <1>1, <1>2, <1>4 DEF CommandTypeOK, CommandGo, Tell
  <2>3. FileHeld' /\ WalletLoaded' /\ WalletToSave' /\ TokensAdded'
    <3>1. FileHeld'
      BY <1>2, <2>1, KindsOfCommand DEF CommandIInv, OthersStay, FileHeld
    <3>2. WalletLoaded' /\ WalletToSave'
      BY <1>2, <2>1 DEF CommandIInv, OthersStay, WalletLoaded, WalletToSave
    <3>3. QED
      BY <3>1, <3>2, <1>2 DEF CommandIInv, TokensAdded
  <2>4. WalletShown' /\ JobsOfOne'
    BY <1>2, <2>1, KindsOfCommand DEF CommandIInv, OthersStay, WalletShown, JobsOfOne, Empties
  <2>5. AgentsMade' /\ AgentsNamed'
    BY <1>2, <1>4, <2>1 DEF CommandIInv, OthersStay, AgentsMade, AgentsNamed
  <2>6. StopsNamed' /\ OneIsStopped' /\ SendsSaved'
    <3>1. StopsNamed' /\ SendsSaved'
      <4>1. ASSUME NEW d \in NodeCommand, report'[d] = "stopped"
            PROVE  report[d] = "stopped" /\ about'[d] = about[d]
        BY <2>1, <4>1 DEF OthersStay
      <4>2. StopsNamed'
        BY <1>4, <4>1 DEF CommandIInv, StopsNamed
      <4>3. QED
        BY <1>2, <1>4, <2>1, <4>2 DEF CommandIInv, OthersStay, SendsSaved
    <3>2. OneIsStopped'
      <4>1. ASSUME NEW d \in NodeCommand, commandAt'[d] = "save"
            PROVE  commandAt[d] = "save" /\ does'[d] = does[d] /\ about'[d] = about[d]
        BY <1>2, <2>1, <4>1 DEF OthersStay
      <4>2. QED
        BY <4>1, StopsOneStill DEF CommandIInv
    <3>3. QED
      BY <3>1, <3>2
  <2>7. QED
    BY <2>2, <2>3, <2>4, <2>5, <2>6 DEF CommandIInv
<1>5. ASSUME NEW a \in NodeCommand \ {c}, commandAt[c] = "work", agentTable' = agentTable,
             agentTable[a] # "none",
             CommandGo(c, "save"), Tell(c, "nothing", {a})
      PROVE  CommandIInv'
  <2>1. /\ OthersStay(c) /\ commandAt'[c] = "save" /\ report'[c] = "nothing"
        /\ \A b \in NodeCommand : b \in about'[c] => b = a
    BY <1>1, <1>2, <1>5 DEF CommandTypeOK, OthersStay, CommandGo, Tell
  <2>2. CommandTypeOK'
    BY <1>1, <1>2, <1>5 DEF CommandTypeOK, CommandGo, Tell
  <2>3. FileHeld' /\ WalletLoaded' /\ WalletToSave' /\ TokensAdded'
    <3>1. FileHeld'
      BY <1>2, <2>1, KindsOfCommand DEF CommandIInv, OthersStay, FileHeld
    <3>2. WalletLoaded' /\ WalletToSave'
      BY <1>2, <2>1, KindsOfCommand DEF CommandIInv, OthersStay, WalletLoaded, WalletToSave
    <3>3. QED
      BY <3>1, <3>2, <1>2 DEF CommandIInv, TokensAdded
  <2>4. WalletShown' /\ JobsOfOne'
    BY <1>2, <1>5, <2>1 DEF CommandIInv, OthersStay, WalletShown, JobsOfOne
  <2>5. AgentsMade' /\ AgentsNamed'
    BY <1>2, <1>5, <2>1 DEF CommandIInv, OthersStay, AgentsMade, AgentsNamed
  <2>6. StopsNamed' /\ OneIsStopped' /\ SendsSaved'
    <3>1. StopsNamed' /\ OneIsStopped'
      <4>0. ASSUME NEW d \in NodeCommand, report'[d] = "stopped"
            PROVE  report[d] = "stopped" /\ about'[d] = about[d]
        BY <2>1, <4>0 DEF OthersStay
      <4>1. StopsNamed'
        BY <1>5, <4>0 DEF CommandIInv, StopsNamed
      <4>2. \A d \in NodeCommand : d # c =>
              commandAt'[d] = commandAt[d] /\ does'[d] = does[d] /\ about'[d] = about[d]
        BY <2>1 DEF OthersStay
      <4>3. \A x, y \in NodeCommand : x \in about'[c] /\ y \in about'[c] => x # c /\ y = x
        BY <1>5, <2>1
      <4>4. OneIsStopped'
        <5>1. ASSUME NEW d \in NodeCommand, commandAt'[d] = "save", does'[d] = "agent stop",
                     NEW x \in NodeCommand, NEW y \in NodeCommand, x \in about'[d], y \in about'[d]
              PROVE  x # d /\ y = x
          <6>1. CASE d = c
            BY <4>3, <5>1, <6>1
          <6>2. CASE d # c
            <7>1. commandAt[d] = "save" /\ does[d] = "agent stop" /\ x \in about[d] /\ y \in about[d]
              BY <4>2, <5>1, <6>2
            <7>2. QED
              BY <5>1, <7>1 DEF CommandIInv, OneIsStopped
          <6>3. QED
            BY <6>1, <6>2
        <5>2. QED
          BY <5>1 DEF OneIsStopped
      <4>5. QED
        BY <4>1, <4>4
    <3>2. SendsSaved'
      BY <1>2, <1>5, <2>1 DEF CommandIInv, OthersStay, SendsSaved
    <3>3. QED
      BY <3>1, <3>2
  <2>7. QED
    BY <2>2, <2>3, <2>4, <2>5, <2>6 DEF CommandIInv
<1>6. ASSUME NEW a \in about[c], commandAt[c] = "save", CommandGo(c, "print"),
             Tell(c, "stopped", about[c]), agentTable' = [agentTable EXCEPT ![a] = "stopped"]
      PROVE  CommandIInv'
  <2>1. OthersStay(c) /\ commandAt'[c] = "print" /\ report'[c] = "stopped" /\ about'[c] = about[c]
    BY <1>1, <1>2, <1>6 DEF CommandTypeOK, OthersStay, CommandGo, Tell
  <2>a. a \in NodeCommand
    BY <1>1 DEF CommandTypeOK
  <2>b. agentTable'[a] = "stopped" /\ \A b \in NodeCommand : b # a => agentTable'[b] = agentTable[b]
    BY <1>1, <1>6, <2>a DEF CommandTypeOK
  <2>c. a # c /\ agentTable[a] # "none" /\ \A b \in NodeCommand : b \in about[c] => b = a
    BY <1>2, <1>6, <2>a DEF CommandIInv, OneIsStopped, AgentsNamed
  <2>2. CommandTypeOK'
    BY <1>1, <1>2, <1>6, <2>a DEF CommandTypeOK, CommandGo, Tell
  <2>3. FileHeld' /\ WalletLoaded' /\ WalletToSave' /\ TokensAdded'
    <3>1. FileHeld'
      BY <1>2, <2>1, KindsOfCommand DEF CommandIInv, OthersStay, FileHeld
    <3>2. WalletLoaded' /\ WalletToSave'
      BY <1>2, <2>1 DEF CommandIInv, OthersStay, WalletLoaded, WalletToSave
    <3>3. QED
      BY <3>1, <3>2, <1>2 DEF CommandIInv, TokensAdded
  <2>4. WalletShown' /\ JobsOfOne'
    BY <1>2, <1>6, <2>1, KindsOfCommand DEF CommandIInv, OthersStay, WalletShown, JobsOfOne,
       Empties
  <2>5. AgentsMade' /\ AgentsNamed'
    <3>1. AgentsMade'
      BY <1>2, <1>6, <2>1, <2>a, <2>b, <2>c DEF CommandIInv, OthersStay, AgentsMade
    <3>2. AgentsNamed'
      <4>1. \A d \in NodeCommand : about'[d] = about[d] /\ (commandAt'[d] = "new" => commandAt[d] = "new")
        BY <2>1 DEF OthersStay
      <4>2. \A b \in NodeCommand : agentTable[b] # "none" => agentTable'[b] # "none"
        BY <2>b
      <4>3. QED
        BY <1>2, <4>1, <4>2 DEF CommandIInv, AgentsNamed
    <3>3. QED
      BY <3>1, <3>2
  <2>6. StopsNamed' /\ OneIsStopped' /\ SendsSaved'
    <3>1. StopsNamed'
      BY <1>6, <2>1, <2>a, <2>b, <2>c DEF CommandIInv, OthersStay, StopsNamed
    <3>2. OneIsStopped'
      <4>1. ASSUME NEW d \in NodeCommand, commandAt'[d] = "save"
            PROVE  commandAt[d] = "save" /\ does'[d] = does[d] /\ about'[d] = about[d]
        BY <1>2, <2>1, <4>1 DEF OthersStay
      <4>2. QED
        BY <4>1, StopsOneStill DEF CommandIInv
    <3>3. SendsSaved'
      BY <1>2, <1>6, <2>1 DEF CommandIInv, OthersStay, SendsSaved
    <3>4. QED
      BY <3>1, <3>2, <3>3
  <2>7. QED
    BY <2>2, <2>3, <2>4, <2>5, <2>6 DEF CommandIInv
<1>7. QED
  BY <1>3, <1>4, <1>5, <1>6

\* What is said, and what has to be so for it.
Says(c, what, whose) ==
    /\ Tell(c, what, whose)
    /\ what \in Empties => does[c] \in OfJobs
    /\ \A a \in whose : a \in NodeCommand /\ agentTable[a] # "none"
    /\ what = "stopped" => \A a \in whose : agentTable[a] = "stopped"

LEMMA AskKeeps ==
    ASSUME CommandIInv, NEW c \in NodeCommand, Ask(c)
    PROVE  CommandIInv'
<1>1. CommandTypeOK
  BY DEF CommandIInv
<1>3. PICK what, whose : Says(c, what, whose)
  <2>0. ASSUME NEW told \in {"failed", "result", "no peers", "timeout", "balance", "transactions", "escrows",
                             "no active escrows"},
               Tell(c, told, {})
        PROVE  Says(c, told, {})
    BY <2>0 DEF Says, Empties
  <2>1. ASSUME NEW told, NEW of, Tell(c, told, of), told \notin Empties, told # "stopped",
               \A a \in of : a \in NodeCommand /\ agentTable[a] # "none"
        PROVE  Says(c, told, of)
    BY <2>1 DEF Says
  <2>2. CASE list_agents(c)
    <3>1. Tell(c, "listed", list_agent_ids)
      BY <2>2 DEF list_agents
    <3>2. \A a \in list_agent_ids : a \in NodeCommand /\ agentTable[a] # "none"
      BY DEF list_agent_ids, get_agent
    <3>3. "listed" \notin Empties /\ "listed" # "stopped"
      BY DEF Empties
    <3>4. QED
      BY <3>1, <3>2, <3>3, <2>1
  <2>3. CASE stream_logs(c)
    <3>1. PICK a \in NodeCommand \ {c} :
            IF agentTable[a] = "none" THEN Tell(c, "failed", {}) ELSE Tell(c, "logged", {a})
      BY <2>3 DEF stream_logs, get_agent
    <3>2. CASE agentTable[a] = "none"
      BY <3>1, <3>2, <2>0
    <3>3. CASE agentTable[a] # "none" /\ Tell(c, "logged", {a})
      <4>1. \A b \in {a} : b \in NodeCommand /\ agentTable[b] # "none"
        BY <3>3
      <4>2. "logged" \notin Empties /\ "logged" # "stopped"
        BY DEF Empties
      <4>3. QED
        BY <4>1, <4>2, <3>3, <2>1
    <3>4. QED
      BY <3>1, <3>2, <3>3
  <2>4. CASE show_agent_info(c)
    <3>1. PICK a \in NodeCommand \ {c} :
            IF agentTable[a] = "none" THEN Tell(c, "failed", {}) ELSE Tell(c, agentTable[a], {a})
      BY <2>4 DEF show_agent_info, get_agent
    <3>2. CASE agentTable[a] = "none"
      BY <3>1, <3>2, <2>0
    <3>3. CASE agentTable[a] # "none" /\ Tell(c, agentTable[a], {a})
      <4>1. \A b \in {a} : b \in NodeCommand /\ agentTable[b] # "none"
                           /\ (agentTable[a] = "stopped" => agentTable[b] = "stopped")
        BY <3>3
      <4>2. agentTable[a] \notin Empties
        BY <1>1 DEF CommandTypeOK, Empties
      <4>3. Says(c, agentTable[a], {a})
        BY <4>1, <4>2, <3>3 DEF Says
      <4>4. QED
        BY <4>3
    <3>4. QED
      BY <3>1, <3>2, <3>3
  <2>5. CASE network_peers(c)
    BY <2>5, <2>0 DEF network_peers, list_peer_ids
  <2>6. CASE run_inference_job(c) \/ run_fetch_job(c)
    BY <2>6, <2>0 DEF run_inference_job, run_fetch_job
  <2>7. CASE list_jobs(c) \/ show_history(c) \/ cancel_job(c)
    <3>1. does[c] \in OfJobs
      BY <2>7 DEF list_jobs, show_history, cancel_job, OfJobs
    <3>2. \E told \in Empties : Tell(c, told, {})
      BY <2>7 DEF list_jobs, show_history, cancel_job, Empties
    <3>3. PICK told \in Empties : Tell(c, told, {})
      BY <3>2
    <3>4. Says(c, told, {})
      BY <3>1, <3>3 DEF Says, Empties
    <3>5. QED
      BY <3>4
  <2>8. CASE list_peers(c) \/ join_peer(c) \/ discover_peers(c)
    BY <2>8, <2>0 DEF list_peers, join_peer, discover_peers
  <2>9. CASE show_balance(c) \/ show_transactions(c) \/ show_escrows(c)
    BY <2>9, <2>0 DEF show_balance, show_transactions, show_escrows
  <2>10. QED
    BY <2>2, <2>3, <2>4, <2>5, <2>6, <2>7, <2>8, <2>9 DEF Ask
<1>4. /\ report'[c] = what /\ about'[c] = whose
      /\ \A d \in NodeCommand : d # c => report'[d] = report[d] /\ about'[d] = about[d]
  BY <1>1, <1>3 DEF Says, Tell, CommandTypeOK
<1>2. /\ UNCHANGED <<databaseHolder, agentTable, storedWallet, node_jobs, credits, looked, sendsReported>>
      /\ OthersStay(c)
      /\ commandAt[c] = "work" /\ commandAt'[c] = "print"
      /\ does'[c] = does[c] /\ commandWallet'[c] = commandWallet[c]
  BY <1>1, <1>4 DEF Ask, CommandGo, CommandTypeOK, OthersStay, Tell
<1>5. /\ report'[c] \in Empties => does[c] \in OfJobs
      /\ \A b \in NodeCommand : b \in about'[c] =>
           agentTable[b] # "none" /\ (report'[c] = "stopped" => agentTable[b] = "stopped")
      /\ about'[c] \subseteq NodeCommand
  BY <1>3, <1>4 DEF Says
<1>a. does[c] # "serve"
  BY DEF Ask, list_agents, stream_logs, show_agent_info, network_peers,
     run_inference_job, run_fetch_job, list_jobs, show_history,
     cancel_job, list_peers, join_peer, discover_peers, show_balance,
     show_transactions, show_escrows
<1>6. CommandTypeOK'
  <2>1. DOMAIN report' = NodeCommand /\ about' \in [NodeCommand -> SUBSET NodeCommand]
    BY <1>1, <1>3, <1>4, Zenon DEF Says, Ask, CommandGo, CommandTypeOK, Tell
  <2>2. commandWallet' \in [NodeCommand -> Wallet] /\ storedWallet' \in Wallet
    BY <1>1, <1>2, ProgramsAssumption DEF Ask, CommandGo, CommandTypeOK
  <2>3. does' \in [NodeCommand -> OfFile \cup OfRuntime \cup OfWallet \cup {"nothing"}]
    BY <1>1 DEF Ask, CommandGo, CommandTypeOK
  <2>4. /\ commandAt' \in [NodeCommand -> {"new", "open", "load", "credit", "work", "save", "ask",
                                           "print", "ended"}]
        /\ agentTable' \in [NodeCommand -> {"none", "running", "stopped"}]
    BY <1>1 DEF Ask, CommandGo, CommandTypeOK
  <2>5. /\ databaseThere' \in BOOLEAN /\ databaseHolder' \in NodeCommand \cup {NoCommand}
        /\ node_jobs' \in BOOLEAN
        /\ credits' \in Nat /\ looked' \subseteq NodeCommand /\ sendsReported' \subseteq NodeCommand
    BY <1>1 DEF Ask, CommandGo, CommandTypeOK
  <2>6. QED
    BY <2>1, <2>2, <2>3, <2>4, <2>5 DEF CommandTypeOK
<1>7. FileHeld'
  BY <1>2, <1>5, KindsOfCommand DEF CommandIInv, OthersStay, FileHeld
<1>8. WalletLoaded'
  BY <1>2, <1>5 DEF CommandIInv, OthersStay, WalletLoaded
<1>9. WalletToSave'
  BY <1>2, <1>5 DEF CommandIInv, OthersStay, WalletToSave
<1>10. WalletShown'
  BY <1>2, <1>5, KindsOfCommand DEF CommandIInv, OthersStay, WalletShown, WalletLoaded
<1>11. JobsOfOne'
  BY <1>2, <1>5, <1>a DEF CommandIInv, OthersStay, JobsOfOne
<1>12. AgentsMade'
  BY <1>2, <1>5 DEF CommandIInv, OthersStay, AgentsMade
<1>13. AgentsNamed'
  BY <1>2, <1>5 DEF CommandIInv, OthersStay, AgentsNamed
<1>14. StopsNamed'
  BY <1>2, <1>5 DEF CommandIInv, OthersStay, StopsNamed
<1>15. OneIsStopped'
  <2>1. ASSUME NEW d \in NodeCommand, commandAt'[d] = "save"
        PROVE  commandAt[d] = "save" /\ does'[d] = does[d] /\ about'[d] = about[d]
    BY <1>2, <1>5, <2>1 DEF OthersStay
  <2>2. QED
    BY <2>1, StopsOneStill DEF CommandIInv
<1>16. SendsSaved'
  BY <1>2, <1>5 DEF CommandIInv, OthersStay, SendsSaved
<1>17. TokensAdded'
  BY <1>2 DEF CommandIInv, TokensAdded
<1>18. QED
  BY <1>1, <1>2, <1>6, <1>7, <1>8, <1>9, <1>10, <1>11, <1>12, <1>13, <1>14, <1>15, <1>16, <1>17
     DEF CommandIInv

LEMMA show_statusKeeps ==
    ASSUME CommandIInv, NEW c \in NodeCommand, show_status(c)
    PROVE  CommandIInv'
<1>1. CommandTypeOK
  BY DEF CommandIInv
<1>2. /\ UNCHANGED <<agentTable, storedWallet, node_jobs, credits, looked, sendsReported>>
      /\ OthersStay(c)
      /\ does[c] = "network status"
      /\ does'[c] = does[c] /\ commandWallet'[c] = commandWallet[c]
      /\ \/ /\ commandAt[c] = "work" /\ commandAt'[c] = "ask" /\ databaseHolder' = NoCommand
            /\ report'[c] = report[c] /\ about'[c] = about[c]
         \/ /\ commandAt[c] = "ask" /\ commandAt'[c] = "print" /\ databaseHolder' = databaseHolder
            /\ \/ report'[c] = "live" /\ \A b \in NodeCommand : b \notin about'[c]
               \/ report'[c] = "offline" /\ \A b \in NodeCommand : b \notin about'[c]
  <2>1. CASE commandAt[c] = "work" /\ databaseHolder' = NoCommand /\ CommandGo(c, "ask") /\ UNCHANGED <<report, about>>
    BY <1>1, <2>1 DEF show_status, CommandGo, CommandTypeOK, OthersStay
  <2>2. CASE commandAt[c] = "ask" /\ UNCHANGED databaseHolder /\ CommandGo(c, "print")
             /\ Tell(c, "live", {})
    BY <1>1, <2>2 DEF show_status, CommandGo, CommandTypeOK, OthersStay, Tell
  <2>3. CASE commandAt[c] = "ask" /\ UNCHANGED databaseHolder /\ CommandGo(c, "print")
             /\ Tell(c, "offline", {})
    BY <1>1, <2>3 DEF show_status, CommandGo, CommandTypeOK, OthersStay, Tell
  <2>4. QED
    BY <2>1, <2>2, <2>3 DEF show_status
<1>6. CommandTypeOK'
  <2>1. DOMAIN report' = NodeCommand /\ about' \in [NodeCommand -> SUBSET NodeCommand]
    <3>1. (\E told : Tell(c, told, {})) \/ UNCHANGED <<report, about>>
      BY DEF show_status
    <3>2. QED
      BY <1>1, <3>1 DEF CommandTypeOK, Tell
  <2>2. commandWallet' \in [NodeCommand -> Wallet] /\ storedWallet' \in Wallet
    BY <1>1, <1>2, ProgramsAssumption DEF show_status, CommandGo, CommandTypeOK
  <2>3. does' \in [NodeCommand -> OfFile \cup OfRuntime \cup OfWallet \cup {"nothing"}]
    BY <1>1 DEF show_status, CommandGo, CommandTypeOK
  <2>4. /\ commandAt' \in [NodeCommand -> {"new", "open", "load", "credit", "work", "save", "ask",
                                           "print", "ended"}]
        /\ agentTable' \in [NodeCommand -> {"none", "running", "stopped"}]
    BY <1>1 DEF show_status, CommandGo, CommandTypeOK
  <2>5. /\ databaseThere' \in BOOLEAN /\ databaseHolder' \in NodeCommand \cup {NoCommand}
        /\ node_jobs' \in BOOLEAN
        /\ credits' \in Nat /\ looked' \subseteq NodeCommand /\ sendsReported' \subseteq NodeCommand
    BY <1>1 DEF show_status, CommandGo, CommandTypeOK
  <2>6. QED
    BY <2>1, <2>2, <2>3, <2>4, <2>5 DEF CommandTypeOK
<1>7. FileHeld'
  BY <1>2, KindsOfCommand DEF CommandIInv, OthersStay, FileHeld
<1>8. WalletLoaded'
  BY <1>2 DEF CommandIInv, OthersStay, WalletLoaded
<1>9. WalletToSave'
  BY <1>2 DEF CommandIInv, OthersStay, WalletToSave
<1>10. WalletShown'
  BY <1>2, KindsOfCommand DEF CommandIInv, OthersStay, WalletShown
<1>11. JobsOfOne'
  BY <1>2 DEF CommandIInv, OthersStay, JobsOfOne, Empties
<1>12. AgentsMade'
  BY <1>2 DEF CommandIInv, OthersStay, AgentsMade
<1>13. AgentsNamed'
  BY <1>2 DEF CommandIInv, OthersStay, AgentsNamed
<1>14. StopsNamed'
  BY <1>2 DEF CommandIInv, OthersStay, StopsNamed
<1>15. OneIsStopped'
  <2>1. ASSUME NEW d \in NodeCommand, commandAt'[d] = "save"
        PROVE  commandAt[d] = "save" /\ does'[d] = does[d] /\ about'[d] = about[d]
    BY <1>2, <2>1 DEF OthersStay
  <2>2. QED
    BY <2>1, StopsOneStill DEF CommandIInv
<1>16. SendsSaved'
  BY <1>2 DEF CommandIInv, OthersStay, SendsSaved
<1>17. TokensAdded'
  BY <1>2 DEF CommandIInv, TokensAdded
<1>18. QED
  BY <1>1, <1>2, <1>6, <1>7, <1>8, <1>9, <1>10, <1>11, <1>12, <1>13, <1>14, <1>15, <1>16, <1>17
     DEF CommandIInv

LEMMA NodeWorksKeeps ==
    ASSUME CommandIInv, NEW c \in NodeCommand, NodeWorks(c)
    PROVE  CommandIInv'
<1>1. CommandTypeOK
  BY DEF CommandIInv
<1>2. /\ UNCHANGED <<databaseHolder, agentTable, storedWallet, credits, looked, sendsReported>>
      /\ OthersStay(c)
      /\ commandAt[c] = "work" /\ does[c] = "serve" /\ commandAt' = commandAt
      /\ does'[c] = does[c] /\ commandWallet'[c] = commandWallet[c] /\ report'[c] = report[c] /\ about'[c] = about[c]
  BY <1>1 DEF NodeWorks, CommandGo, CommandTypeOK, OthersStay, Tell
<1>6. CommandTypeOK'
  <2>1. DOMAIN report' = NodeCommand /\ about' \in [NodeCommand -> SUBSET NodeCommand]
    BY <1>1 DEF NodeWorks, CommandGo, CommandTypeOK, Tell
  <2>2. commandWallet' \in [NodeCommand -> Wallet] /\ storedWallet' \in Wallet
    BY <1>1, <1>2, ProgramsAssumption DEF NodeWorks, CommandGo, CommandTypeOK
  <2>3. does' \in [NodeCommand -> OfFile \cup OfRuntime \cup OfWallet \cup {"nothing"}]
    BY <1>1 DEF NodeWorks, CommandGo, CommandTypeOK
  <2>4. /\ commandAt' \in [NodeCommand -> {"new", "open", "load", "credit", "work", "save", "ask",
                                           "print", "ended"}]
        /\ agentTable' \in [NodeCommand -> {"none", "running", "stopped"}]
    BY <1>1 DEF NodeWorks, CommandGo, CommandTypeOK
  <2>5. /\ databaseThere' \in BOOLEAN /\ databaseHolder' \in NodeCommand \cup {NoCommand}
        /\ node_jobs' \in BOOLEAN
        /\ credits' \in Nat /\ looked' \subseteq NodeCommand /\ sendsReported' \subseteq NodeCommand
    BY <1>1 DEF NodeWorks, CommandGo, CommandTypeOK
  <2>6. QED
    BY <2>1, <2>2, <2>3, <2>4, <2>5 DEF CommandTypeOK
<1>7. FileHeld'
  BY <1>2, KindsOfCommand DEF CommandIInv, OthersStay, FileHeld
<1>8. WalletLoaded'
  BY <1>2 DEF CommandIInv, OthersStay, WalletLoaded
<1>9. WalletToSave'
  BY <1>2 DEF CommandIInv, OthersStay, WalletToSave
<1>10. WalletShown'
  BY <1>2 DEF CommandIInv, OthersStay, WalletShown
<1>11. JobsOfOne'
  BY <1>2 DEF CommandIInv, OthersStay, JobsOfOne
<1>12. AgentsMade'
  BY <1>2 DEF CommandIInv, OthersStay, AgentsMade
<1>13. AgentsNamed'
  BY <1>2 DEF CommandIInv, OthersStay, AgentsNamed
<1>14. StopsNamed'
  BY <1>2 DEF CommandIInv, OthersStay, StopsNamed
<1>15. OneIsStopped'
  <2>1. ASSUME NEW d \in NodeCommand, commandAt'[d] = "save"
        PROVE  commandAt[d] = "save" /\ does'[d] = does[d] /\ about'[d] = about[d]
    BY <1>2, <2>1 DEF OthersStay
  <2>2. QED
    BY <2>1, StopsOneStill DEF CommandIInv
<1>16. SendsSaved'
  BY <1>2 DEF CommandIInv, OthersStay, SendsSaved
<1>17. TokensAdded'
  BY <1>2 DEF CommandIInv, TokensAdded
<1>18. QED
  BY <1>1, <1>2, <1>6, <1>7, <1>8, <1>9, <1>10, <1>11, <1>12, <1>13, <1>14, <1>15, <1>16, <1>17
     DEF CommandIInv

LEMMA CommandInitIInv == CommandInit => CommandIInv
<1> SUFFICES ASSUME CommandInit PROVE CommandIInv
  OBVIOUS
<1>1. CommandTypeOK
  <2>1. storedWallet \in Wallet /\ commandWallet \in [NodeCommand -> Wallet]
    BY DEF CommandInit, NoTokens, Wallet
  <2>2. QED
    BY <2>1 DEF CommandInit, CommandTypeOK
<1>2. TokensAdded
  <2>1. IsFiniteSet(sendsReported) /\ Cardinality(sendsReported) = 0
    BY FS_EmptySet DEF CommandInit
  <2>2. CreditOfRuntime * credits = 0
    BY ProgramsAssumption DEF CommandInit
  <2>3. QED
    BY <2>1, <2>2 DEF CommandInit, NoTokens, TokensAdded
<1>3. FileHeld /\ WalletLoaded /\ WalletToSave /\ WalletShown /\ SendsSaved
  BY DEF CommandInit, FileHeld, WalletLoaded, WalletToSave, WalletShown, SendsSaved
<1>4. JobsOfOne /\ AgentsMade /\ AgentsNamed /\ StopsNamed /\ OneIsStopped
  BY DEF CommandInit, JobsOfOne, AgentsMade, AgentsNamed, StopsNamed, OneIsStopped
<1>5. QED
  BY <1>1, <1>2, <1>3, <1>4 DEF CommandIInv

LEMMA CommandNextIInv == CommandIInv /\ [CommandNext]_commandVars => CommandIInv'
<1> SUFFICES ASSUME CommandIInv, [CommandNext]_commandVars
             PROVE  CommandIInv'
  OBVIOUS
<1>1. CASE UNCHANGED commandVars
  <2>1. CommandTypeOK'
    BY <1>1 DEF CommandIInv, CommandTypeOK, commandVars
  <2>2. FileHeld' /\ WalletLoaded' /\ WalletToSave' /\ WalletShown' /\ SendsSaved'
    BY <1>1 DEF CommandIInv, FileHeld, WalletLoaded, WalletToSave, WalletShown, SendsSaved,
       commandVars
  <2>3. AgentsMade' /\ AgentsNamed' /\ StopsNamed' /\ OneIsStopped'
    <3>1. AgentsMade' /\ AgentsNamed'
      BY <1>1 DEF CommandIInv, AgentsMade, AgentsNamed, commandVars
    <3>2. StopsNamed'
      BY <1>1 DEF CommandIInv, StopsNamed, commandVars
    <3>3. OneIsStopped'
      BY <1>1, StopsOneStill DEF CommandIInv, commandVars
    <3>4. QED
      BY <3>1, <3>2, <3>3
  <2>4. JobsOfOne'
    <3>1. (node_jobs' <=> node_jobs) /\ commandAt' = commandAt /\ report' = report /\ does' = does
      BY <1>1 DEF commandVars
    <3>2. QED
      BY <3>1 DEF CommandIInv, JobsOfOne
  <2>5. TokensAdded'
    BY <1>1 DEF CommandIInv, TokensAdded, commandVars
  <2>6. QED
    BY <2>1, <2>2, <2>3, <2>4, <2>5 DEF CommandIInv
<1>2. ASSUME NEW c \in NodeCommand,
             CommandBegin(c) \/ CommandOpen(c) \/ End(c) \/ LoadWallet(c) \/ CreditRuntime(c)
               \/ Spend(c) \/ SaveWallet(c)
      PROVE  CommandIInv'
  BY <1>2, CommandBeginKeeps, CommandOpenKeeps, EndKeeps, LoadWalletKeeps, CreditRuntimeKeeps,
     SpendKeeps, SaveWalletKeeps
<1>3. ASSUME NEW c \in NodeCommand,
             RunAgent(c) \/ StopAgent(c) \/ Ask(c) \/ show_status(c) \/ NodeWorks(c)
      PROVE  CommandIInv'
  BY <1>3, RunAgentKeeps, StopAgentKeeps, AskKeeps, show_statusKeeps, NodeWorksKeeps
<1>4. QED
  BY <1>1, <1>2, <1>3 DEF CommandNext

\* What the invariants say of what is on disk and of what is printed.
LEMMA InvariantsKeepApart == SetupIInv /\ CommandIInv => ProgramsApart
<1> SUFFICES ASSUME SetupIInv, CommandIInv PROVE ProgramsApart
  OBVIOUS
<1>1. OneIdentity /\ FilesWhole
  BY DEF SetupIInv, KeysApart, OneIdentity
<1>2. TokensCarryOver
  BY DEF CommandIInv, TokensAdded, WalletShown, TokensCarryOver
<1>3. ReportsTrue
  BY DEF CommandIInv, AgentsNamed, StopsNamed, ReportsTrue
<1>4. NoJobsMissed
  <2> SUFFICES ASSUME NEW c \in NodeCommand, commandAt[c] = "print", report[c] \in Empties, node_jobs
               PROVE  FALSE
    BY DEF NoJobsMissed, Empties
  <2>1. PICK d \in NodeCommand : commandAt[d] = "work" /\ does[d] = "serve"
    BY DEF CommandIInv, JobsOfOne
  <2>2. does[c] \in OfTokens /\ does[c] # "serve"
    BY KindsOfCommand DEF CommandIInv, JobsOfOne
  <2>3. databaseHolder = c /\ databaseHolder = d
    BY <2>1, <2>2 DEF CommandIInv, FileHeld
  <2>4. QED
    BY <2>1, <2>2, <2>3
<1>5. QED
  BY <1>1, <1>2, <1>3, <1>4 DEF ProgramsApart

\* The programs over one directory, and the commands on its database, keep
\* apart: one identity, unless first starts overlapped; no file left empty but
\* by one that died writing it; no token lost or made, however the processes
\* came and died; reports of what was stored; no job missed (cli/start.rs,
\* identity/mod.rs, config/mod.rs, db/mod.rs, cli/wallet.rs, cli/agent.rs,
\* cli/job.rs).
THEOREM ProgramsStayApart == ProgramsSpec => []ProgramsApart
<1>1. ProgramsInit => SetupIInv /\ CommandIInv
  BY SetupInitIInv, CommandInitIInv DEF ProgramsInit
<1>2. SetupIInv /\ CommandIInv /\ [ProgramsNext]_programVars => SetupIInv' /\ CommandIInv'
  <2> SUFFICES ASSUME SetupIInv, CommandIInv, [ProgramsNext]_programVars
               PROVE  SetupIInv' /\ CommandIInv'
    OBVIOUS
  <2>1. [SetupNext]_setupVars /\ [CommandNext]_commandVars
    BY DEF ProgramsNext, programVars
  <2>2. QED
    BY <2>1, SetupNextIInv, CommandNextIInv
<1>3. QED
  BY <1>1, <1>2, InvariantsKeepApart, PTL DEF ProgramsSpec
===============================================================================
