----------------------------- MODULE ProxyGate ------------------------------
(* The paying proxy (proxy/): who is let through, and which price rule a   *)
(* path falls under.                                                       *)
EXTENDS Integers, FiniteSets, Sequences

CONSTANTS
  Client,
  Connection,           \* requests that may be in the handler at one time
  rate_limit_per_minute, free_tier_requests_per_hour,
  free_tier_enabled,
  MaxMinute, MinutesPerHour,  \* bounds of the clock
  MaxRequests,                 \* bound: requests ever made
  Segment,          \* what a path is made of
  Star, DoubleStar, \* the segments * and **
  MaxPattern, MaxPath   \* bounds

ASSUME ProxyAssumption ==
  /\ IsFiniteSet(Connection) /\ Client # {}
  /\ rate_limit_per_minute \in Nat /\ free_tier_requests_per_hour \in Nat
  /\ MaxMinute \in Nat /\ MinutesPerHour \in Nat \ {0} /\ MaxRequests \in Nat
  /\ MaxPattern \in Nat /\ MaxPath \in Nat

VARIABLES
  minute,
  free_tier_usage, rate_limits,   \* of each client: [period, count]
  connAt,          \* where the request of each connection is
  connClient, connProof,
  connSince,       \* the minute of its latest step
  made,
  servedInMinute, servedInHour,   \* history: requests of each client in this
                                  \* minute, free ones in this hour
  lateInMinute, lateInHour,       \* history: those counted in an earlier period
  pattern_parts, path_parts,
  pi, pa,
  matches    \* "walking", "yes", "no"

-----------------------------------------------------------------------------
(* The gate of the HTTP 402 proxy (proxy/mod.rs): the rate limit, the proof of *)
(* payment and the free tier that stand before a request.  Each of them is    *)
(* read and written under its own lock, and the clock is read before the lock *)
(* is asked for: a step works with any time since the step before it.  Both   *)
(* maps keep one (period, count) entry per client.                            *)

connVars == <<connAt, connClient, connProof, connSince>>
historyVars == <<servedInMinute, servedInHour, lateInMinute, lateInHour>>
gateVars == <<minute, free_tier_usage, rate_limits, connVars, made, historyVars>>

Hour(m) == m \div MinutesPerHour

\* What the headers hold: nothing that parses as a proof, a payment (direct or by
\* a channel) below the price of the path, one or a bearer key without its other
\* fields, or a proof that verify takes.
Proof == {"none", "short", "bare", "good"}
Outcome == {"ok", "limited", "unpaid", "invalid"}

Usage == [period: -1..MaxMinute, count: Nat]

GateTypeOK ==
  /\ minute \in 0..MaxMinute
  /\ free_tier_usage \in [Client -> Usage] /\ rate_limits \in [Client -> Usage]
  /\ connAt \in [Connection -> {"idle", "arrived", "checked", "freeChecked", "paid"} \cup Outcome]
  /\ connClient \in [Connection -> Client] /\ connProof \in [Connection -> Proof]
  /\ connSince \in [Connection -> 0..MaxMinute]
  /\ made \in 0..MaxRequests
  /\ servedInMinute \in [Client -> Nat] /\ servedInHour \in [Client -> Nat]
  /\ lateInMinute \in [Client -> Nat] /\ lateInHour \in [Client -> Nat]

Nobody == [c \in Client |-> 0]

\* No entry: as one of an earlier period, it stands in nobody's way.
NoUsage == [period |-> -1, count |-> 0]

SomeClient == CHOOSE c \in Client : TRUE

GateInit ==
  /\ minute = 0 /\ made = 0
  /\ free_tier_usage = [c \in Client |-> NoUsage] /\ rate_limits = [c \in Client |-> NoUsage]
  /\ connAt = [k \in Connection |-> "idle"]
  /\ connClient = [k \in Connection |-> SomeClient]
  /\ connProof = [k \in Connection |-> "none"] /\ connSince = [k \in Connection |-> 0]
  /\ servedInMinute = Nobody /\ servedInHour = Nobody
  /\ lateInMinute = Nobody /\ lateInHour = Nobody

GateTick ==
  /\ minute < MaxMinute
  /\ minute' = minute + 1
  /\ servedInMinute' = Nobody /\ lateInMinute' = Nobody
  /\ IF Hour(minute + 1) = Hour(minute) THEN UNCHANGED <<servedInHour, lateInHour>>
     ELSE servedInHour' = Nobody /\ lateInHour' = Nobody
  /\ UNCHANGED <<free_tier_usage, rate_limits, connVars, made>>

\* What a step on connection k may have read from the clock.
TimeRead(k) == connSince[k]..minute

\* History of a request counted in a minute, or in an hour.
ServeInMinute(c, isLate) ==
  /\ servedInMinute' = [servedInMinute EXCEPT ![c] = @ + 1]
  /\ lateInMinute' = [lateInMinute EXCEPT ![c] = IF isLate THEN @ + 1 ELSE @]
  /\ UNCHANGED <<servedInHour, lateInHour>>

ServeInHour(c, isLate) ==
  /\ servedInHour' = [servedInHour EXCEPT ![c] = @ + 1]
  /\ lateInHour' = [lateInHour EXCEPT ![c] = IF isLate THEN @ + 1 ELSE @]
  /\ UNCHANGED <<servedInMinute, lateInMinute>>

\* Mutant: a test for the limit itself, which a burst jumps over.
HasRoomUnlessAt(usage, now, limit) == usage.period = now => usage.count # limit
HasRoom(usage, now, limit) == usage.period = now => usage.count < limit

\* Mutant: a count that is carried into the new period.
CountOn(usage, now) == [period |-> now, count |-> usage.count + 1]
\* The entry moves to the period, an earlier one too, before it counts.
Count(usage, now) ==
  [period |-> now, count |-> IF usage.period = now THEN usage.count + 1 ELSE 1]

ConnGoes(k, to) ==
  /\ connAt' = [connAt EXCEPT ![k] = to] /\ connSince' = [connSince EXCEPT ![k] = minute]
  /\ UNCHANGED <<connClient, connProof>>

\* The headers of a request (from_headers), against the price of its path.
Arrive(k) ==
  /\ connAt[k] = "idle" /\ made < MaxRequests
  /\ connAt' = [connAt EXCEPT ![k] = "arrived"]
  /\ \E c \in Client : connClient' = [connClient EXCEPT ![k] = c]
  /\ \E proof \in Proof : connProof' = [connProof EXCEPT ![k] = proof]
  /\ connSince' = [connSince EXCEPT ![k] = minute]
  /\ made' = made + 1
  /\ UNCHANGED <<minute, free_tier_usage, rate_limits, historyVars>>

check_rate_limit(k) ==
  /\ connAt[k] = "arrived"
  /\ \E now \in TimeRead(k) :
       ConnGoes(k, IF HasRoom(rate_limits[connClient[k]], now, rate_limit_per_minute)
                   THEN "checked" ELSE "limited")
  /\ UNCHANGED <<minute, free_tier_usage, rate_limits, made, historyVars>>

\* verify: an amount too small is unpaid before an empty field is invalid.
Verified == [short |-> "unpaid", bare |-> "invalid", good |-> "paid"]

Verify(k) ==
  /\ connAt[k] = "checked" /\ connProof[k] # "none"
  /\ ConnGoes(k, Verified[connProof[k]])
  /\ UNCHANGED <<minute, free_tier_usage, rate_limits, made, historyVars>>

check_free_tier(k) ==
  /\ connAt[k] = "checked" /\ connProof[k] = "none"
  /\ \E now \in TimeRead(k) :
       ConnGoes(k, IF /\ free_tier_enabled
                      /\ HasRoom(free_tier_usage[connClient[k]], Hour(now),
                                 free_tier_requests_per_hour)
                   THEN "freeChecked" ELSE "unpaid")
  /\ UNCHANGED <<minute, free_tier_usage, rate_limits, made, historyVars>>

use_free_tier(k) ==
  LET c == connClient[k] IN
  /\ connAt[k] = "freeChecked"
  /\ \E now \in TimeRead(k) :
       /\ free_tier_usage' = [free_tier_usage EXCEPT ![c] = Count(@, Hour(now))]
       /\ ServeInHour(c, Hour(now) # Hour(minute))
  /\ ConnGoes(k, "paid")
  /\ UNCHANGED <<minute, rate_limits, made>>

record_request(k) ==
  LET c == connClient[k] IN
  /\ connAt[k] = "paid"
  /\ \E now \in TimeRead(k) :
       /\ rate_limits' = [rate_limits EXCEPT ![c] = Count(@, now)]
       /\ ServeInMinute(c, now # minute)
  /\ ConnGoes(k, "ok")
  /\ UNCHANGED <<minute, free_tier_usage, made>>

Respond(k) ==
  /\ connAt[k] \in Outcome
  /\ connAt' = [connAt EXCEPT ![k] = "idle"]
  /\ connClient' = [connClient EXCEPT ![k] = SomeClient]
  /\ connProof' = [connProof EXCEPT ![k] = "none"] /\ connSince' = [connSince EXCEPT ![k] = 0]
  /\ UNCHANGED <<minute, free_tier_usage, rate_limits, made, historyVars>>

GateNext ==
  \/ GateTick
  \/ \E k \in Connection :
       \/ Arrive(k) \/ check_rate_limit(k) \/ Verify(k) \/ check_free_tier(k) \/ use_free_tier(k)
       \/ record_request(k) \/ Respond(k)

-----------------------------------------------------------------------------
\* Requests of a client that the check of a period may let through: the limit
\* and the other requests in the handler.  A limit of 0 lets one through, which
\* meets no entry of its period.
Burst(limit) == (IF limit = 0 THEN 1 ELSE limit) + Cardinality(Connection) - 1

\* A late count takes the entry back to the earlier period, so that the present
\* one starts again: as many once more for each.
Bound(limit, lates) == Burst(limit) * (1 + lates)

\* The check and the count are apart and each reads its own clock, so a burst
\* passes the limit of a minute or an hour, by no more than this.
OvershootBounded ==
  \A c \in Client :
    /\ servedInMinute[c] <= Bound(rate_limit_per_minute, lateInMinute[c])
    /\ servedInHour[c] <= Bound(free_tier_requests_per_hour, lateInHour[c])

CountedIn(usage, period) == IF usage.period = period THEN usage.count ELSE 0

\* Only a late count makes an entry disagree with what was served in its
\* period: nothing else is lost or carried over at the turn of a minute or hour.
CountsAgree ==
  \A c \in Client :
    /\ lateInMinute[c] = 0 => servedInMinute[c] = CountedIn(rate_limits[c], minute)
    /\ lateInHour[c] = 0 => servedInHour[c] = CountedIn(free_tier_usage[c], Hour(minute))

-----------------------------------------------------------------------------
(* How the proxy prices a path (proxy/pricing.rs): pattern_matches walks a     *)
(* rule and a path with two indices, step by step as the code does.  Paths    *)
(* and rules are sequences of segments: empty ones are filtered out, and the  *)
(* method test and the two equalities at the start add no match.              *)

patternVars == <<pattern_parts, path_parts, pi, pa, matches>>

UpTo(n, set) == UNION {[1..k -> set] : k \in 0..n}
Pattern == UpTo(MaxPattern, Segment \cup {Star, DoubleStar})
Path == UpTo(MaxPath, Segment)

PatternTypeOK ==
  /\ pattern_parts \in Pattern /\ path_parts \in Path
  /\ pi \in 1..(Len(pattern_parts) + 1) /\ pa \in 1..(Len(path_parts) + 1)
  /\ matches \in {"walking", "yes", "no"}

\* "**" by itself matches at once, the empty path too; "/**" has the same parts.
PatternInit ==
  /\ pattern_parts \in Pattern /\ path_parts \in Path
  /\ pi = 1 /\ pa = 1
  /\ \/ matches = "walking"
     \/ pattern_parts = <<DoubleStar>> /\ matches = "yes"

InBoth == matches = "walking" /\ pi <= Len(pattern_parts) /\ pa <= Len(path_parts)
Answer(yes) == matches' = (IF yes THEN "yes" ELSE "no") /\ UNCHANGED <<pi, pa>>
Takes(part, segment) == part = Star \/ part = segment

\* Mutant: the segment the index stands on does not count.
LastDoubleStarPast ==
  /\ InBoth /\ pattern_parts[pi] = DoubleStar /\ pi = Len(pattern_parts)
  /\ Answer(pa < Len(path_parts))
LastDoubleStar ==
  /\ InBoth /\ pattern_parts[pi] = DoubleStar /\ pi = Len(pattern_parts)
  /\ Answer(TRUE)

\* i is the first segment the next part takes, or the end of the path.
SkipsTo(part, i) ==
  /\ \A j \in pa..(i - 1) : ~Takes(part, path_parts[j])
  /\ i <= Len(path_parts) => Takes(part, path_parts[i])

InnerDoubleStar ==
  /\ InBoth /\ pattern_parts[pi] = DoubleStar /\ pi < Len(pattern_parts)
  /\ pi' = pi + 1
  /\ \E i \in pa..(Len(path_parts) + 1) : SkipsTo(pattern_parts[pi + 1], i) /\ pa' = i
  /\ UNCHANGED matches

OneSegment ==
  /\ InBoth /\ pattern_parts[pi] # DoubleStar
  /\ IF Takes(pattern_parts[pi], path_parts[pa])
     THEN pi' = pi + 1 /\ pa' = pa + 1 /\ UNCHANGED matches
     ELSE Answer(FALSE)

\* Mutant: what is left of the pattern is forgotten.
OneOverLoosely ==
  /\ matches = "walking" /\ ~InBoth
  /\ Answer(pa > Len(path_parts))
OneOver ==
  /\ matches = "walking" /\ ~InBoth
  /\ Answer(pi > Len(pattern_parts) /\ pa > Len(path_parts))

PatternNext ==
  (LastDoubleStar \/ InnerDoubleStar \/ OneSegment \/ OneOver)
    /\ UNCHANGED <<pattern_parts, path_parts>>

-----------------------------------------------------------------------------
\* The reference: a rule and a path agree when the rule's segments can be laid
\* over the path's in order, a name on itself, * on any one, and ** on any run,
\* an empty one only before other parts.
Lays(start, i) ==
  IF pattern_parts[i] = DoubleStar
  THEN start[i + 1] >= start[i] + (IF i = Len(pattern_parts) THEN 1 ELSE 0)
  ELSE start[i + 1] = start[i] + 1 /\ Takes(pattern_parts[i], path_parts[start[i]])

Glob ==
  LET n == Len(pattern_parts) IN
  \E start \in [1..(n + 1) -> 1..(Len(path_parts) + 1)] :
    /\ start[1] = 1 /\ start[n + 1] = Len(path_parts) + 1
    /\ \A i \in 1..n : Lays(start, i)

\* A rule never prices a path it does not stand for ("**" stands for all).
MatchIsGlob == matches = "yes" => Glob \/ pattern_parts = <<DoubleStar>>

\* One that has ** only at its end, as every default rule, prices every path it
\* stands for.  (A ** before other parts takes the first place where the next
\* part fits and never another, so /**/b/c misses b/x/b/c.)
EveryGlobMatches ==
  matches = "no" /\ (\A i \in DOMAIN pattern_parts : pattern_parts[i] = DoubleStar
                                                       => i = Len(pattern_parts))
    => ~Glob

\* A client is served no more beyond a limit than the requests in flight at each
\* count, and counted as it was served, the late ones apart (proxy/mod.rs); a
\* price rule is applied to the paths it stands for and to no others, a ** before
\* other parts apart (proxy/pricing.rs).
ServedAsPriced == OvershootBounded /\ CountsAgree /\ MatchIsGlob /\ EveryGlobMatches

-----------------------------------------------------------------------------
\* The parts share no state and move one at a time.
ProxyInit == GateInit /\ PatternInit

ProxyTypeOK == GateTypeOK /\ PatternTypeOK

proxyVars == <<gateVars, patternVars>>

ProxyNext ==
    \/ GateNext /\ UNCHANGED patternVars
    \/ PatternNext /\ UNCHANGED gateVars

ProxySpec == ProxyInit /\ [][ProxyNext]_proxyVars
=============================================================================
