------------------------- MODULE RequestGateProofs -------------------------
(***************************************************************************)
(* Keys, for any number of requests and keys, any rotation, any delay and  *)
(* any lifetime of a key set: no published key is refused, and a withdrawn *)
(* one is let through for no longer than a key set travels and lives.      *)
(* The limiter, for any limit and window: no window lets more through, and *)
(* who is told when to come back is let through then.                      *)
(***************************************************************************)
EXTENDS RequestGate, SequenceTheorems, WellFoundedInduction, TLAPS

CallType ==
  [pc : {"idle", "fetch", "travel", "limit"}, kid : Kids, force : BOOLEAN,
   keys : SUBSET Kids, readAt : 0..MaxTime, owed : BOOLEAN]

\* The part of TypeOK that tokens and keys need.
KeysTyped ==
  /\ now \in 0..MaxTime
  /\ published \subseteq Kids
  /\ cached \subseteq Kids
  /\ withdrawn \in [Kids -> 0..Never]
  /\ fetchedAt \in {NeverFetched} \cup 0..MaxTime
  /\ call \in [Requests -> CallType]

\* A request that is owed an answer is on its way to the key it needs.
OwedKeys ==
  \A r \in Requests :
    /\ call[r].pc = "idle" => ~call[r].owed
    /\ call[r].pc = "fetch" /\ call[r].owed => call[r].kid \in published
    /\ call[r].pc = "travel" /\ call[r].owed => call[r].kid \in call[r].keys

\* Keys on their way were published when they were read, which is not long ago.
TravellingKeys ==
  \A r \in Requests : call[r].pc = "travel" =>
    /\ call[r].readAt <= now
    /\ now <= call[r].readAt + MaxDelay
    /\ \A k \in call[r].keys : k \in published \/ call[r].readAt <= withdrawn[k]

\* Keys in the cache came in no later than the longest way after that.
CachedKeys ==
  /\ fetchedAt <= now
  /\ \A k \in cached : k \in published \/ fetchedAt <= withdrawn[k] + MaxDelay

KeysInv == KeysTyped /\ OwedKeys /\ TravellingKeys /\ CachedKeys

LEMMA BoundsTyped ==
  Never \in Nat /\ NeverFetched \in Int /\ 0 \in 0..MaxTime /\ MaxTime < Never
  BY SecondAssumption, WindowAssumption, TimesAssumption DEF Never, NeverFetched

-----------------------------------------------------------------------------
(***************************************************************************)
(* What one turn of the loop of decode_token does: the request is let      *)
(* through with a key that is there, tries once more, or is refused.       *)
(***************************************************************************)
LEMMA WithKeysOutcome ==
  ASSUME NEW r \in Requests, NEW keys, NEW c \in CallType, WithKeys(r, c, keys)
  PROVE  \E d \in CallType :
           /\ call' = [call EXCEPT ![r] = d]
           /\ d.owed = c.owed
           /\ \/ d.pc = "limit" /\ d.kid = c.kid /\ c.kid \in keys
              \/ d.pc = "fetch" /\ d.kid = c.kid /\ ~c.force /\ c.kid \notin keys
              \/ d.pc = "idle" /\ c.force /\ c.kid \notin keys
<1>1. CASE c.kid \in keys
  <2> DEFINE d == [c EXCEPT !.pc = "limit", !.keys = {}]
  <2>1. call' = [call EXCEPT ![r] = d]
    BY <1>1 DEF WithKeys, Goes
  <2>2. d \in CallType /\ d.owed = c.owed /\ d.pc = "limit" /\ d.kid = c.kid
    BY DEF CallType
  <2> QED BY <2>1, <2>2, <1>1
<1>2. CASE c.kid \notin keys /\ c.force
  <2> DEFINE d == [Idle EXCEPT !.owed = c.owed]
  <2>1. call' = [call EXCEPT ![r] = d]
    BY <1>2 DEF WithKeys, Goes, Refused
  <2>2. d \in CallType /\ d.owed = c.owed /\ d.pc = "idle"
    BY BoundsTyped, KidsAssumption DEF CallType, Idle
  <2> QED BY <2>1, <2>2, <1>2
<1>3. CASE c.kid \notin keys /\ ~c.force
  <2> DEFINE d == [c EXCEPT !.pc = "fetch", !.force = TRUE, !.keys = {}]
  <2>1. call' = [call EXCEPT ![r] = d]
    BY <1>3 DEF WithKeys, Goes
  <2>2. d \in CallType /\ d.owed = c.owed /\ d.pc = "fetch" /\ d.kid = c.kid
    BY DEF CallType
  <2> QED BY <2>1, <2>2, <1>3
<1> QED BY <1>1, <1>2, <1>3

LEMMA InitKeys == Init => KeysInv
<1> SUFFICES ASSUME Init PROVE KeysInv
  OBVIOUS
<1>1. Idle \in CallType /\ Idle.pc = "idle" /\ ~Idle.owed
  BY BoundsTyped, KidsAssumption DEF Idle, CallType
<1>2. Never \in Nat
  BY SecondAssumption, WindowAssumption, TimesAssumption DEF Never
<1>3. KeysTyped
  BY <1>1, <1>2, TimesAssumption DEF Init, KeysTyped, NeverFetched
<1>4. OwedKeys /\ TravellingKeys
  BY <1>1 DEF Init, OwedKeys, TravellingKeys
<1>5. CachedKeys
  BY TimesAssumption DEF Init, CachedKeys, NeverFetched
<1> QED BY <1>3, <1>4, <1>5 DEF KeysInv

(***************************************************************************)
(* Every step of a request keeps the invariant.                            *)
(***************************************************************************)
LEMMA ArriveKeys ==
  ASSUME KeysInv, NEW r \in Requests, NEW k \in Kids, Arrive(r, k)
  PROVE  KeysInv'
<1> DEFINE c == [Idle EXCEPT !.kid = k, !.owed = k \in published]
<1> USE DEF KeysInv
<1>0. UNCHANGED <<now, published, withdrawn, cached, fetchedAt>>
  BY DEF Arrive, provider, jwks
<1>1. c \in CallType /\ c.kid = k /\ (c.owed => k \in published) /\ ~c.force
  <2>1. Idle \in CallType /\ ~Idle.force
    BY BoundsTyped, KidsAssumption DEF Idle, CallType
  <2>2. (k \in published) \in BOOLEAN
    OBVIOUS
  <2> QED BY <2>1, <2>2 DEF CallType
<1>2. PICK d \in CallType :
        /\ call' = [call EXCEPT ![r] = d]
        /\ d.owed = c.owed
        /\ d.pc = "limit" \/ (d.pc = "fetch" /\ d.kid = k)
  <2>1. CASE Fresh
    <3>1. WithKeys(r, c, cached)
      BY <2>1 DEF Arrive
    <3> HIDE DEF c
    <3> QED BY <3>1, <1>1, WithKeysOutcome
  <2>2. CASE ~Fresh
    <3> DEFINE d == [c EXCEPT !.pc = "fetch"]
    <3>1. call' = [call EXCEPT ![r] = d]
      BY <2>2 DEF Arrive, Goes
    <3>2. d \in CallType /\ d.owed = c.owed /\ d.pc = "fetch" /\ d.kid = k
      BY <1>1 DEF CallType
    <3> QED BY <3>1, <3>2
  <2> QED BY <2>1, <2>2
<1> HIDE DEF c
<1>3. KeysTyped'
  BY <1>1, <1>0, <1>2 DEF KeysTyped
<1>4. OwedKeys'
  BY <1>1, <1>0, <1>2 DEF KeysTyped, OwedKeys
<1>5. TravellingKeys'
  BY <1>1, <1>0, <1>2 DEF KeysTyped, TravellingKeys
<1>6. CachedKeys'
  BY <1>0 DEF CachedKeys
<1> QED BY <1>3, <1>4, <1>5, <1>6

LEMMA ServeKeys ==
  ASSUME KeysInv, NEW r \in Requests, Serve(r)
  PROVE  KeysInv'
<1> DEFINE d == [call[r] EXCEPT !.pc = "travel", !.keys = published, !.readAt = now]
<1> USE DEF KeysInv
<1>1. /\ d \in CallType /\ d.pc = "travel" /\ d.keys = published /\ d.readAt = now
      /\ d.kid = call[r].kid /\ d.owed = call[r].owed
  BY DEF KeysTyped, CallType
<1>2. /\ call[r].pc = "fetch"
      /\ call' = [call EXCEPT ![r] = d]
      /\ UNCHANGED <<now, published, withdrawn, cached, fetchedAt>>
  BY DEF Serve, Goes, provider, jwks
<1> HIDE DEF d
<1>3. KeysTyped'
  BY <1>1, <1>2 DEF KeysTyped
<1>4. OwedKeys'
  BY <1>1, <1>2 DEF KeysTyped, OwedKeys
<1>5. TravellingKeys'
  BY <1>1, <1>2, TimesAssumption DEF KeysTyped, TravellingKeys
<1>6. CachedKeys'
  BY <1>2 DEF CachedKeys
<1> QED BY <1>3, <1>4, <1>5, <1>6

LEMMA StoreKeys ==
  ASSUME KeysInv, NEW r \in Requests, Store(r)
  PROVE  KeysInv'
<1> DEFINE c == [call[r] EXCEPT !.readAt = 0]
<1> USE DEF KeysInv
<1>1. /\ c \in CallType /\ c.kid = call[r].kid /\ c.owed = call[r].owed
      /\ call[r] \in CallType
  BY BoundsTyped DEF KeysTyped, CallType
<1>2. /\ call[r].pc = "travel"
      /\ cached' = call[r].keys
      /\ fetchedAt' = now
      /\ WithKeys(r, c, call[r].keys)
      /\ UNCHANGED <<now, published, withdrawn>>
  BY DEF Store, provider
<1> HIDE DEF c
<1>3. PICK d \in CallType :
        /\ call' = [call EXCEPT ![r] = d]
        /\ d.owed = c.owed
        /\ \/ d.pc = "limit"
           \/ d.pc \in {"fetch", "idle"} /\ c.kid \notin call[r].keys
  BY <1>1, <1>2, WithKeysOutcome
<1>4. KeysTyped'
  BY <1>1, <1>2, <1>3 DEF KeysTyped, CallType
<1>5. OwedKeys'
  \* Neither refused nor tried again: the key is among those just stored.
  <2>1. call[r].owed => call[r].kid \in call[r].keys
    BY <1>2 DEF OwedKeys
  <2> QED BY <1>1, <1>2, <1>3, <2>1 DEF KeysTyped, OwedKeys
<1>6. TravellingKeys'
  BY <1>2, <1>3 DEF KeysTyped, TravellingKeys
<1>7. CachedKeys'
  BY <1>1, <1>2, TimesAssumption DEF KeysTyped, CallType, CachedKeys, TravellingKeys
<1> QED BY <1>4, <1>5, <1>6, <1>7

LEMMA FetchFailsKeys ==
  ASSUME KeysInv, NEW r \in Requests, FetchFails(r)
  PROVE  KeysInv'
<1> DEFINE c == [call[r] EXCEPT !.readAt = 0, !.owed = FALSE]
<1> USE DEF KeysInv
<1>1. c \in CallType /\ ~c.owed
  BY BoundsTyped DEF KeysTyped, CallType
<1>2. /\ WithKeys(r, c, cached)
      /\ UNCHANGED <<now, published, withdrawn, cached, fetchedAt>>
  BY DEF FetchFails, provider, jwks
<1> HIDE DEF c
<1>3. PICK d \in CallType :
        /\ call' = [call EXCEPT ![r] = d]
        /\ ~d.owed
        /\ d.pc # "travel"
  BY <1>1, <1>2, WithKeysOutcome
<1>4. KeysTyped'
  BY <1>2, <1>3 DEF KeysTyped
<1>5. OwedKeys'
  BY <1>2, <1>3 DEF KeysTyped, OwedKeys
<1>6. TravellingKeys'
  BY <1>2, <1>3 DEF KeysTyped, TravellingKeys
<1>7. CachedKeys'
  BY <1>2 DEF CachedKeys
<1> QED BY <1>4, <1>5, <1>6, <1>7

LEMMA EnforceRateLimitKeys ==
  ASSUME KeysInv, NEW r \in Requests, EnforceRateLimit(r)
  PROVE  KeysInv'
<1> USE DEF KeysInv
<1>1. Idle \in CallType /\ Idle.pc = "idle" /\ ~Idle.owed
  BY BoundsTyped, KidsAssumption DEF Idle, CallType
<1>2. /\ call' = [call EXCEPT ![r] = Idle]
      /\ UNCHANGED <<now, published, withdrawn, cached, fetchedAt>>
  BY DEF EnforceRateLimit, Goes, provider, jwks
<1>3. KeysTyped'
  BY <1>1, <1>2 DEF KeysTyped
<1>4. OwedKeys' /\ TravellingKeys'
  BY <1>1, <1>2 DEF KeysTyped, OwedKeys, TravellingKeys
<1>5. CachedKeys'
  BY <1>2 DEF CachedKeys
<1> QED BY <1>3, <1>4, <1>5

(***************************************************************************)
(* So does the rest of the world.                                          *)
(***************************************************************************)
LEMMA PublishKeys ==
  ASSUME KeysInv, NEW k \in Kids, Publish(k)
  PROVE  KeysInv'
<1> USE DEF KeysInv
<1>1. /\ published' = published \cup {k}
      /\ UNCHANGED <<now, withdrawn, cached, fetchedAt, call>>
  BY DEF Publish, jwks
<1>2. KeysTyped' /\ OwedKeys' /\ TravellingKeys' /\ CachedKeys'
  BY <1>1 DEF KeysTyped, OwedKeys, TravellingKeys, CachedKeys
<1> QED BY <1>2

LEMMA WithdrawKeys ==
  ASSUME KeysInv, NEW k \in Kids, Withdraw(k)
  PROVE  KeysInv'
<1> DEFINE Affected(r) == call[r].pc # "idle" /\ call[r].kid = k
<1> USE DEF KeysInv
<1>1. /\ published' = published \ {k}
      /\ withdrawn' = [withdrawn EXCEPT ![k] = now]
      /\ UNCHANGED <<now, cached, fetchedAt>>
  BY DEF Withdraw, jwks
<1>2. \A r \in Requests :
        call'[r] = IF Affected(r) THEN [call[r] EXCEPT !.owed = FALSE] ELSE call[r]
  BY DEF Withdraw
<1>3. \A r \in Requests :
        /\ call'[r] \in CallType
        /\ call'[r].pc = call[r].pc /\ call'[r].kid = call[r].kid
        /\ call'[r].keys = call[r].keys /\ call'[r].readAt = call[r].readAt
        /\ call'[r].owed => (call[r].owed /\ ~Affected(r))
  <2> SUFFICES ASSUME NEW r \in Requests
               PROVE  /\ call'[r] \in CallType
                      /\ call'[r].pc = call[r].pc /\ call'[r].kid = call[r].kid
                      /\ call'[r].keys = call[r].keys
                      /\ call'[r].readAt = call[r].readAt
                      /\ call'[r].owed => (call[r].owed /\ ~Affected(r))
    OBVIOUS
  <2>1. call[r] \in CallType
    BY DEF KeysTyped
  <2>2. CASE Affected(r)
    <3>1. call'[r] = [call[r] EXCEPT !.owed = FALSE]
      BY <1>2, <2>2
    <3> QED BY <3>1, <2>1 DEF CallType
  <2>3. CASE ~Affected(r)
    BY <1>2, <2>1, <2>3
  <2> QED BY <2>2, <2>3
<1>4. KeysTyped'
  <2>1. call' = [r \in Requests |-> call'[r]]
    BY DEF Withdraw
  <2>2. now \in 0..Never
    BY BoundsTyped, TimesAssumption DEF KeysTyped
  <2> QED BY <1>1, <1>3, <2>1, <2>2 DEF KeysTyped
<1>5. OwedKeys'
  BY <1>1, <1>3 DEF OwedKeys
<1> HIDE DEF Affected
<1>6. TravellingKeys'
  BY <1>1, <1>3 DEF KeysTyped, TravellingKeys, CallType
<1>7. CachedKeys'
  BY BoundsTyped, <1>1, TimesAssumption DEF KeysTyped, CachedKeys
<1> QED BY <1>4, <1>5, <1>6, <1>7

LEMMA RestartKeys ==
  ASSUME KeysInv, Restart
  PROVE  KeysInv'
<1> USE DEF KeysInv
<1>1. Idle \in CallType /\ Idle.pc = "idle" /\ ~Idle.owed
  BY BoundsTyped, KidsAssumption DEF Idle, CallType
<1>2. /\ cached' = {} /\ fetchedAt' = NeverFetched
      /\ call' = [r \in Requests |-> Idle]
      /\ UNCHANGED <<now, published, withdrawn>>
  BY DEF Restart, provider
<1>3. KeysTyped'
  BY BoundsTyped, <1>1, <1>2, TimesAssumption DEF KeysTyped
<1>4. OwedKeys' /\ TravellingKeys'
  BY <1>1, <1>2 DEF OwedKeys, TravellingKeys
<1>5. CachedKeys'
  BY <1>2, TimesAssumption DEF KeysTyped, CachedKeys, NeverFetched
<1> QED BY <1>3, <1>4, <1>5

LEMMA TickKeys ==
  ASSUME KeysInv, Tick
  PROVE  KeysInv'
<1> USE DEF KeysInv
<1>1. /\ \A r \in Requests : call[r].pc = "travel" => now < call[r].readAt + MaxDelay
      /\ now < MaxTime
      /\ now' = now + 1
      /\ UNCHANGED <<published, withdrawn, cached, fetchedAt, call>>
  BY DEF Tick, provider, jwks
<1>2. KeysTyped' /\ OwedKeys' /\ CachedKeys'
  <2>1. KeysTyped'
    BY <1>1, TimesAssumption DEF KeysTyped
  <2>2. fetchedAt <= now + 1
    BY BoundsTyped DEF KeysTyped, CachedKeys
  <2> QED BY <1>1, <2>1, <2>2 DEF OwedKeys, CachedKeys
<1>3. TravellingKeys'
  BY <1>1, TimesAssumption DEF KeysTyped, TravellingKeys, CallType
<1> QED BY <1>2, <1>3

LEMMA StepKeys == KeysInv /\ [Next]_vars => KeysInv'
<1> SUFFICES ASSUME KeysInv, [Next]_vars PROVE KeysInv'
  OBVIOUS
<1>1. ASSUME NEW r \in Requests, NEW k \in Kids, Arrive(r, k) PROVE KeysInv'
  BY <1>1, ArriveKeys
<1>2. ASSUME NEW r \in Requests, Serve(r) PROVE KeysInv'
  BY <1>2, ServeKeys
<1>3. ASSUME NEW r \in Requests, Store(r) PROVE KeysInv'
  BY <1>3, StoreKeys
<1>4. ASSUME NEW r \in Requests, FetchFails(r) PROVE KeysInv'
  BY <1>4, FetchFailsKeys
<1>5. ASSUME NEW r \in Requests, EnforceRateLimit(r) PROVE KeysInv'
  BY <1>5, EnforceRateLimitKeys
<1>6. ASSUME NEW k \in Kids, Publish(k) \/ Withdraw(k) PROVE KeysInv'
  BY <1>6, PublishKeys, WithdrawKeys
<1>7. CASE Restart
  BY <1>7, RestartKeys
<1>8. CASE Tick
  BY <1>8, TickKeys
<1>9. CASE UNCHANGED vars
  BY <1>9 DEF vars, provider, jwks, KeysInv, KeysTyped, OwedKeys, TravellingKeys,
              CachedKeys
<1> QED BY <1>1, <1>2, <1>3, <1>4, <1>5, <1>6, <1>7, <1>8, <1>9 DEF Next

LEMMA KeysCorrect == Spec => []KeysInv
BY InitKeys, StepKeys, PTL DEF Spec

-----------------------------------------------------------------------------
(***************************************************************************)
(* A token is refused only if its key was not served all the time the      *)
(* request took, or the keys could not be fetched (decode_token's loop).   *)
(***************************************************************************)
THEOREM AcceptedCorrect == Spec => []PublishedKeysAccepted
<1>1. KeysInv => PublishedKeysAccepted
  BY DEF KeysInv, OwedKeys, PublishedKeysAccepted
<1> QED BY <1>1, KeysCorrect, PTL

(***************************************************************************)
(* How a request is let through: with a key of the cache as it is after    *)
(* the step, at a moment that is fresh for it.                             *)
(***************************************************************************)
LEMMA LetThrough ==
  ASSUME KeysInv, [Next]_vars, NEW r \in Requests,
         call'[r].pc = "limit", call[r].pc # "limit",
         call[r].pc = "idle" \/ (cached' = call[r].keys /\ fetchedAt' = now)
  PROVE  /\ UNCHANGED <<now, published, withdrawn>>
         /\ call'[r].kid \in cached'
         /\ now < fetchedAt' + TTL
<1> USE DEF KeysInv
<1> call \in [Requests -> CallType] /\ now \in Nat /\ fetchedAt \in Int
  BY BoundsTyped DEF KeysTyped
<1>1. ASSUME NEW q \in Requests, NEW k \in Kids, Arrive(q, k)
      PROVE  /\ UNCHANGED <<now, published, withdrawn>>
             /\ call'[r].kid \in cached'
             /\ now < fetchedAt' + TTL
  <2> DEFINE c == [Idle EXCEPT !.kid = k, !.owed = k \in published]
  <2>1. UNCHANGED <<now, published, withdrawn, cached, fetchedAt>>
    BY <1>1 DEF Arrive, provider, jwks
  <2>2. CASE Fresh
    <3>1. WithKeys(q, c, cached)
      BY <1>1, <2>2 DEF Arrive
    <3>2. c \in CallType
      <4>1. Idle \in CallType
        BY BoundsTyped, KidsAssumption DEF Idle, CallType
      <4>2. (k \in published) \in BOOLEAN
        OBVIOUS
      <4> QED BY <4>1, <4>2 DEF CallType
    <3> HIDE DEF c
    <3>3. PICK d \in CallType :
            /\ call' = [call EXCEPT ![q] = d]
            /\ d.pc = "limit" => d.kid \in cached
      BY <3>1, <3>2, WithKeysOutcome
    <3>4. now < fetchedAt + TTL
      BY <2>2, TimesAssumption DEF Fresh
    <3> QED BY <2>1, <3>3, <3>4
  <2>3. CASE ~Fresh
    <3>1. call' = [call EXCEPT ![q] = [c EXCEPT !.pc = "fetch"]]
      BY <1>1, <2>3 DEF Arrive, Goes
    <3>2. [c EXCEPT !.pc = "fetch"].pc = "fetch"
      BY DEF Idle
    <3> HIDE DEF c
    <3> QED BY <3>1, <3>2
  <2> QED BY <2>2, <2>3
<1>2. ASSUME NEW q \in Requests, Serve(q) PROVE FALSE
  <2>1. call' = [call EXCEPT ![q] = [call[q] EXCEPT !.pc = "travel", !.keys = published,
                                                    !.readAt = now]]
    BY <1>2 DEF Serve, Goes
  <2> QED BY <2>1 DEF CallType
<1>3. ASSUME NEW q \in Requests, Store(q)
      PROVE  /\ UNCHANGED <<now, published, withdrawn>>
             /\ call'[r].kid \in cached'
             /\ now < fetchedAt' + TTL
  <2> DEFINE c == [call[q] EXCEPT !.readAt = 0]
  <2>1. /\ cached' = call[q].keys /\ fetchedAt' = now
        /\ WithKeys(q, c, call[q].keys)
        /\ UNCHANGED <<now, published, withdrawn>>
    BY <1>3 DEF Store, provider
  <2>2. c \in CallType
    BY BoundsTyped DEF CallType
  <2> HIDE DEF c
  <2>3. PICK d \in CallType :
          /\ call' = [call EXCEPT ![q] = d]
          /\ d.pc = "limit" => d.kid \in call[q].keys
    BY <2>1, <2>2, WithKeysOutcome
  <2>4. now < fetchedAt' + TTL
    BY <2>1, TimesAssumption
  <2> QED BY <2>1, <2>3, <2>4
<1>4. ASSUME NEW q \in Requests, FetchFails(q)
      PROVE  /\ UNCHANGED <<now, published, withdrawn>>
             /\ call'[r].kid \in cached'
             /\ now < fetchedAt' + TTL
  <2> DEFINE c == [call[q] EXCEPT !.readAt = 0, !.owed = FALSE]
  <2>1. /\ WithKeys(q, c, cached)
        /\ call[q].pc # "idle"
        /\ UNCHANGED <<now, published, withdrawn, cached, fetchedAt>>
    BY <1>4 DEF FetchFails, provider, jwks
  <2>2. c \in CallType
    BY BoundsTyped DEF CallType
  <2> HIDE DEF c
  <2>3. PICK d \in CallType :
          /\ call' = [call EXCEPT ![q] = d]
          /\ d.pc = "limit" => d.kid \in cached
    BY <2>1, <2>2, WithKeysOutcome
  <2>4. q = r
    BY <2>3
  <2>5. now < fetchedAt' + TTL
    BY <2>1, <2>4, TimesAssumption
  <2> QED BY <2>1, <2>3, <2>5
<1>5. ASSUME NEW q \in Requests, EnforceRateLimit(q) PROVE FALSE
  <2>1. call' = [call EXCEPT ![q] = Idle] /\ Idle.pc = "idle"
    BY <1>5 DEF EnforceRateLimit, Goes, Idle
  <2> QED BY <2>1
<1>6. ASSUME NEW k \in Kids, Publish(k) \/ Withdraw(k) PROVE FALSE
  <2>1. CASE Publish(k)
    BY <2>1 DEF Publish
  <2>2. CASE Withdraw(k)
    <3>1. call'[r] = IF call[r].pc # "idle" /\ call[r].kid = k
                     THEN [call[r] EXCEPT !.owed = FALSE] ELSE call[r]
      BY <2>2 DEF Withdraw
    <3> QED BY <3>1 DEF CallType
  <2> QED BY <1>6, <2>1, <2>2
<1>7. CASE Restart
  BY <1>7 DEF Restart, Idle
<1>8. CASE Tick
  BY <1>8 DEF Tick
<1>9. CASE UNCHANGED vars
  BY <1>9 DEF vars
<1> QED
  BY <1>1, <1>2, <1>3, <1>4, <1>5, <1>6, <1>7, <1>8, <1>9 DEF Next

(***************************************************************************)
(* A withdrawn key is let through for no longer than a key set travels and *)
(* lives, whichever of overlapping fetches comes last (_get_jwks).         *)
(***************************************************************************)
THEOREM ExpiryCorrect == Spec => WithdrawnKeysExpire
<1> DEFINE Expires(r) ==
      LET k == call'[r].kid
      IN  /\ call'[r].pc = "limit" /\ call[r].pc # "limit"
          /\ call[r].pc = "idle" \/ (cached' = call[r].keys /\ fetchedAt' = now)
          => k \in published \/ now < withdrawn[k] + MaxDelay + TTL
<1>1. ASSUME KeysInv, [Next]_vars PROVE \A r \in Requests : Expires(r)
  <2> SUFFICES ASSUME NEW r \in Requests,
                      call'[r].pc = "limit", call[r].pc # "limit",
                      call[r].pc = "idle" \/ (cached' = call[r].keys /\ fetchedAt' = now)
               PROVE  \/ call'[r].kid \in published
                      \/ now < withdrawn[call'[r].kid] + MaxDelay + TTL
    OBVIOUS
  <2> DEFINE k == call'[r].kid
  <2>1. /\ UNCHANGED <<now, published, withdrawn>>
        /\ k \in cached'
        /\ now < fetchedAt' + TTL
    BY <1>1, LetThrough
  <2>2. KeysTyped' /\ CachedKeys'
    BY <1>1, StepKeys DEF KeysInv
  <2> HIDE DEF k
  <2>3. k \in published \/ fetchedAt' <= withdrawn[k] + MaxDelay
    BY <2>1, <2>2 DEF CachedKeys
  <2>4. now \in Int /\ fetchedAt' \in Int /\ withdrawn[k] \in Int
    BY BoundsTyped, <2>1, <2>2 DEF KeysTyped
  <2>5. \A n, f, w \in Int :
          n < f + TTL /\ f <= w + MaxDelay => n < w + MaxDelay + TTL
    BY TimesAssumption
  <2>6. k \in published \/ now < withdrawn[k] + MaxDelay + TTL
    BY <2>1, <2>3, <2>4, <2>5, Zenon
  <2> QED BY <2>6 DEF k
<1>2. [Next]_vars /\ KeysInv => [\A r \in Requests : Expires(r)]_vars
  BY <1>1
<1> HIDE DEF Expires
<1>3. Spec => [][\A r \in Requests : Expires(r)]_vars
  BY <1>2, KeysCorrect, PTL DEF Spec
<1> QED BY <1>3 DEF WithdrawnKeysExpire, Expires

-----------------------------------------------------------------------------
(***************************************************************************)
(* What dropping old hits from the left of a bucket gives.                 *)
(***************************************************************************)
LEMMA LeastMember ==
  ASSUME NEW S \in SUBSET Nat, S # {}
  PROVE  Min(S) \in S /\ \A y \in S : Min(S) <= y
<1> DEFINE R == OpToRel(<, Nat)
<1>1. IsWellFoundedOn(R, Nat)
  BY NatLessThanWellFounded
<1> HIDE DEF R
<1>2. PICK x \in S : \A y \in S : ~ (<<y, x>> \in R)
  BY <1>1, WFMin
<1>3. \A y \in S : x <= y
  <2> SUFFICES ASSUME NEW y \in S, y < x PROVE FALSE
    OBVIOUS
  <2>1. <<y, x>> \in R
    BY DEF R, OpToRel
  <2> QED BY <1>2, <2>1
<1> QED BY <1>2, <1>3 DEF Min

\* b from its m-th hit on is what is left of it at time t.
Keeps(b, t, m) ==
  /\ m \in 1..(Len(b) + 1)
  /\ \A i \in 1..(m - 1) : t - b[i] > Window
  /\ m <= Len(b) => t - b[m] <= Window

LEMMA InWindowKeeps ==
  ASSUME NEW b \in Seq(Nat), NEW t \in Nat
  PROVE  \E m \in 1..(Len(b) + 1) : Keeps(b, t, m) /\ InWindow(b, t) = SubSeq(b, m, Len(b))
<1> DEFINE kept == {i \in DOMAIN b : b[i] >= t - Window}
           S == kept \cup {Len(b) + 1}
           m == Min(S)
<1>1. S \in SUBSET Nat /\ S # {} /\ S \subseteq 1..(Len(b) + 1)
  OBVIOUS
<1>2. m \in S /\ \A y \in S : m <= y
  <2> HIDE DEF S
  <2> QED BY <1>1, LeastMember
<1>3. m \in 1..(Len(b) + 1)
  BY <1>1, <1>2
<1>4. InWindow(b, t) = SubSeq(b, m, Len(b))
  BY DEF InWindow, Since
<1> HIDE DEF m
<1>5. \A i \in 1..(m - 1) : t - b[i] > Window
  BY <1>2, <1>3, WindowAssumption
<1>6. m <= Len(b) => t - b[m] <= Window
  BY <1>2, <1>3, WindowAssumption
<1> QED BY <1>3, <1>4, <1>5, <1>6 DEF Keeps

LEMMA KeepsInWindow ==
  ASSUME NEW b \in Seq(Nat), NEW t \in Nat, NEW m, Keeps(b, t, m)
  PROVE  InWindow(b, t) = SubSeq(b, m, Len(b))
<1>1. PICK n \in 1..(Len(b) + 1) :
        Keeps(b, t, n) /\ InWindow(b, t) = SubSeq(b, n, Len(b))
  BY InWindowKeeps
<1>2. m \in Int /\ n \in Int
  BY DEF Keeps
<1>3. ~(m < n) /\ ~(n < m)
  BY <1>1, <1>2, WindowAssumption DEF Keeps
<1> QED BY <1>1, <1>2, <1>3

\* A bucket whose first hit is in the window is left as it is.
LEMMA InWindowFresh ==
  ASSUME NEW b \in Seq(Nat), NEW t \in Nat, b # <<>> => t - b[1] <= Window
  PROVE  InWindow(b, t) = b
<1>1. Keeps(b, t, 1)
  BY DEF Keeps
<1>2. SubSeq(b, 1, Len(b)) = b
  OBVIOUS
<1> QED BY <1>1, <1>2, KeepsInWindow

LEMMA InWindowEmpty == ASSUME NEW t \in Nat PROVE InWindow(<<>>, t) = <<>>
<1>1. <<>> \in Seq(Nat)
  BY EmptySeq
<1> QED BY <1>1, InWindowFresh

LEMMA InWindowTyped ==
  ASSUME NEW T \in SUBSET Nat, NEW b \in Seq(T), NEW t \in Nat
  PROVE  /\ InWindow(b, t) \in Seq(T)
         /\ Len(InWindow(b, t)) \in Nat
         /\ Len(InWindow(b, t)) <= Len(b)
         /\ InWindow(b, t) # <<>> => t - InWindow(b, t)[1] <= Window
         /\ Len(InWindow(b, t)) = Len(b) => InWindow(b, t) = b
<1>0. b \in Seq(Nat)
  BY SeqMonotonic
<1>1. PICK m \in 1..(Len(b) + 1) :
        Keeps(b, t, m) /\ InWindow(b, t) = SubSeq(b, m, Len(b))
  BY <1>0, InWindowKeeps
<1>2. /\ SubSeq(b, m, Len(b)) \in Seq(T)
      /\ Len(SubSeq(b, m, Len(b))) = Len(b) + 1 - m
      /\ m <= Len(b) => SubSeq(b, m, Len(b))[1] = b[m]
  OBVIOUS
<1>3. SubSeq(b, 1, Len(b)) = b
  OBVIOUS
<1>4. InWindow(b, t) # <<>> => m <= Len(b)
  BY <1>1, <1>2
<1> QED BY <1>1, <1>2, <1>3, <1>4 DEF Keeps

\* Dropping twice is dropping once, at the same moment or later.
LEMMA InWindowTwice ==
  ASSUME NEW b \in Seq(Nat), NEW t \in Nat, NEW u \in Nat, t <= u
  PROVE  InWindow(InWindow(b, t), u) = InWindow(b, u)
<1>1. PICK m \in 1..(Len(b) + 1) :
        Keeps(b, t, m) /\ InWindow(b, t) = SubSeq(b, m, Len(b))
  BY InWindowKeeps
<1> DEFINE c == SubSeq(b, m, Len(b))
<1>2. /\ c \in Seq(Nat) /\ Len(c) = Len(b) + 1 - m
      /\ \A i \in 1..Len(c) : c[i] = b[m + i - 1]
  OBVIOUS
<1>3. PICK n \in 1..(Len(c) + 1) :
        Keeps(c, u, n) /\ InWindow(c, u) = SubSeq(c, n, Len(c))
  <2> HIDE DEF c
  <2> QED BY <1>2, InWindowKeeps
<1>4. Keeps(b, u, m + n - 1)
  <2>1. m + n - 1 \in 1..(Len(b) + 1)
    BY <1>2, <1>3
  <2>2. ASSUME NEW i \in 1..(m + n - 2) PROVE u - b[i] > Window
    <3>1. CASE i < m
      <4>1. t - b[i] > Window
        BY <1>1, <3>1 DEF Keeps
      <4>2. b[i] \in Nat
        BY <3>1
      <4> QED BY <4>1, <4>2, WindowAssumption
    <3>2. CASE i >= m
      <4>1. i - m + 1 \in 1..(n - 1) /\ i - m + 1 \in 1..Len(c)
        BY <3>2, <1>3
      <4>2. c[i - m + 1] = b[i]
        BY <4>1, <1>2
      <4> HIDE DEF c
      <4> QED BY <4>1, <4>2, <1>3 DEF Keeps
    <3> QED BY <3>1, <3>2
  <2>3. ASSUME m + n - 1 <= Len(b) PROVE u - b[m + n - 1] <= Window
    <3>1. n <= Len(c) /\ c[n] = b[m + n - 1]
      BY <1>2, <2>3
    <3> HIDE DEF c
    <3> QED BY <3>1, <1>3 DEF Keeps
  <2> QED BY <2>1, <2>2, <2>3 DEF Keeps
<1>5. InWindow(b, u) = SubSeq(b, m + n - 1, Len(b))
  BY <1>4, KeepsInWindow
<1>6. SubSeq(c, n, Len(c)) = SubSeq(b, m + n - 1, Len(b))
  <2>1. /\ SubSeq(c, n, Len(c)) \in Seq(Nat)
        /\ Len(SubSeq(c, n, Len(c))) = Len(c) + 1 - n
        /\ \A i \in 1..(Len(c) + 1 - n) : SubSeq(c, n, Len(c))[i] = c[n + i - 1]
    <3> HIDE DEF c
    <3> QED BY <1>2
  <2>2. /\ SubSeq(b, m + n - 1, Len(b)) \in Seq(Nat)
        /\ Len(SubSeq(b, m + n - 1, Len(b))) = Len(b) + 2 - m - n
        /\ \A i \in 1..(Len(b) + 2 - m - n) :
             SubSeq(b, m + n - 1, Len(b))[i] = b[m + n + i - 2]
    <3> DEFINE j == m + n - 1
    <3>1. j \in 1..(Len(b) + 1)
      BY <1>2, <1>3
    <3> HIDE DEF j
    <3>2. /\ SubSeq(b, j, Len(b)) \in Seq(Nat)
          /\ Len(SubSeq(b, j, Len(b))) = Len(b) + 1 - j
          /\ \A i \in 1..(Len(b) + 1 - j) : SubSeq(b, j, Len(b))[i] = b[j + i - 1]
      BY <3>1
    <3>3. \A i \in Int : j + i - 1 = m + n + i - 2
      BY <1>3 DEF j
    <3>4. Len(b) + 1 - j = Len(b) + 2 - m - n
      BY <1>3 DEF j
    <3>5. ASSUME NEW i \in 1..(Len(b) + 2 - m - n)
          PROVE  SubSeq(b, j, Len(b))[i] = b[m + n + i - 2]
      <4>1. i \in 1..(Len(b) + 1 - j)
        BY <3>4
      <4>2. SubSeq(b, j, Len(b))[i] = b[j + i - 1]
        BY <3>2, <4>1
      <4> QED BY <4>2, <3>3
    <3> QED BY <3>2, <3>4, <3>5 DEF j
  <2>3. ASSUME NEW i \in 1..(Len(b) + 2 - m - n)
        PROVE  c[n + i - 1] = b[m + n + i - 2]
    <3>1. n + i - 1 \in 1..Len(c) /\ m + (n + i - 1) - 1 = m + n + i - 2
      BY <1>2, <1>3
    <3> HIDE DEF c
    <3> QED BY <3>1, <1>2
  <2>4. /\ Len(SubSeq(c, n, Len(c))) = Len(SubSeq(b, m + n - 1, Len(b)))
        /\ Len(SubSeq(b, m + n - 1, Len(b))) = Len(b) + 2 - m - n
    BY <1>2, <2>1, <2>2
  <2> DEFINE p == SubSeq(c, n, Len(c))
             q == SubSeq(b, m + n - 1, Len(b))
  <2>5. \A i \in 1..Len(p) : p[i] = q[i]
    <3> SUFFICES ASSUME NEW i \in 1..(Len(b) + 2 - m - n) PROVE p[i] = q[i]
      BY <2>4
    <3>1. Len(c) + 1 - n = Len(b) + 2 - m - n
      BY <1>2
    <3> HIDE DEF c
    <3> QED BY <3>1, <2>1, <2>2, <2>3
  <2> HIDE DEF p, q
  <2>6. p \in Seq(Nat) /\ q \in Seq(Nat) /\ Len(p) = Len(q)
    BY <2>1, <2>2, <2>4 DEF p, q
  <2>7. p = q
    BY <2>5, <2>6, SeqEqual
  <2> QED BY <2>7 DEF p, q
<1> QED BY <1>1, <1>3, <1>5, <1>6

-----------------------------------------------------------------------------
(***************************************************************************)
(* The limiter: what is still in the window is what was admitted in it,    *)
(* and what a rejected user was told lies past the end of a full bucket.   *)
(***************************************************************************)
HitsTyped ==
  /\ now \in 0..MaxTime
  /\ hits \in Seq(0..now)
  /\ Len(hits) <= Limit
  /\ told \in Nat

ToldTrue ==
  told # Never /\ Limit > 0 /\ Len(hits) = Limit => hits[1] + Window < told

LimiterInv ==
  /\ HitsTyped
  /\ admitted = InWindow(hits, now)
  /\ ToldTrue

LEMMA InitLimiter == Init => LimiterInv
<1> SUFFICES ASSUME Init PROVE LimiterInv
  OBVIOUS
<1>1. HitsTyped
  BY BoundsTyped, LimitAssumption DEF Init, HitsTyped
<1>2. InWindow(<<>>, now) = <<>>
  <2>1. now \in Nat
    BY <1>1 DEF HitsTyped
  <2> QED BY <2>1, InWindowEmpty
<1> QED BY <1>1, <1>2 DEF Init, LimiterInv, ToldTrue

\* What is left of the bucket when the limiter looks at it.
LEMMA Bucket ==
  ASSUME LimiterInv
  PROVE  LET bucket == InWindow(hits, now)
         IN  /\ bucket \in Seq(0..now)
             /\ Len(bucket) \in Nat
             /\ Len(bucket) <= Limit
             /\ bucket # <<>> => now - bucket[1] <= Window
             /\ Len(bucket) = Limit => bucket = hits
<1>1. 0..now \in SUBSET Nat /\ now \in Nat /\ hits \in Seq(0..now) /\ Len(hits) <= Limit
      /\ Len(hits) \in Nat
  BY DEF LimiterInv, HitsTyped
<1> DEFINE bucket == InWindow(hits, now)
<1>2. /\ bucket \in Seq(0..now)
      /\ Len(bucket) \in Nat
      /\ Len(bucket) <= Len(hits)
      /\ bucket # <<>> => now - bucket[1] <= Window
      /\ Len(bucket) = Len(hits) => bucket = hits
  BY <1>1, InWindowTyped
<1> HIDE DEF bucket
<1>3. Len(bucket) <= Limit /\ (Len(bucket) = Limit => bucket = hits)
  BY <1>1, <1>2, LimitAssumption
<1> QED BY <1>2, <1>3 DEF bucket

\* Retry-After ends after the oldest hit has left the window.
LEMMA RetryAfterEnough ==
  ASSUME NEW b \in Seq(0..now), now \in Nat, b # <<>>, now - b[1] <= Window
  PROVE  /\ RetryAfter(b) \in Nat
         /\ b[1] + Window < now + RetryAfter(b)
<1> DEFINE x == Window - (now - b[1])
<1>1. b[1] \in 0..now /\ Head(b) = b[1] /\ x \in Nat
  BY WindowAssumption
<1>2. RetryAfter(b) = (x \div Second + 1) * Second
  BY <1>1 DEF RetryAfter
<1>3. x = Window - (now - b[1])
  OBVIOUS
<1> HIDE DEF x
<1>4. (x \div Second + 1) * Second > x /\ (x \div Second + 1) * Second \in Nat
  BY <1>1, SecondAssumption
<1> QED BY <1>1, <1>2, <1>3, <1>4, WindowAssumption

\* A hit added now is in the window, and so is what is before it.
LEMMA BucketWithHit ==
  ASSUME LimiterInv, Len(InWindow(hits, now)) < Limit
  PROVE  LET bucket == Append(InWindow(hits, now), now)
         IN  /\ bucket \in Seq(0..now)
             /\ Len(bucket) <= Limit
             /\ InWindow(bucket, now) = bucket
<1> DEFINE old == InWindow(hits, now)
           bucket == Append(old, now)
<1>1. now \in Nat
  BY DEF LimiterInv, HitsTyped
<1>2. /\ old \in Seq(0..now)
      /\ Len(old) \in Nat
      /\ old # <<>> => now - old[1] <= Window
  BY Bucket
<1>3. Len(old) < Limit
  OBVIOUS
<1> HIDE DEF old
<1>4. /\ bucket \in Seq(0..now)
      /\ Len(bucket) = Len(old) + 1
      /\ bucket[1] = IF old = <<>> THEN now ELSE old[1]
  BY <1>1, <1>2
<1> HIDE DEF bucket
<1>5. now - bucket[1] <= Window
  <2>1. CASE old = <<>>
    BY <1>1, <1>4, <2>1, WindowAssumption
  <2>2. CASE old # <<>>
    BY <1>2, <1>4, <2>2
  <2> QED BY <2>1, <2>2
<1>6. bucket \in Seq(Nat)
  BY <1>1, <1>4, SeqMonotonic
<1>7. InWindow(bucket, now) = bucket
  BY <1>1, <1>5, <1>6, InWindowFresh
<1> QED BY <1>2, <1>3, <1>4, <1>7, LimitAssumption DEF bucket, old

LEMMA EnforceRateLimitLimiter ==
  ASSUME LimiterInv, NEW r \in Requests, EnforceRateLimit(r)
  PROVE  LimiterInv'
<1> DEFINE bucket == InWindow(hits, now)
<1>0. now' = now /\ now \in Nat /\ now \in 0..MaxTime /\ told \in Nat
  BY DEF EnforceRateLimit, LimiterInv, HitsTyped
<1>b. /\ bucket \in Seq(0..now) /\ Len(bucket) \in Nat /\ Len(bucket) <= Limit
      /\ bucket # <<>> => now - bucket[1] <= Window
      /\ Len(bucket) = Limit => bucket = hits
  BY Bucket
<1>1. CASE Limit = 0
  <2>1. UNCHANGED <<hits, admitted, told>>
    BY <1>1 DEF EnforceRateLimit, limiter
  <2> QED BY <1>0, <2>1 DEF LimiterInv, HitsTyped, ToldTrue
<1>2. CASE Limit # 0 /\ Len(bucket) >= Limit
  <2>1. /\ hits' = bucket
        /\ told' = IF told = Never THEN now + RetryAfter(bucket) ELSE told
        /\ admitted' = admitted
    BY <1>2 DEF EnforceRateLimit
  <2>2. Len(bucket) = Limit /\ bucket = hits /\ bucket # <<>>
    <3> HIDE DEF bucket
    <3> QED BY <1>2, <1>b, LimitAssumption
  <2>3. RetryAfter(bucket) \in Nat /\ bucket[1] + Window < now + RetryAfter(bucket)
    <3> HIDE DEF bucket
    <3> QED BY <1>0, <1>b, <2>2, RetryAfterEnough
  <2>4. HitsTyped'
    <3> HIDE DEF bucket
    <3> QED BY <1>0, <1>b, <2>1, <2>3 DEF HitsTyped
  <2>5. admitted' = InWindow(hits', now')
    BY <1>0, <2>1, <2>2 DEF LimiterInv
  <2>6. ToldTrue'
    <3> HIDE DEF bucket
    <3> QED BY <1>2, <2>1, <2>2, <2>3 DEF ToldTrue, LimiterInv, Never
  <2> QED BY <2>4, <2>5, <2>6 DEF LimiterInv
<1>3. CASE Limit # 0 /\ ~(Len(bucket) >= Limit)
  <2>1. /\ hits' = Append(bucket, now)
        /\ told' = Never
        /\ admitted' = Append(admitted, now)
    BY <1>3 DEF EnforceRateLimit
  <2>2. Len(bucket) < Limit
    <3> HIDE DEF bucket
    <3> QED BY <1>3, <1>b, LimitAssumption
  <2>3. /\ hits' \in Seq(0..now)
        /\ Len(hits') <= Limit
        /\ InWindow(hits', now) = hits'
    BY <2>1, <2>2, BucketWithHit
  <2>4. admitted' = hits'
    BY <2>1 DEF LimiterInv
  <2>5. HitsTyped' /\ ToldTrue'
    BY <1>0, <2>1, <2>3, BoundsTyped DEF HitsTyped, ToldTrue, Never
  <2> QED BY <1>0, <2>3, <2>4, <2>5 DEF LimiterInv
<1> QED BY <1>1, <1>2, <1>3

LEMMA TickLimiter ==
  ASSUME LimiterInv, Tick
  PROVE  LimiterInv'
<1>0. InWindow(admitted, now + 1) = Since(admitted, (now + 1) - Window)
  BY DEF InWindow
<1>1. /\ now < MaxTime /\ now' = now + 1
      /\ admitted' = InWindow(admitted, now + 1)
      /\ UNCHANGED <<hits, told>>
  BY <1>0 DEF Tick
<1>2. now \in Nat /\ hits \in Seq(0..now)
  BY DEF LimiterInv, HitsTyped
<1>3. hits \in Seq(Nat) /\ hits \in Seq(0..(now + 1))
  <2>1. 0..now \subseteq Nat /\ 0..now \subseteq 0..(now + 1)
    BY <1>2
  <2> QED BY <1>2, <2>1, SeqMonotonic
<1>4. InWindow(InWindow(hits, now), now + 1) = InWindow(hits, now + 1)
  BY <1>2, <1>3, InWindowTwice
<1>5. HitsTyped'
  BY <1>1, <1>2, <1>3, TimesAssumption DEF LimiterInv, HitsTyped
<1>6. ToldTrue'
  BY <1>1 DEF LimiterInv, ToldTrue
<1> QED BY <1>1, <1>4, <1>5, <1>6 DEF LimiterInv

LEMMA StepLimiter == LimiterInv /\ [Next]_vars => LimiterInv'
<1> SUFFICES ASSUME LimiterInv, [Next]_vars PROVE LimiterInv'
  OBVIOUS
<1>1. ASSUME UNCHANGED <<now, limiter>> PROVE LimiterInv'
  BY <1>1 DEF limiter, LimiterInv, HitsTyped, ToldTrue
<1>2. ASSUME NEW r \in Requests, NEW k \in Kids, Arrive(r, k) PROVE UNCHANGED <<now, limiter>>
  BY <1>2 DEF Arrive
<1>3. ASSUME NEW r \in Requests, Serve(r) \/ Store(r) \/ FetchFails(r)
      PROVE  UNCHANGED <<now, limiter>>
  BY <1>3 DEF Serve, Store, FetchFails
<1>4. ASSUME NEW r \in Requests, EnforceRateLimit(r) PROVE LimiterInv'
  BY <1>4, EnforceRateLimitLimiter
<1>5. ASSUME NEW k \in Kids, Publish(k) \/ Withdraw(k) PROVE UNCHANGED <<now, limiter>>
  BY <1>5 DEF Publish, Withdraw
<1>6. CASE Restart
  <2>1. hits' = <<>> /\ admitted' = <<>> /\ told' = Never /\ now' = now
    BY <1>6 DEF Restart
  <2>2. HitsTyped'
    BY <2>1, BoundsTyped, LimitAssumption DEF LimiterInv, HitsTyped
  <2>3. InWindow(<<>>, now) = <<>>
    <3>1. now \in Nat
      BY DEF LimiterInv, HitsTyped
    <3> QED BY <3>1, InWindowEmpty
  <2> QED BY <2>1, <2>2, <2>3 DEF LimiterInv, ToldTrue, Never
<1>7. CASE Tick
  BY <1>7, TickLimiter
<1>8. CASE UNCHANGED vars
  BY <1>8, <1>1 DEF vars
<1> QED BY <1>1, <1>2, <1>3, <1>4, <1>5, <1>6, <1>7, <1>8 DEF Next

LEMMA LimiterCorrect == Spec => []LimiterInv
BY InitLimiter, StepLimiter, PTL DEF Spec

-----------------------------------------------------------------------------
(***************************************************************************)
(* Every variable has its type, and a bucket never outgrows the limit.     *)
(***************************************************************************)
THEOREM TypeCorrect == Spec => []TypeOK
<1>1. KeysInv /\ LimiterInv => TypeOK
  BY DEF KeysInv, KeysTyped, LimiterInv, HitsTyped, TypeOK, CallType
<1> QED BY <1>1, KeysCorrect, LimiterCorrect, PTL

(***************************************************************************)
(* No window, both ends included, lets more than the limit through, for    *)
(* any limit and length of the window (enforce_rate_limit).                *)
(***************************************************************************)
THEOREM WindowCorrect == Spec => []WindowBound
<1>1. LimiterInv => WindowBound
  <2> SUFFICES ASSUME LimiterInv PROVE Len(admitted) <= Limit
    BY DEF WindowBound
  <2> QED BY Bucket DEF LimiterInv
<1> QED BY <1>1, LimiterCorrect, PTL

(***************************************************************************)
(* A request that leaves the limiter without being admitted, the process   *)
(* not having restarted, found a full bucket.                              *)
(***************************************************************************)
LEMMA Rejected ==
  ASSUME KeysInv, LimiterInv, [Next]_vars, NEW r \in Requests,
         call[r].pc = "limit", call'[r].pc = "idle", admitted' = admitted, hits' # <<>>
  PROVE  Limit > 0 /\ Len(InWindow(hits, now)) = Limit
<1> call \in [Requests -> CallType]
  BY DEF KeysInv, KeysTyped
<1> DEFINE bucket == InWindow(hits, now)
<1>b. /\ bucket \in Seq(0..now) /\ Len(bucket) \in Nat /\ Len(bucket) <= Limit
  BY Bucket
<1>1. ASSUME NEW q \in Requests, NEW k \in Kids, Arrive(q, k) PROVE FALSE
  BY <1>1 DEF Arrive, WithKeys, Goes, Refused
<1>2. ASSUME NEW q \in Requests, Serve(q) \/ Store(q) \/ FetchFails(q) PROVE FALSE
  BY <1>2 DEF Serve, Store, FetchFails, WithKeys, Goes, Refused
<1>3. ASSUME NEW q \in Requests, EnforceRateLimit(q) PROVE Limit > 0 /\ Len(bucket) = Limit
  <2>1. CASE Limit = 0
    <3>1. hits' = hits /\ Len(hits) <= 0 /\ hits \in Seq(0..now)
      BY <1>3, <2>1 DEF EnforceRateLimit, limiter, LimiterInv, HitsTyped
    <3> QED BY <3>1
  <2>2. CASE Limit # 0 /\ ~(Len(bucket) >= Limit)
    <3>1. admitted' = Append(admitted, now) /\ admitted = bucket
      BY <1>3, <2>2 DEF EnforceRateLimit, LimiterInv
    <3> HIDE DEF bucket
    <3>2. Len(Append(bucket, now)) = Len(bucket) + 1
      BY <1>b
    <3> QED BY <3>1, <3>2, <1>b
  <2>3. CASE Limit # 0 /\ Len(bucket) >= Limit
    <3> HIDE DEF bucket
    <3> QED BY <2>3, <1>b, LimitAssumption
  <2> QED BY <2>1, <2>2, <2>3
<1>4. ASSUME NEW k \in Kids, Publish(k) \/ Withdraw(k) PROVE FALSE
  <2>1. CASE Publish(k)
    BY <2>1 DEF Publish
  <2>2. CASE Withdraw(k)
    <3>1. call'[r] = IF call[r].pc # "idle" /\ call[r].kid = k
                     THEN [call[r] EXCEPT !.owed = FALSE] ELSE call[r]
      BY <2>2 DEF Withdraw
    <3> QED BY <3>1 DEF CallType
  <2> QED BY <1>4, <2>1, <2>2
<1>5. CASE Restart \/ Tick \/ UNCHANGED vars
  BY <1>5 DEF Restart, Tick, vars
<1> QED BY <1>1, <1>2, <1>3, <1>4, <1>5 DEF Next

(***************************************************************************)
(* Retry-After is true for any limit, window and clock: who comes back no  *)
(* earlier than told is let through (the 429 of enforce_rate_limit).       *)
(***************************************************************************)
THEOREM RetryAfterCorrect == Spec => RetryAfterIsTrue
<1> DEFINE True(r) ==
      call[r].pc = "limit" /\ call'[r].pc = "idle" /\ admitted' = admitted /\ hits' # <<>>
        => now < told
<1>1. ASSUME KeysInv, LimiterInv, [Next]_vars PROVE \A r \in Requests : True(r)
  <2> SUFFICES ASSUME NEW r \in Requests,
                      call[r].pc = "limit", call'[r].pc = "idle",
                      admitted' = admitted, hits' # <<>>
               PROVE  now < told
    OBVIOUS
  <2>1. Limit > 0 /\ Len(InWindow(hits, now)) = Limit
    BY <1>1, Rejected
  <2>2. /\ hits = InWindow(hits, now) /\ Len(hits) = Limit
        /\ InWindow(hits, now) # <<>> => now - InWindow(hits, now)[1] <= Window
    BY <1>1, <2>1, Bucket
  <2>3. hits \in Seq(0..now) /\ now \in 0..MaxTime /\ told \in Nat
    BY <1>1 DEF LimiterInv, HitsTyped
  <2>4. hits # <<>> /\ hits[1] \in 0..now
    BY <2>1, <2>2, <2>3
  <2>5. now - hits[1] <= Window
    BY <2>2, <2>4
  <2>6. CASE told = Never
    BY <2>3, <2>6, BoundsTyped, TimesAssumption
  <2>7. CASE told # Never
    <3>1. hits[1] + Window < told
      BY <1>1, <2>1, <2>2, <2>7 DEF LimiterInv, ToldTrue
    <3> QED BY <3>1, <2>3, <2>4, <2>5, WindowAssumption
  <2> QED BY <2>6, <2>7
<1>2. [Next]_vars /\ KeysInv /\ LimiterInv => [\A r \in Requests : True(r)]_vars
  BY <1>1
<1> HIDE DEF True
<1>3. Spec => [][\A r \in Requests : True(r)]_vars
  BY <1>2, KeysCorrect, LimiterCorrect, PTL DEF Spec
<1> QED BY <1>3 DEF RetryAfterIsTrue, True
=============================================================================
