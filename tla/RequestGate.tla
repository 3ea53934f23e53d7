---------------------------- MODULE RequestGate ----------------------------
(***************************************************************************)
(* What a request passes before it is answered: decode_token with the      *)
(* cached signing keys of app/core/security.py, then enforce_rate_limit of *)
(* app/core/rate_limit.py.                                                 *)
(*                                                                         *)
(* Requests are coroutines of one process.  They give way to each other    *)
(* while keys are fetched and nowhere inside the limiter; all are of one   *)
(* user, as the limiter keeps a bucket for each.  The identity provider    *)
(* adds and withdraws keys whenever it likes; tokens carry a good          *)
(* signature by the key they name.  Time is counted in ticks, some of      *)
(* which make a second.                                                    *)
(***************************************************************************)
EXTENDS Integers, Sequences, FiniteSetsExt

CONSTANTS
  Requests,   \* requests one user may have under way
  Kids,       \* signing keys
  Second,     \* ticks to a second
  Window,     \* _WINDOW_SECONDS, in ticks
  Limit,      \* rate_limit_per_minute
  TTL,        \* _JWKS_TTL_SECONDS, in ticks
  MaxDelay,   \* the longest a key set travels from the provider, in ticks
  MaxTime     \* bound on the clock

ASSUME SecondAssumption == Second \in Nat \ {0}
ASSUME WindowAssumption == Window \in Nat /\ Window % Second = 0
ASSUME LimitAssumption  == Limit \in Nat
ASSUME TimesAssumption  == TTL \in Nat \ {0} /\ MaxDelay \in Nat /\ MaxTime \in Nat
ASSUME KidsAssumption   == Kids # {}

VARIABLES
  now,
  published,  \* the keys the provider serves
  withdrawn,  \* history: when it withdrew the others
  cached,     \* _jwks_cache
  fetchedAt,  \* _jwks_fetched_at
  call,       \* each request
  hits,       \* the user's bucket in _hits
  admitted,   \* history: admissions in the window that ends now
  told        \* history: when the user was told to come back

provider == <<published, withdrawn>>
jwks == <<cached, fetchedAt>>
limiter == <<hits, admitted, told>>
vars == <<now, provider, jwks, call, limiter>>

Never == MaxTime + Window + Second + 1
NeverFetched == -TTL

\* keys: what the provider has answered, and when it read them; owed: history,
\* the key was served all along and no fetch of this request has failed.
Idle ==
  [pc |-> "idle", kid |-> CHOOSE k \in Kids : TRUE, force |-> FALSE,
   keys |-> {}, readAt |-> 0, owed |-> FALSE]

Init ==
  /\ now = 0
  /\ published \in SUBSET Kids
  /\ withdrawn = [k \in Kids |-> Never]
  /\ cached = {}
  /\ fetchedAt = NeverFetched
  /\ call = [r \in Requests |-> Idle]
  /\ hits = <<>>
  /\ admitted = <<>>
  /\ told = Never

-----------------------------------------------------------------------------
(***************************************************************************)
(* decode_token.                                                           *)
(***************************************************************************)

Goes(r, c) == call' = [call EXCEPT ![r] = c]

\* 401.
Refused(r, c) == Goes(r, [Idle EXCEPT !.owed = c.owed])

\* Mutant: keys once fetched are never too old.
FreshForEver == cached # {}

\* _get_jwks answers from the cache.
Fresh == cached # {} /\ now - fetchedAt < TTL

\* Mutant: a key that is not known is not fetched either.
WithoutRetry(r, c, keys) ==
  IF c.kid \in keys THEN Goes(r, [c EXCEPT !.pc = "limit", !.keys = {}])
  ELSE Refused(r, c)

\* One turn of the loop: the key is there, or it is worth asking once more.
WithKeys(r, c, keys) ==
  IF c.kid \in keys THEN Goes(r, [c EXCEPT !.pc = "limit", !.keys = {}])
  ELSE IF c.force THEN Refused(r, c)
  ELSE Goes(r, [c EXCEPT !.pc = "fetch", !.force = TRUE, !.keys = {}])

Arrive(r, k) ==
  LET c == [Idle EXCEPT !.kid = k, !.owed = k \in published]
  IN  /\ call[r].pc = "idle"
      /\ IF Fresh THEN WithKeys(r, c, cached)
         ELSE Goes(r, [c EXCEPT !.pc = "fetch"])
      /\ UNCHANGED <<now, provider, jwks, limiter>>

\* The provider reads its keys for an answer, which then travels.
Serve(r) ==
  /\ call[r].pc = "fetch"
  /\ Goes(r, [call[r] EXCEPT !.pc = "travel", !.keys = published, !.readAt = now])
  /\ UNCHANGED <<now, provider, jwks, limiter>>

\* The answer is stored over whatever another request stored meanwhile.
Store(r) ==
  /\ call[r].pc = "travel"
  /\ cached' = call[r].keys
  /\ fetchedAt' = now
  /\ WithKeys(r, [call[r] EXCEPT !.readAt = 0], call[r].keys)
  /\ UNCHANGED <<now, provider, limiter>>

\* "Stale keys beat no keys."
FetchFails(r) ==
  /\ call[r].pc \in {"fetch", "travel"}
  /\ WithKeys(r, [call[r] EXCEPT !.readAt = 0, !.owed = FALSE], cached)
  /\ UNCHANGED <<now, provider, jwks, limiter>>

-----------------------------------------------------------------------------
(***************************************************************************)
(* enforce_rate_limit.                                                     *)
(***************************************************************************)

\* What is left of hits in order when those before start are dropped from the left.
Since(bucket, start) ==
  LET kept == {i \in DOMAIN bucket : bucket[i] >= start}
  IN  SubSeq(bucket, Min(kept \cup {Len(bucket) + 1}), Len(bucket))

\* Mutant: a hit exactly a window old is dropped.
InWindowOpen(bucket, time) == Since(bucket, time - Window + 1)

\* Hits are dropped as long as they are older than a window.
InWindow(bucket, time) == Since(bucket, time - Window)

\* Mutant: rounded down.
RetryAfterFloor(bucket) == ((Window - (now - Head(bucket))) \div Second) * Second

\* Whole seconds, rounded up past the end of the window.
RetryAfter(bucket) == ((Window - (now - Head(bucket))) \div Second + 1) * Second

\* Mutant: rejected requests count.
EnforceCountingAll(r) ==
  LET bucket == InWindow(hits, now)
  IN  /\ call[r].pc = "limit"
      /\ hits' = Append(bucket, now)
      /\ admitted' = IF Len(bucket) >= Limit THEN admitted ELSE Append(admitted, now)
      /\ Goes(r, Idle)
      /\ UNCHANGED <<now, provider, jwks, told>>

EnforceRateLimit(r) ==
  LET bucket == InWindow(hits, now)
  IN  /\ call[r].pc = "limit"
      /\ IF Limit = 0
         THEN UNCHANGED limiter /\ Goes(r, Idle)
         ELSE IF Len(bucket) >= Limit
         THEN /\ hits' = bucket
              /\ told' = IF told = Never THEN now + RetryAfter(bucket) ELSE told
              /\ UNCHANGED admitted
              /\ Goes(r, Idle)
         ELSE /\ hits' = Append(bucket, now)
              /\ told' = Never
              /\ admitted' = Append(admitted, now)
              /\ Goes(r, Idle)
      /\ UNCHANGED <<now, provider, jwks>>

-----------------------------------------------------------------------------
(***************************************************************************)
(* The provider, the process, the clock.                                   *)
(***************************************************************************)

Publish(k) ==
  /\ k \notin published
  /\ withdrawn[k] = Never
  /\ published' = published \cup {k}
  /\ UNCHANGED <<now, withdrawn, jwks, call, limiter>>

Withdraw(k) ==
  /\ k \in published
  /\ published' = published \ {k}
  /\ withdrawn' = [withdrawn EXCEPT ![k] = now]
  /\ call' = [r \in Requests |->
       IF call[r].pc # "idle" /\ call[r].kid = k
       THEN [call[r] EXCEPT !.owed = FALSE] ELSE call[r]]
  /\ UNCHANGED <<now, jwks, limiter>>

\* All of it is in memory.
Restart ==
  /\ cached' = {}
  /\ fetchedAt' = NeverFetched
  /\ call' = [r \in Requests |-> Idle]
  /\ hits' = <<>>
  /\ admitted' = <<>>
  /\ told' = Never
  /\ UNCHANGED <<now, provider>>

\* No answer travels for longer than MaxDelay.
Tick ==
  /\ now < MaxTime
  /\ \A r \in Requests : call[r].pc = "travel" => now < call[r].readAt + MaxDelay
  /\ now' = now + 1
  /\ admitted' = Since(admitted, (now + 1) - Window)
  /\ UNCHANGED <<provider, jwks, call, hits, told>>

Next ==
  \/ \E r \in Requests, k \in Kids : Arrive(r, k)
  \/ \E r \in Requests : Serve(r) \/ Store(r) \/ FetchFails(r) \/ EnforceRateLimit(r)
  \/ \E k \in Kids : Publish(k) \/ Withdraw(k)
  \/ Restart
  \/ Tick

Spec == Init /\ [][Next]_vars
-----------------------------------------------------------------------------
(***************************************************************************)
(* Properties.                                                             *)
(***************************************************************************)

(***************************************************************************)
(* Type invariant; a bucket never holds more than the limit.               *)
(***************************************************************************)
TypeOK ==
  /\ now \in 0..MaxTime
  /\ published \cup cached \subseteq Kids
  /\ withdrawn \in [Kids -> 0..Never]
  /\ fetchedAt \in {NeverFetched} \cup 0..MaxTime
  /\ call \in [Requests -> [pc : {"idle", "fetch", "travel", "limit"}, kid : Kids,
                         force : BOOLEAN, keys : SUBSET Kids, readAt : 0..MaxTime,
                         owed : BOOLEAN]]
  /\ hits \in Seq(0..now)
  /\ Len(hits) <= Limit

(***************************************************************************)
(* A token whose key the provider has withdrawn is let through for no      *)
(* longer than a key set lives in the cache after it has travelled, also   *)
(* when an old answer overtakes a newer one, unless the request's own      *)
(* attempt to fetch the keys has failed.                                   *)
(***************************************************************************)
WithdrawnKeysExpire ==
  [][ \A r \in Requests :
        LET k == call'[r].kid
        IN  /\ call'[r].pc = "limit" /\ call[r].pc # "limit"
            /\ call[r].pc = "idle" \/ (cached' = call[r].keys /\ fetchedAt' = now)
            => k \in published \/ now < withdrawn[k] + MaxDelay + TTL ]_vars

(***************************************************************************)
(* "If we do not have it, the project may have rotated, so refetch once    *)
(* before giving up": a token is refused only if its key was not served    *)
(* all the time the request took, or the keys could not be fetched.        *)
(***************************************************************************)
PublishedKeysAccepted == \A r \in Requests : call[r].pc = "idle" => ~call[r].owed

(***************************************************************************)
(* Between two restarts no sixty seconds, both ends included, let more     *)
(* than the limit of one user's requests through.                          *)
(***************************************************************************)
WindowBound == Limit > 0 => Len(admitted) <= Limit

(***************************************************************************)
(* Retry-After is true: who was rejected and comes back no earlier than    *)
(* told is let through, however often they were rejected in between.       *)
(***************************************************************************)
RetryAfterIsTrue ==
  [][ \A r \in Requests :
        call[r].pc = "limit" /\ call'[r].pc = "idle"
            /\ admitted' = admitted /\ hits' # <<>>
          => now < told ]_vars
=============================================================================
