-------------------------- MODULE ProfilerRunProofs --------------------------
(***************************************************************************)
(* Proofs about Access, for any users, lifetime, clock and number of       *)
(* restarts, and about the runs of the profiler that compose it, for any   *)
(* list of profiles and number of runs.                                    *)
(***************************************************************************)
EXTENDS ProfilerRun, FiniteSetTheorems, SequenceTheorems, TLAPS

(***************************************************************************)
(* Access.                                                                 *)
(***************************************************************************)

\* Which secret is in use, and that tokens carry one that was: what makes a
\* key that is not in use now out of use for ever.
Keys ==
    /\ secret = IF configured THEN Stable ELSE starts
    /\ \A t \in tokens : t.key <= secret
    /\ up /\ production => configured

\* The claim and what the client was told of it agree to the second.
Dates == \A t \in tokens :
    /\ t.exp * Second <= t.told
    /\ t.told < t.exp * Second + Second

\* A refused token carries a key that is gone, or has expired.
Refusals == \A t \in refused : t.key < secret \/ t.exp * Second <= now

AInv == TypeOK /\ Keys /\ Dates /\ Refusals

\* A whole number of seconds, and less than one more.
LEMMA WholeSeconds ==
    ASSUME NEW n \in Nat, NEW k \in Nat \ {0}
    PROVE  /\ n \div k \in Nat
           /\ (n \div k) * k <= n
           /\ n < (n \div k) * k + k
  OBVIOUS

LEMMA ClaimsType ==
    ASSUME TypeOK, NEW u \in Users
    PROVE  /\ Claims(u) \in Token
           /\ Claims(u).key = secret
           /\ Claims(u).exp * Second <= Claims(u).told
           /\ Claims(u).told < Claims(u).exp * Second + Second
  <1> DEFINE s == now \div Second
  <1>1. s \in Nat /\ s * Second <= now /\ now < s * Second + Second
    BY WholeSeconds, AccessAssumption DEF TypeOK
  <1>2. Claims(u) = [sub |-> u, key |-> secret, exp |-> s + Lifetime,
                     told |-> now + Lifetime * Second]
    BY DEF Claims
  <1> HIDE DEF s
  <1>3. (s + Lifetime) * Second = s * Second + Lifetime * Second
    BY <1>1, AccessAssumption
  <1>4. Lifetime * Second \in Nat /\ s * Second \in Nat
    BY <1>1, AccessAssumption
  <1>5. secret \in Nat /\ now \in Nat
    BY AccessAssumption DEF TypeOK
  <1>6. Claims(u) \in Token
    BY <1>1, <1>2, <1>4, <1>5, AccessAssumption DEF Token
  <1>7. /\ Claims(u).key = secret
        /\ Claims(u).exp = s + Lifetime
        /\ Claims(u).told = now + Lifetime * Second
    BY <1>2
  <1> DEFINE l == Lifetime * Second
             e == s * Second
  <1>8. Claims(u).exp * Second = e + l /\ Claims(u).told = now + l
    BY <1>3, <1>7
  <1>9. l \in Nat /\ e \in Nat /\ e <= now /\ now < e + Second /\ Second \in Nat
    BY <1>1, <1>4, AccessAssumption
  <1> HIDE DEF l, e
  <1>10. e + l <= now + l /\ now + l < e + l + Second
    BY <1>5, <1>9
  <1> QED
    BY <1>6, <1>7, <1>8, <1>10

LEMMA InitAInv == Init => AInv
  <1> SUFFICES ASSUME Init PROVE AInv
    OBVIOUS
  <1>1. TypeOK
    <2>1. now \in 0..MaxTime /\ starts \in 0..MaxStarts /\ secret \in 0..starts
      BY AccessAssumption DEF Init, Stable
    <2>2. up \in BOOLEAN /\ tokens \subseteq Token /\ refused \subseteq tokens
      BY DEF Init
    <2> QED
      BY <2>1, <2>2 DEF Init, TypeOK
  <1>2. Keys
    <2>1. secret = 0 /\ starts = 0 /\ tokens = {} /\ ~up
      BY DEF Init, Stable
    <2> QED
      BY <2>1 DEF Keys, Stable
  <1>3. Dates /\ Refusals
    BY DEF Init, Dates, Refusals
  <1> QED
    BY <1>1, <1>2, <1>3 DEF AInv

\* Starting a process: the secret stays, or grows past every key in use.
LEMMA StartKeeps == AInv /\ Start => AInv'
  <1> SUFFICES ASSUME AInv, Start PROVE AInv'
    OBVIOUS
  <1>1. \A t \in tokens : t.key \in Nat /\ t.exp \in Nat /\ t.told \in Nat
    BY DEF AInv, TypeOK, Token
  <1>2. secret <= secret' /\ secret \in Nat /\ secret' \in Nat
    BY AccessAssumption DEF AInv, TypeOK, Keys, Start, NewSecret, Stable
  <1>3. TypeOK'
    BY AccessAssumption DEF AInv, TypeOK, Start, NewSecret, Stable
  <1>4. Keys'
    BY <1>1, <1>2, AccessAssumption
    DEF AInv, TypeOK, Keys, Start, MayStart, NewSecret, Stable
  <1>5. Dates'
    BY DEF AInv, Dates, Start
  <1>6. Refusals'
    BY <1>1, <1>2 DEF AInv, TypeOK, Refusals, Start
  <1> QED
    BY <1>3, <1>4, <1>5, <1>6 DEF AInv

\* A refusal is for a key that is gone or for a date that is past.
LEMMA PresentKeeps ==
    ASSUME AInv, NEW t \in tokens, Present(t)
    PROVE  AInv'
  <1>1. TypeOK'
    BY DEF AInv, TypeOK, Present
  <1>2. Keys' /\ Dates'
    BY DEF AInv, Keys, Dates, Present
  <1>3. Verify(t) = "ok" \/ t.key < secret \/ t.exp * Second <= now
    <2>1. t.key \in Nat /\ secret \in Nat /\ t.key <= secret
      BY AccessAssumption DEF AInv, TypeOK, Keys, Token, Stable
    <2> QED
      BY <2>1 DEF Verify
  <1>4. Refusals'
    BY <1>3 DEF AInv, Refusals, Present
  <1> QED
    BY <1>1, <1>2, <1>4 DEF AInv

LEMMA NextAInv == AInv /\ [Next]_vars => AInv'
  <1> SUFFICES ASSUME AInv, [Next]_vars PROVE AInv'
    OBVIOUS
  <1>1. CASE Start
    BY <1>1, StartKeeps
  <1>2. CASE Crash
    BY <1>2 DEF AInv, TypeOK, Keys, Dates, Refusals, Crash
  <1>3. CASE Tick
    <2>1. \A t \in refused : t.exp * Second \in Nat
      BY AccessAssumption DEF AInv, TypeOK, Token
    <2>2. now \in Nat /\ now' = now + 1 /\ now' \in 0..MaxTime
      BY <1>3, AccessAssumption DEF AInv, TypeOK, Tick
    <2>3. TypeOK' /\ Keys' /\ Dates'
      BY <1>3, <2>2 DEF AInv, TypeOK, Keys, Dates, Tick
    <2>4. \A t \in refused : t.exp * Second <= now => t.exp * Second <= now'
      BY <2>1, <2>2
    <2>5. Refusals'
      BY <1>3, <2>4 DEF AInv, Refusals, Tick
    <2> QED
      BY <2>3, <2>5 DEF AInv
  <1>4. ASSUME NEW u \in Users, Issue(u) PROVE AInv'
    <2>1. TypeOK
      BY DEF AInv
    <2>2. secret \in Nat
      BY AccessAssumption DEF AInv, TypeOK
    <2>3. TypeOK'
      BY <1>4, <2>1, ClaimsType DEF TypeOK, Issue
    <2>4. Keys'
      BY <1>4, <2>1, <2>2, ClaimsType DEF AInv, Keys, Issue
    <2>5. Dates'
      BY <1>4, <2>1, ClaimsType DEF AInv, Dates, Issue
    <2>6. Refusals'
      BY <1>4 DEF AInv, Refusals, Issue
    <2> QED
      BY <2>3, <2>4, <2>5, <2>6 DEF AInv
  <1>5. ASSUME NEW t \in tokens, Present(t) PROVE AInv'
    BY <1>5, PresentKeeps
  <1>6. CASE UNCHANGED vars
    BY <1>6 DEF AInv, TypeOK, Keys, Dates, Refusals, vars
  <1> QED
    BY <1>1, <1>2, <1>3, <1>4, <1>5, <1>6 DEF Next

LEMMA AInvHolds == Spec => []AInv
  BY InitAInv, NextAInv, PTL DEF Spec

\* Production tokens survive restarts until they expire (config.py): every
\* key that was ever used is the configured one.
THEOREM SurvivesRestarts == Spec => []TokensSurviveRestarts
  <1>1. AInv => TokensSurviveRestarts
    <2> SUFFICES ASSUME AInv, up, production,
                        NEW t \in tokens, now < t.exp * Second
                 PROVE  Verify(t) = "ok"
      BY DEF TokensSurviveRestarts
    <2>1. secret = 0 /\ t.key \in Nat /\ t.key <= secret
      BY DEF AInv, TypeOK, Keys, Token, Stable
    <2>2. t.exp * Second \in Nat /\ now \in Nat
      BY AccessAssumption DEF AInv, TypeOK, Token
    <2> QED
      BY <2>1, <2>2 DEF Verify
  <1> QED
    BY <1>1, AInvHolds, PTL

\* A token that a request was refused with is never accepted later, over any
\* number of restarts, with a configured secret and without.
THEOREM RefusedForGood == Spec => []RefusalIsFinal
  <1>1. AInv => RefusalIsFinal
    <2> SUFFICES ASSUME AInv, NEW t \in refused PROVE Verify(t) # "ok"
      BY DEF RefusalIsFinal
    <2>1. t.key \in Nat /\ secret \in Nat
      BY AccessAssumption DEF AInv, TypeOK, Token
    <2>2. t.key < secret \/ t.exp * Second <= now
      BY DEF AInv, Refusals
    <2> QED
      BY <2>1, <2>2 DEF Verify
  <1> QED
    BY <1>1, AInvHolds, PTL

\* Tokens are accepted before the expiresAt the client was told, never after,
\* and not refused as expired a second or more before it.
THEOREM ExpiryIsHonest == Spec => []ExpiryHonest
  <1>1. AInv => ExpiryHonest
    <2> SUFFICES ASSUME AInv, NEW t \in tokens
                 PROVE  /\ Verify(t) = "ok" => now < t.told
                        /\ Verify(t) = "TOKEN_EXPIRED" => now > t.told - Second
      BY DEF ExpiryHonest
    <2> DEFINE e == t.exp * Second
    <2>1. /\ e \in Nat /\ now \in Nat /\ t.told \in Nat /\ Second \in Nat
          /\ e <= t.told /\ t.told < e + Second
      BY AccessAssumption DEF AInv, TypeOK, Token, Dates
    <2>2. /\ Verify(t) = "ok" => ~(e <= now)
          /\ Verify(t) = "TOKEN_EXPIRED" => e <= now
      BY DEF Verify
    <2> HIDE DEF e
    <2> QED
      BY <2>1, <2>2
  <1> QED
    BY <1>1, AInvHolds, PTL

(***************************************************************************)
(* The runs.                                                               *)
(***************************************************************************)

\* Where a run may be.
Steps ==
    /\ run \in Nat /\ place \in Nat /\ step \in {"idle", "token", "put"}
    /\ step # "idle" => place \in 1..Len(Profiles)
    /\ memory \in Seq(Nat \X Nat)

LEMMA StoreType ==
    ASSUME Steps
    PROVE  Append(memory, <<run, place>>) \in Seq(Nat \X Nat)
  BY AppendProperties DEF Steps

LEMMA AdvanceSteps ==
    ASSUME Steps, step = "put", Advance
    PROVE  /\ step' \in {"idle", "token"} /\ place' = place + 1 /\ place' \in Nat
           /\ step' # "idle" => place' \in 1..Len(Profiles)
           /\ mine' = {}
  <1>1. place \in Nat /\ place \in 1..Len(Profiles) /\ Len(Profiles) \in Nat
    BY ProfilerRunAssumption DEF Steps
  <1> QED
    BY <1>1 DEF Advance

LEMMA StepsHold == RunSpec => []Steps
  <1>1. RunInit => Steps
    BY DEF RunInit, Steps
  <1>2. Steps /\ [RunNext]_runVars => Steps'
    <2> SUFFICES ASSUME Steps, [RunNext]_runVars PROVE Steps'
      OBVIOUS
    <2>1. CASE UNCHANGED runOnly
      BY <2>1 DEF Steps, runOnly
    <2>2. CASE Begin
      <3>1. Len(Profiles) \in Nat /\ Len(Profiles) # 0
        BY <2>2, ProfilerRunAssumption, EmptySeq DEF Begin
      <3> QED
        BY <2>2, <3>1 DEF Steps, Begin
    <2>3. CASE AskToken \/ Abort
      BY <2>3 DEF Steps, AskToken, Abort
    <2>4. ASSUME NEW t \in mine, PutStored(t) \/ PutRefused(t) \/ PutFails(t) PROVE Steps'
      BY <2>4, AdvanceSteps, StoreType DEF Steps, PutStored, PutRefused, PutFails, Store
    <2>5. ASSUME NEW t \in mine, PutLost(t) PROVE Steps'
      BY <2>5, StoreType DEF Steps, PutLost, Store
    <2> QED
      BY <2>1, <2>2, <2>3, <2>4, <2>5 DEF RunNext, Put, runVars
  <1> QED
    BY <1>1, <1>2, PTL DEF RunSpec

\* To the service a run is a client like any other: what is true of the tokens
\* of any clients is true of those of its runs.
THEOREM RunsAreClients == RunSpec => Spec
  <1>1. Steps /\ [RunNext]_runVars => [Next]_vars
    <2> SUFFICES ASSUME Steps, [RunNext]_runVars PROVE [Next]_vars
      OBVIOUS
    <2>1. CASE Service
      BY <2>1 DEF Service, Next
    <2>2. CASE Begin \/ Abort \/ UNCHANGED runVars
      BY <2>2 DEF Begin, Abort, runVars
    <2>3. CASE AskToken
      <3>1. Profiles[place] \in Users
        BY <2>3, ProfilerRunAssumption, ElementOfSeq DEF AskToken, Steps
      <3> QED
        BY <2>3, <3>1 DEF AskToken, Next
    <2>4. ASSUME NEW t \in mine, Put(t) PROVE [Next]_vars
      BY <2>4 DEF Put, PutStored, PutRefused, PutFails, PutLost, Next, Present
    <2> QED
      BY <2>1, <2>2, <2>3, <2>4 DEF RunNext
  <1>2. RunInit => Init
    BY DEF RunInit
  <1> QED
    BY <1>1, <1>2, StepsHold, PTL DEF RunSpec, Spec

-----------------------------------------------------------------------------
(***************************************************************************)
(* What is stored, and what is said of it.                                 *)
(***************************************************************************)

Has(m, r, p) == \E k \in DOMAIN m : m[k] = <<r, p>>

\* Of the run that goes on, or went last, memory has profiles before its place,
\* and the one at its place, as the last of all, only when the run has ended.
Placed == \A k \in DOMAIN memory :
    /\ memory[k][1] <= run
    /\ memory[k][1] = run =>
          \/ memory[k][2] < place
          \/ memory[k][2] = place /\ step = "idle" /\ k = Len(memory)

Distinct == \A k, l \in DOMAIN memory : memory[k] = memory[l] => k = l

\* What was printed before the place is true, and something was.
Printed ==
    /\ \A x \in reports :
          /\ x.place \in Nat /\ x.place < place
          /\ x.said = "stored" => Has(memory, run, x.place)
          /\ x.said = "unauthorized" => ~Has(memory, run, x.place)
    /\ \A k \in DOMAIN memory : memory[k][1] = run /\ memory[k][2] < place =>
          \E x \in reports : x.place = memory[k][2]

MemoryInv == Placed /\ Distinct /\ Printed

\* One more entry, at the place of the run.
LEMMA StoreEffect ==
    ASSUME Steps, Placed, step = "put", Store
    PROVE  /\ DOMAIN memory' = 1..(Len(memory) + 1) /\ Len(memory) \in Nat
           /\ DOMAIN memory = 1..Len(memory) /\ Len(memory') = Len(memory) + 1
           /\ memory'[Len(memory) + 1] = <<run, place>>
           /\ \A k \in DOMAIN memory : /\ memory'[k] = memory[k]
                                       /\ memory[k] # <<run, place>>
                                       /\ memory[k] \in Nat \X Nat
  <1>1. memory \in Seq(Nat \X Nat) /\ run \in Nat /\ place \in Nat
    BY DEF Steps
  <1>2. /\ Len(memory') = Len(memory) + 1 /\ memory'[Len(memory) + 1] = <<run, place>>
        /\ \A k \in 1..Len(memory) : memory'[k] = memory[k]
        /\ memory' \in Seq(Nat \X Nat)
    BY <1>1, AppendProperties DEF Store
  <1>3. DOMAIN memory' = 1..(Len(memory) + 1) /\ DOMAIN memory = 1..Len(memory)
    BY <1>1, <1>2, LenProperties
  <1>4. \A k \in DOMAIN memory : memory[k] \in Nat \X Nat
    BY <1>1, ElementOfSeq, <1>3
  <1>5. \A k \in DOMAIN memory : memory[k] # <<run, place>>
    BY <1>1, <1>4 DEF Placed
  <1> QED
    BY <1>1, <1>2, <1>3, <1>4, <1>5, LenProperties

\* So every entry is an old one, of another run or before the place, or the new.
LEMMA StoreEntries ==
    ASSUME Steps, Placed, step = "put", Store, NEW k \in DOMAIN memory'
    PROVE  \/ /\ k \in DOMAIN memory /\ memory'[k] = memory[k]
              /\ memory[k][1] <= run
              /\ memory[k][1] = run => memory[k][2] < place
           \/ k = Len(memory') /\ memory'[k] = <<run, place>>
  <1>1. k \in 1..Len(memory) \/ k = Len(memory) + 1
    BY StoreEffect
  <1>2. CASE k \in 1..Len(memory)
    BY <1>2, StoreEffect DEF Placed
  <1>3. CASE k = Len(memory) + 1
    BY <1>3, StoreEffect
  <1> QED
    BY <1>1, <1>2, <1>3

LEMMA HasKept ==
    ASSUME Steps, Placed, step = "put", Store \/ UNCHANGED memory, run' = run,
           NEW p \in Nat, p < place
    PROVE  Has(memory', run', p) <=> Has(memory, run, p)
  <1>1. CASE UNCHANGED memory
    BY <1>1 DEF Has
  <1>2. CASE Store
    <2>1. ASSUME NEW k \in DOMAIN memory', memory'[k] = <<run, p>>
          PROVE  Has(memory, run, p)
      <3>1. <<run, p>> # <<run, place>>
        BY DEF Steps
      <3> QED
        BY <1>2, <2>1, <3>1, StoreEntries DEF Has
    <2>2. ASSUME NEW k \in DOMAIN memory, memory[k] = <<run, p>>
          PROVE  Has(memory', run, p)
      <3>1. k \in DOMAIN memory' /\ memory'[k] = memory[k]
        BY <1>2, StoreEffect
      <3> QED
        BY <2>2, <3>1 DEF Has
    <2> QED
      BY <2>1, <2>2 DEF Has
  <1> QED
    BY <1>1, <1>2

LEMMA DistinctKept ==
    ASSUME Steps, Placed, Distinct, step = "put", Store \/ UNCHANGED memory
    PROVE  Distinct'
  <1>1. CASE UNCHANGED memory
    BY <1>1 DEF Distinct
  <1>2. CASE Store
    BY <1>2, StoreEffect DEF Distinct
  <1> QED
    BY <1>1, <1>2

\* An answer is printed: true to what was done, of a place not printed before.
LEMMA AnswerKeeps ==
    ASSUME Steps, MemoryInv, step = "put", NEW said, NEW why,
           Store \/ UNCHANGED memory,
           reports' = reports \cup {[place |-> place, said |-> said, why |-> why]},
           said = "stored" => Store, said = "unauthorized" => UNCHANGED memory,
           Advance, run' = run
    PROVE  MemoryInv'
  <1>1. place \in Nat /\ place' = place + 1 /\ run \in Nat /\ memory \in Seq(Nat \X Nat)
    BY AdvanceSteps DEF Steps
  <1>2. \A k \in DOMAIN memory :
           /\ memory[k] \in Nat \X Nat /\ memory[k] # <<run, place>>
           /\ memory[k] = <<memory[k][1], memory[k][2]>>
           /\ memory[k][1] <= run
           /\ memory[k][1] = run => memory[k][2] < place
    BY <1>1, ElementOfSeq, LenProperties DEF MemoryInv, Placed
  <1>3. Placed'
    <2>1. CASE UNCHANGED memory
      BY <1>1, <1>2, <2>1 DEF Placed
    <2>2. CASE Store
      <3>1. ASSUME NEW k \in DOMAIN memory'
            PROVE  memory'[k][1] <= run /\ (memory'[k][1] = run => memory'[k][2] < place')
        BY <1>1, <1>2, <2>2, StoreEntries DEF MemoryInv
      <3> QED
        BY <3>1 DEF Placed
    <2> QED
      BY <2>1, <2>2
  <1>4. Distinct'
    BY DistinctKept DEF MemoryInv
  <1>5. \A p \in Nat : p < place => (Has(memory', run', p) <=> Has(memory, run, p))
    BY HasKept DEF MemoryInv
  <1>6. said = "stored" => Has(memory', run', place)
    BY StoreEffect DEF Has, MemoryInv
  <1>7. said = "unauthorized" => ~Has(memory', run', place)
    BY <1>2 DEF Has
  <1>8. \A x \in reports' :
           /\ x.place \in Nat /\ x.place < place'
           /\ x.said = "stored" => Has(memory', run', x.place)
           /\ x.said = "unauthorized" => ~Has(memory', run', x.place)
    <2> TAKE x \in reports'
    <2>1. CASE x \in reports
      BY <1>1, <1>5, <2>1 DEF MemoryInv, Printed
    <2>2. CASE x = [place |-> place, said |-> said, why |-> why]
      BY <1>1, <1>6, <1>7, <2>2
    <2> QED
      BY <2>1, <2>2
  <1>9. ASSUME NEW k \in DOMAIN memory', memory'[k][1] = run, memory'[k][2] < place'
        PROVE  \E x \in reports' : x.place = memory'[k][2]
    <2>1. CASE k \in DOMAIN memory /\ memory'[k] = memory[k]
      <3>1. memory[k][2] < place
        BY <1>2, <1>9, <2>1
      <3> QED
        BY <1>9, <2>1, <3>1 DEF MemoryInv, Printed
    <2>2. CASE memory'[k] = <<run, place>>
      <3> DEFINE x == [place |-> place, said |-> said, why |-> why]
      <3>1. x \in reports' /\ x.place = memory'[k][2]
        BY <2>2
      <3> QED
        BY <3>1
    <2>3. \/ k \in DOMAIN memory /\ memory'[k] = memory[k]
          \/ memory'[k] = <<run, place>>
      <3>1. CASE Store
        BY <1>9, <3>1, StoreEntries DEF MemoryInv
      <3>2. CASE UNCHANGED memory
        BY <1>9, <3>2
      <3> QED
        BY <3>1, <3>2
    <2> QED
      BY <2>1, <2>2, <2>3
  <1>10. Printed'
    BY <1>8, <1>9 DEF Printed
  <1> QED
    BY <1>3, <1>4, <1>10 DEF MemoryInv

\* No answer: the run ends at its place, which memory may or may not have.
LEMMA LostKeeps ==
    ASSUME Steps, MemoryInv, NEW t \in mine, PutLost(t)
    PROVE  MemoryInv'
  <1>1. /\ step = "put" /\ step' = "idle" /\ place' = place /\ run' = run
        /\ reports' = reports /\ place \in Nat /\ run \in Nat
        /\ memory \in Seq(Nat \X Nat)
    BY DEF PutLost, Steps
  <1>2. CASE UNCHANGED memory
    BY <1>1, <1>2 DEF MemoryInv, Placed, Distinct, Printed, Has
  <1>3. CASE Store
    <2>1. \A k \in DOMAIN memory' :
             \/ /\ k \in DOMAIN memory /\ memory'[k] = memory[k]
                /\ memory[k][1] <= run
                /\ memory[k][1] = run => memory[k][2] < place
             \/ k = Len(memory') /\ memory'[k] = <<run, place>>
      BY <1>1, <1>3, StoreEntries DEF MemoryInv
    <2>2. Placed'
      <3>1. ASSUME NEW k \in DOMAIN memory'
            PROVE  /\ memory'[k][1] <= run'
                   /\ memory'[k][1] = run' =>
                         \/ memory'[k][2] < place'
                         \/ memory'[k][2] = place' /\ k = Len(memory')
        BY <1>1, <2>1
      <3> QED
        BY <1>1, <3>1 DEF Placed
    <2>3. Distinct'
      BY <1>1, <1>3, DistinctKept DEF MemoryInv
    <2>4. \A p \in Nat : p < place => (Has(memory', run', p) <=> Has(memory, run, p))
      BY <1>1, <1>3, HasKept DEF MemoryInv
    <2>5. Printed'
      <3>1. ASSUME NEW k \in DOMAIN memory', memory'[k][1] = run, memory'[k][2] < place
            PROVE  \E x \in reports : x.place = memory'[k][2]
        <4>1. k \in DOMAIN memory /\ memory'[k] = memory[k]
          BY <1>1, <2>1, <3>1
        <4> QED
          BY <3>1, <4>1 DEF Printed, MemoryInv
      <3> QED
        BY <1>1, <2>4, <3>1 DEF Printed, MemoryInv
    <2> QED
      BY <2>2, <2>3, <2>5 DEF MemoryInv
  <1> QED
    BY <1>2, <1>3 DEF PutLost

LEMMA MemoryHolds == RunSpec => []MemoryInv
  <1>1. RunInit => MemoryInv
    BY DEF RunInit, MemoryInv, Placed, Distinct, Printed
  <1>2. Steps /\ MemoryInv /\ [RunNext]_runVars => MemoryInv'
    <2> SUFFICES ASSUME Steps, MemoryInv, [RunNext]_runVars PROVE MemoryInv'
      OBVIOUS
    <2>1. CASE UNCHANGED runOnly
      BY <2>1 DEF MemoryInv, Placed, Distinct, Printed, Has, runOnly
    <2>2. CASE Begin
      <3>1. /\ run' = run + 1 /\ reports' = {} /\ memory' = memory /\ run \in Nat
            /\ \A k \in DOMAIN memory : memory[k][1] <= run /\ memory[k][1] \in Nat
        BY <2>2, ElementOfSeq, LenProperties DEF Begin, Steps, MemoryInv, Placed
      <3> QED
        BY <3>1 DEF MemoryInv, Placed, Distinct, Printed
    <2>3. CASE AskToken \/ Abort
      BY <2>3 DEF AskToken, Abort, MemoryInv, Placed, Distinct, Printed, Has
    <2>4. ASSUME NEW t \in mine, Put(t) PROVE MemoryInv'
      <3>1. CASE PutStored(t)
        BY <3>1, AnswerKeeps DEF PutStored, Report, Category
      <3>2. CASE PutRefused(t)
        BY <3>2, AnswerKeeps DEF PutRefused, Report, Category
      <3>3. CASE PutFails(t)
        BY <3>3, AnswerKeeps DEF PutFails, Report, Category
      <3>4. CASE PutLost(t)
        BY <3>4, LostKeeps
      <3> QED
        BY <2>4, <3>1, <3>2, <3>3, <3>4 DEF Put
    <2> QED
      BY <2>1, <2>2, <2>3, <2>4 DEF RunNext, runVars
  <1> QED
    BY <1>1, <1>2, StepsHold, PTL DEF RunSpec

\* One run, one copy of a profile, also when an answer was lost or an error was
\* reported for what had been stored.
THEOREM OneCopy == RunSpec => []OneCopyPerRun
  <1>1. Steps /\ MemoryInv => OneCopyPerRun
    <2> SUFFICES ASSUME Steps, MemoryInv, NEW k \in DOMAIN memory
                 PROVE  Copies(memory[k][1], memory[k][2]) = 1
      BY DEF OneCopyPerRun
    <2>1. memory[k] = <<memory[k][1], memory[k][2]>>
      BY ElementOfSeq, LenProperties DEF Steps
    <2>2. {l \in DOMAIN memory : memory[l] = <<memory[k][1], memory[k][2]>>} = {k}
      BY <2>1 DEF MemoryInv, Distinct
    <2> QED
      BY <2>2, FS_Singleton DEF Copies
  <1> QED
    BY <1>1, StepsHold, MemoryHolds, PTL

\* What a run prints is true, whatever restarts, refusals and lost answers.
THEOREM Honest == RunSpec => []ReportsHonest
  <1>1. Steps /\ MemoryInv => ReportsHonest
    <2> SUFFICES ASSUME Steps, MemoryInv PROVE ReportsHonest
      OBVIOUS
    <2>1. ASSUME NEW x \in reports, x.said = "stored" PROVE Copies(run, x.place) = 1
      <3>1. PICK k \in DOMAIN memory : memory[k] = <<run, x.place>>
        BY <2>1 DEF MemoryInv, Printed, Has
      <3>2. {l \in DOMAIN memory : memory[l] = <<run, x.place>>} = {k}
        BY <3>1 DEF MemoryInv, Distinct
      <3> QED
        BY <3>2, FS_Singleton DEF Copies
    <2>2. ASSUME NEW x \in reports, x.said = "unauthorized" PROVE Copies(run, x.place) = 0
      <3>1. {l \in DOMAIN memory : memory[l] = <<run, x.place>>} = {}
        BY <2>2 DEF MemoryInv, Printed, Has
      <3> QED
        BY <3>1, FS_EmptySet DEF Copies
    <2>3. ASSUME NEW k \in 1..(Len(memory) - 1), memory[k][1] = run
          PROVE  \E x \in reports : x.place = memory[k][2]
      <3>1. Len(memory) \in Nat /\ DOMAIN memory = 1..Len(memory)
        BY LenProperties DEF Steps
      <3>2. k \in DOMAIN memory /\ k # Len(memory)
        <4> DEFINE n == Len(memory)
        <4>1. n \in Nat /\ k \in 1..(n - 1)
          BY <3>1
        <4> HIDE DEF n
        <4>2. k \in 1..n /\ k # n
          BY <4>1
        <4> QED
          BY <3>1, <4>2 DEF n
      <3>3. memory[k][2] < place
        BY <2>3, <3>2 DEF MemoryInv, Placed
      <3> QED
        BY <2>3, <3>2, <3>3 DEF MemoryInv, Printed
    <2> QED
      BY <2>1, <2>2, <2>3 DEF ReportsHonest
  <1> QED
    BY <1>1, StepsHold, MemoryHolds, PTL

-----------------------------------------------------------------------------
(***************************************************************************)
(* What restarts cost.                                                     *)
(***************************************************************************)

Misses == {x \in reports : x.why = "INVALID_TOKEN"}

\* While the secret is the configured one no token is refused for its key;
\* otherwise every refusal so far came before the start that signed the token
\* in hand, if there is one.
Missed ==
    /\ IsFiniteSet(reports) /\ begun \in Nat /\ begun <= starts
    /\ mine \subseteq tokens
    /\ configured => Misses = {}
    /\ ~configured => /\ Cardinality(Misses) <= starts - begun
                      /\ \A t \in mine : Cardinality(Misses) <= t.key - begun

LEMMA KeyTypes ==
    ASSUME AInv
    PROVE  /\ starts \in Nat /\ secret \in Nat
           /\ \A t \in tokens : t.key \in Nat /\ t.key <= secret
           /\ secret = IF configured THEN 0 ELSE starts
  BY AccessAssumption DEF AInv, TypeOK, Keys, Token, Stable

\* One more line is at most one more refusal.
LEMMA ReportCounts ==
    ASSUME IsFiniteSet(reports), NEW status, NEW why, Report(status, why)
    PROVE  /\ IsFiniteSet(reports') /\ Cardinality(Misses) \in Nat
           /\ why # "INVALID_TOKEN" => Misses' = Misses
           /\ Cardinality(Misses') \in Nat /\ Cardinality(Misses') <= Cardinality(Misses) + 1
  <1> DEFINE x == [place |-> place, said |-> Category(status), why |-> why]
  <1>1. reports' = reports \cup {x} /\ x.why = why
    BY DEF Report
  <1> HIDE DEF x
  <1>2. IsFiniteSet(Misses) /\ Misses \subseteq reports
    BY FS_Subset DEF Misses
  <1>3. Misses' = Misses \/ Misses' = Misses \cup {x}
    BY <1>1 DEF Misses
  <1>4. why # "INVALID_TOKEN" => Misses' = Misses
    BY <1>1 DEF Misses
  <1>5. /\ IsFiniteSet(Misses \cup {x}) /\ IsFiniteSet(reports \cup {x})
        /\ \/ Cardinality(Misses \cup {x}) = Cardinality(Misses)
           \/ Cardinality(Misses \cup {x}) = Cardinality(Misses) + 1
    BY <1>2, FS_AddElement
  <1>6. Cardinality(Misses) \in Nat
    BY <1>2, FS_CardinalityType
  <1> QED
    BY <1>1, <1>3, <1>4, <1>5, <1>6

\* A PUT that is answered: refused for its key it was signed before the last
\* start, since keys in use are no newer.
LEMMA AnswerMissed ==
    ASSUME AInv, Missed, NEW t \in mine, NEW status, NEW why, Report(status, why),
           why \in {"ok", Verify(t)}, mine' = {},
           UNCHANGED <<configured, starts, begun>>
    PROVE  Missed'
  <1> DEFINE c == Cardinality(Misses)
             d == Cardinality(Misses')
  <1>1. /\ starts \in Nat /\ t.key \in Nat /\ t.key <= secret /\ begun \in Nat
        /\ secret = IF configured THEN 0 ELSE starts
    BY KeyTypes DEF Missed
  <1>2. IsFiniteSet(reports') /\ c \in Nat /\ d \in Nat /\ d <= c + 1
    BY ReportCounts DEF Missed
  <1>3. CASE why # "INVALID_TOKEN"
    <2>1. Misses' = Misses
      BY <1>3, ReportCounts DEF Missed
    <2> QED
      BY <1>2, <2>1 DEF Missed
  <1>4. CASE why = "INVALID_TOKEN"
    <2>1. t.key # secret
      BY <1>4 DEF Verify
    <2>2. ~configured /\ t.key < starts
      BY <1>1, <2>1
    <2>3. c <= t.key - begun
      BY <2>2 DEF Missed
    <2> HIDE DEF c, d
    <2>4. d <= starts - begun
      BY <1>1, <1>2, <2>2, <2>3
    <2> QED
      BY <1>2, <2>2, <2>4 DEF Missed, d
  <1> QED
    BY <1>3, <1>4

LEMMA MissedHolds == RunSpec => []Missed
  <1>1. RunInit => Missed
    <2> SUFFICES ASSUME RunInit PROVE Missed
      OBVIOUS
    <2>1. Misses = {} /\ reports = {} /\ mine = {} /\ begun = 0 /\ starts = 0
      BY DEF RunInit, Init, Misses
    <2> QED
      BY <2>1, FS_EmptySet DEF Missed
  <1>2. AInv /\ AInv' /\ Missed /\ [RunNext]_runVars => Missed'
    <2> SUFFICES ASSUME AInv, AInv', Missed, [RunNext]_runVars PROVE Missed'
      OBVIOUS
    <2> DEFINE c == Cardinality(Misses)
    <2>1. c \in Nat /\ starts \in Nat /\ begun \in Nat
      <3>1. IsFiniteSet(Misses)
        BY FS_Subset DEF Misses, Missed
      <3> QED
        BY <3>1, FS_CardinalityType, KeyTypes DEF Missed
    <2>2. CASE Service /\ UNCHANGED runOnly
      <3>1. /\ tokens \subseteq tokens' /\ configured' = configured
            /\ starts' = starts \/ starts' = starts + 1
        BY <2>2 DEF Service, Start, Crash, Tick, Present
      <3>2. mine' = mine /\ begun' = begun /\ reports' = reports /\ Misses' = Misses
        BY <2>2 DEF runOnly, Misses
      <3>3. begun <= starts' /\ (c <= starts - begun => c <= starts' - begun)
        <4> HIDE DEF c
        <4> QED
          BY <2>1, <3>1 DEF Missed
      <3> QED
        BY <3>1, <3>2, <3>3 DEF Missed
    <2>3. CASE Begin
      <3>1. /\ Misses' = {} /\ reports' = {} /\ mine' = {} /\ begun' = starts
            /\ starts' = starts
        BY <2>3 DEF Begin, vars, Misses
      <3> QED
        BY <2>1, <3>1, FS_EmptySet DEF Missed
    <2>4. CASE AskToken
      <3> DEFINE t == Claims(Profiles[place])
      <3>1. /\ mine' = {t} /\ tokens' = tokens \cup {t} /\ t.key = secret
            /\ Misses' = Misses /\ UNCHANGED <<reports, begun, starts, configured>>
        BY <2>4 DEF AskToken, Issue, Claims, Misses
      <3>2. ~configured => secret = starts
        BY KeyTypes
      <3> HIDE DEF t
      <3> QED
        BY <3>1, <3>2 DEF Missed
    <2>5. CASE Abort \/ UNCHANGED runVars
      <3>1. /\ UNCHANGED <<reports, begun, starts, configured, mine, tokens>>
            /\ Misses' = Misses
        BY <2>5 DEF Abort, runVars, runOnly, vars, Misses
      <3> QED
        BY <3>1 DEF Missed
    <2>6. ASSUME NEW t \in mine, Put(t) PROVE Missed'
      <3>1. CASE PutStored(t)
        BY <3>1, AnswerMissed DEF PutStored, Present, Advance
      <3>2. CASE PutRefused(t)
        BY <3>2, AnswerMissed DEF PutRefused, Present, Advance
      <3>3. CASE PutFails(t)
        BY <3>3, AnswerMissed DEF PutFails, vars, Advance
      <3>4. CASE PutLost(t)
        BY <3>4 DEF PutLost, vars, Missed, Misses
      <3> QED
        BY <2>6, <3>1, <3>2, <3>3, <3>4 DEF Put
    <2> QED
      BY <2>2, <2>3, <2>4, <2>5, <2>6, Zenon DEF RunNext
  <1>3. RunSpec => []AInv
    BY RunsAreClients, AInvHolds, PTL
  <1> QED
    BY <1>1, <1>2, <1>3, PTL DEF RunSpec

\* However many profiles a run has, a restart makes the service refuse it at
\* most one of them for a token of the process before.
THEOREM RefusalsBounded == RunSpec => []RestartRefusesOne
  <1>1. AInv /\ Missed => RestartRefusesOne
    <2> SUFFICES ASSUME AInv, Missed PROVE RestartRefusesOne
      OBVIOUS
    <2>1. begun \in Nat /\ starts \in Nat /\ begun <= starts
      BY KeyTypes DEF Missed
    <2>2. Cardinality(Misses) <= starts - begun
      <3>1. CASE configured
        <4>1. Cardinality(Misses) = 0
          BY <3>1, FS_EmptySet DEF Missed
        <4> QED
          BY <2>1, <4>1
      <3>2. CASE ~configured
        BY <3>2 DEF Missed
      <3> QED
        BY <3>1, <3>2
    <2> QED
      BY <2>2 DEF RestartRefusesOne, Misses
  <1> QED
    BY <1>1, RunsAreClients, AInvHolds, MissedHolds, PTL
=============================================================================
