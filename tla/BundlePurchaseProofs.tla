------------------------- MODULE BundlePurchaseProofs -------------------------
(* What holds of bundles in Redis for any number of requests, subscribers,   *)
(* bundles and activations: a running bundle is found, an unused one lapses, *)
(* and one that outlived its time is there for ever.                         *)
EXTENDS BundlePurchase, SetSums, TLAPS

(* The shape of the state that the proofs need: unlike in TypeOK, what       *)
(* remains of a bundle may be any integer, and airtime is left out.          *)
Stored == [by : 1..MaxActivations, left : [Types -> Int]]
Values == {NoBundle} \cup Stored

Buying    == {"pay", "configure", "check", "activate", "record"}
Consuming == {"fetch", "consume", "untrack", "write"}

Jobs == [at : Stages, payer : Subs \cup {Nobody}, sub : Subs \cup {Nobody},
         bundle : Bundles \cup {0}, type : Types \cup {"none"},
         found : [Bundles -> Values]]

GoodJobs ==
  {j \in Jobs :
     /\ j.at # "idle" => j.sub \in Subs
     /\ j.at \in Buying => j.bundle \in Bundles
     /\ j.at \in Consuming => j.type \in Types
     /\ j.at \in {"untrack", "write"} =>
          j.bundle \in Bundles /\ j.found[j.bundle].by # 0}

Shape ==
  /\ bundle \in [Subs -> [Bundles -> Values]]
  /\ tracked \in [Subs -> SUBSET Bundles]
  /\ activations \in Ids
  /\ over \subseteq 1..activations
  /\ used \in [1..MaxActivations -> [Types -> Nat]]
  /\ job \in [Requests -> GoodJobs]

-----------------------------------------------------------------------------
LEMMA ConstantsTyped ==
  /\ NoBundle \in Values
  /\ NoKeys \in [Bundles -> Values]
  /\ NoBundle.by = 0
  /\ \A b \in Bundles : Allowance[b] \in [Types -> Int]
  /\ Idle \in GoodJobs
  /\ MaxActivations \in Nat
<1>1. NoBundle \in Values /\ NoBundle.by = 0 /\ MaxActivations \in Nat
  BY BoundsNat DEF NoBundle, Values
<1>2. NoKeys \in [Bundles -> Values]
  BY <1>1 DEF NoKeys
<1>3. \A b \in Bundles : Allowance[b] \in [Types -> Int]
  BY AllowanceOf DEF Null
<1>4. Idle \in GoodJobs
  BY <1>2 DEF Idle, GoodJobs, Jobs, Stages, Buying, Consuming
<1> QED BY <1>1, <1>2, <1>3, <1>4

(* One request's job replaced by a good one leaves all jobs good. *)
LEMMA JobReplaced ==
  ASSUME job \in [Requests -> GoodJobs], NEW r \in Requests, NEW j \in GoodJobs,
         job' = [job EXCEPT ![r] = j]
  PROVE  job' \in [Requests -> GoodJobs]
OBVIOUS

(* A stage that asks nothing more of the job than the stage before *)
LEMMA GotoGood ==
  ASSUME job \in [Requests -> GoodJobs], NEW r \in Requests,
         job[r].at \in Buying, NEW stage \in Buying, Goto(r, stage)
  PROVE  job' \in [Requests -> GoodJobs]
<1> DEFINE j == [job[r] EXCEPT !.at = stage]
<1>1. job[r] \in GoodJobs
  OBVIOUS
<1>2. j \in GoodJobs
  BY <1>1 DEF GoodJobs, Jobs, Buying, Consuming, Stages
<1>3. job' = [job EXCEPT ![r] = j]
  BY DEF Goto
<1> HIDE DEF j
<1> QED BY <1>2, <1>3

LEMMA ShapeInit == Init => Shape
<1> SUFFICES ASSUME Init PROVE Shape
  OBVIOUS
<1> USE ConstantsTyped DEF Init, Shape
<1>1. activations \in Ids /\ over \subseteq 1..activations
  BY DEF Ids
<1>2. job \in [Requests -> GoodJobs]
  OBVIOUS
<1> QED BY <1>1, <1>2

(* The actions of a request, but for those that write a bundle *)
LEMMA ShapeJob ==
  ASSUME Shape, UNCHANGED <<bundle, tracked, activations, over, used>>,
         job' \in [Requests -> GoodJobs]
  PROVE  Shape'
BY DEF Shape

LEMMA ShapeAirtime ==
  ASSUME Shape, NEW r \in Requests,
         (\E s \in Subs : AddAirtime(r, s)) \/ ArmAirtime(r) \/ GiveUp(r)
  PROVE  Shape'
<1>1. job[r] \in GoodJobs /\ job \in [Requests -> GoodJobs]
  BY DEF Shape
<1>2. ASSUME NEW s \in Subs, AddAirtime(r, s) PROVE Shape'
  <2> DEFINE j == [job[r] EXCEPT !.at = "arm", !.sub = s]
  <2>1. j \in GoodJobs
    BY <1>1 DEF GoodJobs, Jobs, Stages, Buying, Consuming
  <2>2. job' = [job EXCEPT ![r] = j]
    BY <1>2 DEF AddAirtime
  <2> HIDE DEF j
  <2>3. job' \in [Requests -> GoodJobs]
    BY <1>1, <2>1, <2>2
  <2> QED BY <1>2, <2>3, ShapeJob DEF AddAirtime
<1>3. CASE ArmAirtime(r) \/ GiveUp(r)
  <2>1. job' \in [Requests -> GoodJobs]
    BY <1>1, <1>3, ConstantsTyped DEF ArmAirtime, GiveUp
  <2> QED BY <1>3, <2>1, ShapeJob DEF ArmAirtime, GiveUp, redis, ghosts
<1> QED BY <1>2, <1>3

LEMMA ShapeBuying ==
  ASSUME Shape, NEW r \in Requests,
         \/ \E p, s \in Subs, b \in Bundles : Purchase(r, p, s, b)
         \/ \E s \in Subs, b \in Bundles : ActivateUnpaid(r, s, b)
         \/ Pay(r) \/ Configure(r) \/ CheckInactive(r) \/ Record(r)
  PROVE  Shape'
<1>1. job[r] \in GoodJobs /\ job \in [Requests -> GoodJobs]
  BY DEF Shape
<1>2. ASSUME NEW p \in Subs, NEW s \in Subs, NEW b \in Bundles, Purchase(r, p, s, b)
      PROVE  Shape'
  <2> DEFINE j == [Idle EXCEPT !.at = "pay", !.payer = p, !.sub = s, !.bundle = b]
  <2>1. j \in GoodJobs
    BY ConstantsTyped DEF Idle, GoodJobs, Jobs, Stages, Buying, Consuming
  <2>2. job' = [job EXCEPT ![r] = j]
    BY <1>2 DEF Purchase
  <2> HIDE DEF j
  <2>3. job' \in [Requests -> GoodJobs]
    BY <1>1, <2>1, <2>2
  <2> QED BY <1>2, <2>3, ShapeJob DEF Purchase, redis, ghosts
<1>3. ASSUME NEW s \in Subs, NEW b \in Bundles, ActivateUnpaid(r, s, b)
      PROVE  Shape'
  <2> DEFINE j == [Idle EXCEPT !.at = "configure", !.sub = s, !.bundle = b]
  <2>1. j \in GoodJobs
    BY ConstantsTyped DEF Idle, GoodJobs, Jobs, Stages, Buying, Consuming
  <2>2. job' = [job EXCEPT ![r] = j]
    BY <1>3 DEF ActivateUnpaid
  <2> HIDE DEF j
  <2>3. job' \in [Requests -> GoodJobs]
    BY <1>1, <2>1, <2>2
  <2> QED BY <1>3, <2>3, ShapeJob DEF ActivateUnpaid, redis, ghosts
<1>4. CASE Pay(r)
  <2>1. job' \in [Requests -> GoodJobs]
    <3>1. CASE job' = [job EXCEPT ![r] = Idle]
      BY <1>1, <3>1, ConstantsTyped
    <3>2. CASE Goto(r, "configure")
      BY <1>1, <1>4, <3>2, GotoGood DEF Buying, Pay
    <3> QED BY <1>4, <3>1, <3>2 DEF Pay
  <2> QED BY <1>4, <2>1, ShapeJob DEF Pay, ghosts
<1>5. CASE Configure(r)
  <2>1. job' \in [Requests -> GoodJobs]
    BY <1>1, <1>5, GotoGood DEF Configure, Buying
  <2> QED BY <1>5, <2>1, ShapeJob DEF Configure, redis, ghosts
<1>6. CASE CheckInactive(r)
  <2>1. job' \in [Requests -> GoodJobs]
    BY <1>1, <1>6, GotoGood DEF CheckInactive, Buying
  <2> QED BY <1>6, <2>1, ShapeJob DEF CheckInactive, redis, ghosts
<1>7. CASE Record(r)
  <2>1. job' \in [Requests -> GoodJobs]
    BY <1>1, <1>7, ConstantsTyped DEF Record
  <2> QED BY <1>7, <2>1, ShapeJob DEF Record, redis, ghosts
<1> QED BY <1>2, <1>3, <1>4, <1>5, <1>6, <1>7

LEMMA ShapeActivate ==
  ASSUME Shape, NEW r \in Requests, Activate(r)
  PROVE  Shape'
<1> DEFINE s == job[r].sub
           b == job[r].bundle
<1>1. job[r] \in GoodJobs /\ job \in [Requests -> GoodJobs]
  BY DEF Shape
<1>2. s \in Subs /\ b \in Bundles
  BY <1>1 DEF GoodJobs, Jobs, Buying, Activate, ActivateWith
<1>3. activations' \in Ids /\ activations' = activations + 1
  BY ConstantsTyped DEF Shape, Ids, Activate, ActivateWith
<1>4. Fresh(b) \in Values
  <2>1. activations + 1 \in 1..MaxActivations
    BY <1>3, ConstantsTyped DEF Shape, Ids
  <2> QED BY <1>2, <2>1, ConstantsTyped DEF Fresh, Values, Stored
<1>5. bundle' = [bundle EXCEPT ![s][b] = Fresh(b)]
  BY DEF Activate, ActivateWith
<1>6. job' \in [Requests -> GoodJobs]
  BY <1>1, GotoGood DEF Activate, ActivateWith, Buying
<1>7. tracked' \in [Subs -> SUBSET Bundles]
  BY <1>2 DEF Shape, Activate, ActivateWith
<1>8. over' \subseteq 1..activations' /\ used' = used
  BY <1>3 DEF Shape, Ids, Activate, ActivateWith
<1> HIDE DEF s, b
<1>9. bundle' \in [Subs -> [Bundles -> Values]]
  BY <1>2, <1>4, <1>5 DEF Shape
<1> QED BY <1>3, <1>6, <1>7, <1>8, <1>9 DEF Shape

LEMMA ShapeConsuming ==
  ASSUME Shape, NEW r \in Requests,
         \/ \E s \in Subs, t \in Types : Consume(r, s, t)
         \/ Fetch(r) \/ (\E b \in Bundles : Choose(r, b)) \/ Untrack(r)
  PROVE  Shape'
<1>1. job[r] \in GoodJobs /\ job \in [Requests -> GoodJobs]
  BY DEF Shape
<1>2. ASSUME NEW s \in Subs, NEW t \in Types, Consume(r, s, t) PROVE Shape'
  <2> DEFINE f == [b \in Bundles |-> IF b \in tracked[s] THEN bundle[s][b] ELSE NoBundle]
             j == [Idle EXCEPT !.at = "fetch", !.sub = s, !.type = t, !.found = f]
  <2>1. f \in [Bundles -> Values]
    BY ConstantsTyped DEF Shape
  <2>2. job' = [job EXCEPT ![r] = j]
    BY <1>2 DEF Consume
  <2> HIDE DEF f
  <2>3. j \in GoodJobs
    BY <2>1, ConstantsTyped DEF Idle, GoodJobs, Jobs, Stages, Buying, Consuming
  <2> HIDE DEF j
  <2>4. job' \in [Requests -> GoodJobs]
    BY <1>1, <2>2, <2>3
  <2> QED BY <1>2, <2>4, ShapeJob DEF Consume, redis, ghosts
<1>3. CASE Fetch(r)
  <2> DEFINE s == job[r].sub
             f == [b \in Bundles |->
                     IF job[r].found[b] # NoBundle THEN bundle[s][b] ELSE NoBundle]
             j == [job[r] EXCEPT !.at = "consume", !.found = f]
  <2>1. s \in Subs
    BY <1>1, <1>3 DEF GoodJobs, Fetch
  <2>2. f \in [Bundles -> Values]
    BY <2>1, ConstantsTyped DEF Shape
  <2>3. job' = [job EXCEPT ![r] = j]
    BY <1>3, <1>1 DEF Fetch, GoodJobs, Jobs
  <2> HIDE DEF f
  <2>4. j \in GoodJobs
    BY <1>1, <1>3, <2>2 DEF Fetch, GoodJobs, Jobs, Stages, Buying, Consuming
  <2> HIDE DEF j
  <2>5. job' \in [Requests -> GoodJobs]
    BY <1>1, <2>3, <2>4
  <2> QED BY <1>3, <2>5, ShapeJob DEF Fetch, redis, ghosts
<1>4. ASSUME NEW b \in Bundles, Choose(r, b) PROVE Shape'
  <2> USE <1>1, <1>4
  <2>1. /\ job[r].at = "consume" /\ job[r].found[b] \in Values
        /\ job[r].type \in Types /\ job[r].sub \in Subs
        /\ job[r].found \in [Bundles -> Values] /\ job[r] \in Jobs
    BY DEF Choose, GoodJobs, Jobs, Consuming
  <2>2. job[r].found[b] \in Stored /\ job[r].found[b].by # 0
    <3>1. job[r].found[b] # NoBundle
      BY DEF Choose, Turn, Found
    <3>2. job[r].found[b] \in Stored
      BY <2>1, <3>1 DEF Values
    <3> QED BY <3>2, ConstantsTyped DEF Stored
  <2>3. ASSUME job' = [job EXCEPT ![r].at = "untrack", ![r].bundle = b]
        PROVE  job' \in [Requests -> GoodJobs]
    <3> DEFINE j == [job[r] EXCEPT !.at = "untrack", !.bundle = b]
    <3>1. job' = [job EXCEPT ![r] = j]
      BY <2>1, <2>3
    <3>2. j \in GoodJobs
      BY <2>1, <2>2 DEF GoodJobs, Jobs, Stages, Buying, Consuming
    <3> HIDE DEF j
    <3> QED BY <3>1, <3>2
  <2>4. ASSUME job' = [job EXCEPT ![r].at = "write", ![r].bundle = b,
                                  ![r].found[b].left[job[r].type] = @ - 1]
        PROVE  job' \in [Requests -> GoodJobs]
    <3> DEFINE t == job[r].type
               v == [job[r].found[b] EXCEPT !.left[t] = @ - 1]
               f == [job[r].found EXCEPT ![b] = v]
               j == [job[r] EXCEPT !.at = "write", !.bundle = b, !.found = f]
    <3>1. v \in Stored /\ v.by # 0
      <4>1. job[r].found[b].left[t] \in Int
        BY <2>1, <2>2 DEF Stored
      <4> QED BY <2>2, <4>1 DEF Stored
    <3>2. job' = [job EXCEPT ![r] = j]
      BY <2>1, <2>4 DEF Jobs
    <3> HIDE DEF v
    <3>3. f \in [Bundles -> Values] /\ f[b] = v
      BY <2>1, <3>1 DEF Values
    <3> HIDE DEF f
    <3>4. j \in GoodJobs
      BY <2>1, <3>1, <3>3 DEF GoodJobs, Jobs, Stages, Buying, Consuming
    <3> HIDE DEF j
    <3> QED BY <3>2, <3>4
  <2>5. ASSUME job' = [job EXCEPT ![r].found[b] = NoBundle]
        PROVE  job' \in [Requests -> GoodJobs]
    <3> DEFINE f == [job[r].found EXCEPT ![b] = NoBundle]
               j == [job[r] EXCEPT !.found = f]
    <3>1. job' = [job EXCEPT ![r] = j]
      BY <2>1, <2>5 DEF Jobs
    <3>2. f \in [Bundles -> Values]
      BY <2>1, ConstantsTyped
    <3> HIDE DEF f
    <3>3. j \in GoodJobs
      BY <2>1, <3>2 DEF GoodJobs, Jobs, Stages, Buying, Consuming
    <3> HIDE DEF j
    <3> QED BY <3>1, <3>3
  <2>6. job' \in [Requests -> GoodJobs]
    <3>1. CASE Expired(r, b)
      BY <3>1, <2>3 DEF Choose
    <3>2. CASE ~Expired(r, b) /\ Covers(r, b)
      BY <3>2, <2>4 DEF Choose
    <3>3. CASE ~Expired(r, b) /\ ~Covers(r, b)
      BY <3>3, <2>5 DEF Choose
    <3> QED BY <3>1, <3>2, <3>3
  <2> QED BY <2>6, ShapeJob DEF Choose, redis, ghosts
<1>5. CASE Untrack(r)
  <2> DEFINE s == job[r].sub
             b == job[r].bundle
             f == [job[r].found EXCEPT ![b] = NoBundle]
             j == [job[r] EXCEPT !.at = "consume", !.found = f]
  <2> USE <1>1, <1>5
  <2>1. /\ job[r].at = "untrack" /\ s \in Subs /\ b \in Bundles
        /\ job[r].type \in Types /\ job[r] \in Jobs
        /\ job[r].found \in [Bundles -> Values]
    BY DEF Untrack, GoodJobs, Jobs, Consuming
  <2>2. job' = [job EXCEPT ![r] = j]
    BY <2>1 DEF Untrack, Jobs
  <2>3. f \in [Bundles -> Values]
    BY <2>1, ConstantsTyped
  <2> HIDE DEF f
  <2>4. j \in GoodJobs
    BY <2>1, <2>3 DEF GoodJobs, Jobs, Stages, Buying, Consuming
  <2> HIDE DEF j
  <2>5. job' \in [Requests -> GoodJobs]
    BY <2>2, <2>4
  <2>6. tracked' \in [Subs -> SUBSET Bundles]
    BY <2>1 DEF Untrack, Shape
  <2> QED BY <2>5, <2>6 DEF Untrack, Shape
<1> QED BY <1>2, <1>3, <1>4, <1>5

LEMMA ShapeWrite ==
  ASSUME Shape, NEW r \in Requests, Write(r)
  PROVE  /\ Shape'
         /\ job[r].sub \in Subs /\ job[r].bundle \in Bundles
         /\ job[r].found[job[r].bundle].by \in 1..MaxActivations
         /\ job[r].type \in Types
<1> DEFINE s == job[r].sub
           b == job[r].bundle
           v == job[r].found[b]
           t == job[r].type
<1>1. job[r] \in GoodJobs /\ job \in [Requests -> GoodJobs]
  BY DEF Shape
<1>2. s \in Subs /\ b \in Bundles /\ t \in Types /\ v \in Values /\ v.by # 0
  BY <1>1 DEF Write, GoodJobs, Jobs, Consuming
<1>3. v.by \in 1..MaxActivations
  BY <1>2, ConstantsTyped DEF Values, Stored
<1>4. bundle' = [bundle EXCEPT ![s][b] = v] /\ used' = [used EXCEPT ![v.by][t] = @ + 1]
  BY DEF Write
<1>5. job' \in [Requests -> GoodJobs]
  BY <1>1, ConstantsTyped DEF Write
<1>6. UNCHANGED <<tracked, activations, over>>
  BY DEF Write
<1> HIDE DEF s, b, v, t
<1>7. bundle' \in [Subs -> [Bundles -> Values]]
  BY <1>2, <1>4 DEF Shape
<1>8. used' \in [1..MaxActivations -> [Types -> Nat]]
  <2>1. used[v.by] \in [Types -> Nat] /\ used[v.by][t] \in Nat
    BY <1>2, <1>3 DEF Shape
  <2> QED BY <1>2, <1>3, <1>4, <2>1 DEF Shape
<1>9. Shape'
  BY <1>5, <1>6, <1>7, <1>8 DEF Shape
<1> QED BY <1>2, <1>3, <1>9 DEF s, b, v, t

LEMMA ShapeEnvironment ==
  ASSUME Shape, Environment
  PROVE  Shape'
<1>1. ASSUME NEW s \in Subs, Talk(s) \/ AirtimeLapses(s) PROVE Shape'
  BY <1>1 DEF Talk, AirtimeLapses, Shape
<1>2. ASSUME NEW i \in 1..activations, Passes(i) PROVE Shape'
  BY <1>2 DEF Passes, redis, ghosts, Shape
<1>3. ASSUME NEW s \in Subs, NEW b \in Bundles, KeyExpires(s, b) PROVE Shape'
  <2>1. bundle' \in [Subs -> [Bundles -> Values]]
    BY <1>3, ConstantsTyped DEF KeyExpires, Shape
  <2> QED BY <1>3, <2>1 DEF KeyExpires, ghosts, Shape
<1>4. ASSUME NEW b \in Bundles, SetOnSale(b) PROVE Shape'
  BY <1>4 DEF SetOnSale, redis, ghosts, Shape
<1> QED BY <1>1, <1>2, <1>3, <1>4 DEF Environment

LEMMA ShapeNext == Shape /\ [Next]_vars => Shape'
<1> SUFFICES ASSUME Shape, [Next]_vars PROVE Shape'
  OBVIOUS
<1>1. CASE Environment
  BY <1>1, ShapeEnvironment
<1>2. ASSUME NEW r \in Requests, Serve(r) PROVE Shape'
  BY <1>2, ShapeAirtime, ShapeBuying, ShapeActivate, ShapeConsuming, ShapeWrite
     DEF Serve, Airtime
<1>3. CASE UNCHANGED vars
  BY <1>3 DEF vars, redis, ghosts, Shape
<1> QED BY <1>1, <1>2, <1>3 DEF Next

(* In every reachable state each request holds a bundle and a stage of       *)
(* bundle_service.rs it can be at, and the keys hold bundles.                *)
THEOREM ShapeHolds == Spec => []Shape
BY ShapeInit, ShapeNext, PTL DEF Spec

-----------------------------------------------------------------------------
(* What the three properties speak of, and the few steps that change it *)
kept == <<bundle, armed, tracked, activations, over, used, disturbed>>

LEMMA Steps ==
  ASSUME [Next]_vars
  PROVE  \/ UNCHANGED kept
         \/ \E r \in Requests : Activate(r) \/ Untrack(r) \/ Write(r)
         \/ \E i \in 1..activations : Passes(i)
         \/ \E s \in Subs, b \in Bundles : KeyExpires(s, b)
<1> USE DEF kept, redis, ghosts
<1>1. ASSUME NEW r \in Requests, Serve(r)
      PROVE  UNCHANGED kept \/ Activate(r) \/ Untrack(r) \/ Write(r)
  <2>1. ASSUME \/ \E s \in Subs : AddAirtime(r, s)
               \/ ArmAirtime(r) \/ GiveUp(r)
        PROVE  UNCHANGED kept
    BY <2>1 DEF AddAirtime, ArmAirtime, GiveUp
  <2>2. ASSUME \/ \E p, s \in Subs, b \in Bundles : Purchase(r, p, s, b)
               \/ \E s \in Subs, b \in Bundles : ActivateUnpaid(r, s, b)
               \/ Pay(r) \/ Configure(r) \/ CheckInactive(r) \/ Record(r)
        PROVE  UNCHANGED kept
    BY <2>2 DEF Purchase, ActivateUnpaid, Pay, Configure, CheckInactive, Record
  <2>3. ASSUME \/ \E s \in Subs, t \in Types : Consume(r, s, t)
               \/ Fetch(r) \/ \E b \in Bundles : Choose(r, b)
        PROVE  UNCHANGED kept
    BY <2>3 DEF Consume, Fetch, Choose
  <2> QED BY <1>1, <2>1, <2>2, <2>3 DEF Serve, Airtime
<1>2. CASE Environment
  BY <1>2 DEF Environment, Talk, AirtimeLapses, SetOnSale
<1>3. CASE UNCHANGED vars
  BY <1>3 DEF vars
<1> QED BY <1>1, <1>2, <1>3 DEF Next

(* What a write does to the key and to the usage, one fact at a time *)
LEMMA WriteFacts ==
  ASSUME NEW r \in Requests, Write(r)
  PROVE  /\ UNCHANGED <<tracked, over>>
         /\ bundle' = [bundle EXCEPT ![job[r].sub][job[r].bundle]
                                      = job[r].found[job[r].bundle]]
         /\ armed' = armed \ {<<job[r].sub, job[r].bundle>>}
         /\ used' = [used EXCEPT ![job[r].found[job[r].bundle].by][job[r].type] = @ + 1]
         /\ disturbed \subseteq disturbed'
         /\ \/ bundle[job[r].sub][job[r].bundle] = Before(r)
            \/ job[r].found[job[r].bundle].by \in disturbed'
<1>1. disturbed' = IF bundle[job[r].sub][job[r].bundle] = Before(r) THEN disturbed
                   ELSE disturbed \cup {job[r].found[job[r].bundle].by}
                        \cup Replaced(job[r].sub, job[r].bundle)
  BY DEF Write
<1>2. disturbed \subseteq disturbed'
  BY <1>1
<1>3. \/ bundle[job[r].sub][job[r].bundle] = Before(r)
      \/ job[r].found[job[r].bundle].by \in disturbed'
  BY <1>1
<1>4. UNCHANGED <<tracked, over>>
  BY DEF Write
<1>5. bundle' = [bundle EXCEPT ![job[r].sub][job[r].bundle]
                                 = job[r].found[job[r].bundle]]
  BY DEF Write
<1>6. armed' = armed \ {<<job[r].sub, job[r].bundle>>}
  BY DEF Write
<1>7. used' = [used EXCEPT ![job[r].found[job[r].bundle].by][job[r].type] = @ + 1]
  BY DEF Write
<1> QED BY <1>2, <1>3, <1>4, <1>5, <1>6, <1>7

(* One cell of the usage counted up: it is not 0, the other rows stay. *)
LEMMA CountedUp ==
  ASSUME used \in [1..MaxActivations -> [Types -> Nat]],
         NEW i \in 1..MaxActivations, NEW t \in Types,
         used' = [used EXCEPT ![i][t] = @ + 1]
  PROVE  /\ used'[i][t] # 0
         /\ \A k \in 1..MaxActivations : k # i => used'[k] = used[k]
<1>1. used[i] \in [Types -> Nat] /\ used[i][t] \in Nat
  OBVIOUS
<1>2. used'[i] = [used[i] EXCEPT ![t] = @ + 1]
  OBVIOUS
<1>3. used'[i][t] = used[i][t] + 1
  BY <1>1, <1>2
<1>4. used[i][t] + 1 # 0
  BY <1>1
<1>5. \A k \in 1..MaxActivations : k # i => used'[k] = used[k]
  OBVIOUS
<1> QED BY <1>3, <1>4, <1>5

(* One key replaced: the others stay. *)
LEMMA KeyReplaced ==
  ASSUME bundle \in [Subs -> [Bundles -> Values]],
         NEW u \in Subs, NEW c \in Bundles, NEW v,
         bundle' = [bundle EXCEPT ![u][c] = v]
  PROVE  /\ bundle'[u][c] = v
         /\ \A s \in Subs, b \in Bundles :
              ~(s = u /\ b = c) => bundle'[s][b] = bundle[s][b]
<1>1. bundle[u] \in [Bundles -> Values]
  OBVIOUS
<1>2. bundle'[u] = [bundle[u] EXCEPT ![c] = v]
  OBVIOUS
<1>3. \A s \in Subs : s # u => bundle'[s] = bundle[s]
  OBVIOUS
<1> QED BY <1>1, <1>2, <1>3

(* The key a write replaces, and the others *)
LEMMA WrittenKey ==
  ASSUME Shape, NEW r \in Requests, Write(r)
  PROVE  /\ bundle'[job[r].sub][job[r].bundle] = job[r].found[job[r].bundle]
         /\ \A s \in Subs, b \in Bundles :
              ~(s = job[r].sub /\ b = job[r].bundle) => bundle'[s][b] = bundle[s][b]
<1> DEFINE u == job[r].sub
           c == job[r].bundle
           v == job[r].found[c]
<1>1. u \in Subs /\ c \in Bundles
  BY ShapeWrite
<1>2. bundle' = [bundle EXCEPT ![u][c] = v]
  BY WriteFacts
<1>3. bundle \in [Subs -> [Bundles -> Values]]
  BY DEF Shape
<1> HIDE DEF u, c, v
<1>4. /\ bundle'[u][c] = v
      /\ \A s \in Subs, b \in Bundles :
           ~(s = u /\ b = c) => bundle'[s][b] = bundle[s][b]
  BY <1>1, <1>2, <1>3, KeyReplaced
<1> QED BY <1>4 DEF u, c, v

LEMMA TrackedNext ==
  ASSUME Shape, RunningIsTracked, [Next]_vars
  PROVE  RunningIsTracked'
<1> SUFFICES ASSUME NEW s \in Subs, NEW b \in Bundles,
                    (bundle[s][b].by \notin {0} \cup over \cup disturbed)'
             PROVE  b \in tracked'[s]
  BY DEF RunningIsTracked
<1>1. bundle[s][b].by \notin {0} \cup over \cup disturbed => b \in tracked[s]
  BY DEF RunningIsTracked
<1>2. CASE UNCHANGED kept
  BY <1>1, <1>2 DEF kept
<1>3. ASSUME NEW r \in Requests, Activate(r) PROVE b \in tracked'[s]
  <2>1. job[r].sub \in Subs /\ job[r].bundle \in Bundles
    BY <1>3 DEF Shape, GoodJobs, Jobs, Buying, Activate, ActivateWith
  <2>2. CASE s = job[r].sub /\ b = job[r].bundle
    BY <1>3, <2>1, <2>2 DEF Activate, ActivateWith, Shape
  <2>3. CASE ~(s = job[r].sub /\ b = job[r].bundle)
    <3>1. bundle'[s][b] = bundle[s][b]
      BY <1>3, <2>1, <2>3 DEF Activate, ActivateWith, Shape
    <3>2. tracked[s] \subseteq tracked'[s] /\ over' = over /\ disturbed \subseteq disturbed'
      BY <1>3, <2>1 DEF Activate, ActivateWith, Shape
    <3> QED BY <1>1, <3>1, <3>2
  <2> QED BY <2>2, <2>3
<1>4. ASSUME NEW r \in Requests, Untrack(r) PROVE b \in tracked'[s]
  <2>1. bundle' = bundle /\ over' = over /\ disturbed \subseteq disturbed'
    BY <1>4 DEF Untrack
  <2>2. CASE s = job[r].sub /\ b = job[r].bundle /\ tracked' # tracked
    BY <1>4, <2>1, <2>2 DEF Untrack, Replaced
  <2>3. CASE ~(s = job[r].sub /\ b = job[r].bundle) \/ tracked' = tracked
    <3>1. b \in tracked[s] => b \in tracked'[s]
      BY <1>4, <2>3 DEF Untrack, Shape
    <3> QED BY <1>1, <2>1, <3>1
  <2> QED BY <2>2, <2>3
<1>5. ASSUME NEW r \in Requests, Write(r) PROVE b \in tracked'[s]
  <2>1. UNCHANGED <<tracked, over>> /\ disturbed \subseteq disturbed'
    BY <1>5, WriteFacts
  <2>2. CASE s = job[r].sub /\ b = job[r].bundle
    <3>1. bundle'[s][b].by = job[r].found[b].by
      BY <1>5, <2>2, WrittenKey
    <3>2. bundle[s][b] = Before(r)
      <4>1. job[r].found[b].by \notin disturbed'
        BY <3>1
      <4> QED BY <1>5, <2>2, <4>1, WriteFacts
    <3>3. Before(r).by = job[r].found[b].by
      BY <2>2 DEF Before
    <3> QED BY <1>1, <2>1, <3>1, <3>2, <3>3
  <2>3. CASE ~(s = job[r].sub /\ b = job[r].bundle)
    <3>1. bundle'[s][b] = bundle[s][b]
      BY <1>5, <2>3, WrittenKey
    <3> QED BY <1>1, <2>1, <3>1
  <2> QED BY <2>2, <2>3
<1>6. ASSUME NEW i \in 1..activations, Passes(i) PROVE b \in tracked'[s]
  BY <1>1, <1>6 DEF Passes, redis, ghosts
<1>7. ASSUME NEW u \in Subs, NEW c \in Bundles, KeyExpires(u, c)
      PROVE  b \in tracked'[s]
  <2>1. bundle'[s][b] \in {bundle[s][b], NoBundle}
    BY <1>7 DEF KeyExpires, Shape
  <2> QED BY <1>1, <1>7, <2>1, ConstantsTyped DEF KeyExpires, ghosts
<1> QED BY <1>2, <1>3, <1>4, <1>5, <1>6, <1>7, Steps

(* Consumption finds every running bundle that no stale request touched. *)
THEOREM RunningTracked == Spec => []RunningIsTracked
<1>1. Init => RunningIsTracked
  BY ConstantsTyped DEF Init, RunningIsTracked, NoKeys
<1> QED BY <1>1, ShapeHolds, TrackedNext, PTL DEF Spec

LEMMA LapsesNext ==
  ASSUME Shape, UnusedLapses, [Next]_vars
  PROVE  UnusedLapses'
<1> SUFFICES ASSUME NEW s \in Subs, NEW b \in Bundles,
                    (bundle[s][b].by \notin {0} \cup disturbed)',
                    \A t \in Types : used'[bundle'[s][b].by][t] = 0
             PROVE  <<s, b>> \in armed'
  BY DEF UnusedLapses
<1>1. bundle[s][b].by \notin {0} \cup disturbed
        /\ (\A t \in Types : used[bundle[s][b].by][t] = 0) => <<s, b>> \in armed
  BY DEF UnusedLapses
<1>2. CASE UNCHANGED kept
  BY <1>1, <1>2 DEF kept
<1>3. ASSUME NEW r \in Requests, Activate(r) PROVE <<s, b>> \in armed'
  <2>1. job[r].sub \in Subs /\ job[r].bundle \in Bundles
    BY <1>3 DEF Shape, GoodJobs, Jobs, Buying, Activate, ActivateWith
  <2>2. armed' = armed \cup {<<job[r].sub, job[r].bundle>>} /\ used' = used
        /\ disturbed \subseteq disturbed'
    BY <1>3 DEF Activate, ActivateWith
  <2>3. CASE s = job[r].sub /\ b = job[r].bundle
    BY <2>2, <2>3
  <2>4. CASE ~(s = job[r].sub /\ b = job[r].bundle)
    <3>1. bundle'[s][b] = bundle[s][b]
      BY <1>3, <2>1, <2>4 DEF Activate, ActivateWith, Shape
    <3> QED BY <1>1, <2>2, <3>1
  <2> QED BY <2>3, <2>4
<1>4. ASSUME NEW r \in Requests, Untrack(r) PROVE <<s, b>> \in armed'
  BY <1>1, <1>4 DEF Untrack
<1>5. ASSUME NEW r \in Requests, Write(r) PROVE <<s, b>> \in armed'
  <2> DEFINE i == job[r].found[job[r].bundle].by
             t == job[r].type
  <2>1. i \in 1..MaxActivations /\ t \in Types
    BY <1>5, ShapeWrite
  <2>2. used' = [used EXCEPT ![i][t] = @ + 1]
    BY <1>5, WriteFacts
  <2>3. used \in [1..MaxActivations -> [Types -> Nat]]
    BY DEF Shape
  <2>4. /\ disturbed \subseteq disturbed'
        /\ armed' = armed \ {<<job[r].sub, job[r].bundle>>}
    BY <1>5, WriteFacts
  <2> HIDE DEF i, t
  <2>6. used'[i][t] # 0 /\ \A k \in 1..MaxActivations : k # i => used'[k] = used[k]
    BY <2>1, <2>2, <2>3, CountedUp
  <2>7. bundle'[s][b].by # i
    BY <2>1, <2>6
  <2>8. ~(s = job[r].sub /\ b = job[r].bundle)
    BY <1>5, <2>7, WrittenKey DEF i
  <2>9. bundle'[s][b] = bundle[s][b]
    BY <1>5, <2>8, WrittenKey
  <2>10. bundle[s][b].by \in 1..MaxActivations
    <3>1. bundle[s][b] \in Values
      BY DEF Shape
    <3>2. bundle[s][b].by # 0
      BY <2>9
    <3>3. bundle[s][b] \in Stored
      BY <3>1, <3>2, ConstantsTyped DEF Values
    <3> QED BY <3>2, <3>3, ConstantsTyped DEF Stored, Ids
  <2>11. used'[bundle[s][b].by] = used[bundle[s][b].by]
    BY <2>6, <2>7, <2>9, <2>10
  <2> QED BY <1>1, <2>4, <2>8, <2>9, <2>11
<1>6. ASSUME NEW i \in 1..activations, Passes(i) PROVE <<s, b>> \in armed'
  BY <1>1, <1>6 DEF Passes, redis, ghosts
<1>7. ASSUME NEW u \in Subs, NEW c \in Bundles, KeyExpires(u, c)
      PROVE  <<s, b>> \in armed'
  <2>1. ~(s = u /\ b = c)
    BY <1>7, ConstantsTyped DEF KeyExpires, Shape
  <2>2. bundle'[s][b] = bundle[s][b]
    BY <1>7, <2>1 DEF KeyExpires, Shape
  <2> QED BY <1>1, <1>7, <2>1, <2>2 DEF KeyExpires, ghosts
<1> QED BY <1>2, <1>3, <1>4, <1>5, <1>6, <1>7, Steps

(* A bundle nobody used, and no stale request touched, lapses. *)
THEOREM UnusedBundlesLapse == Spec => []UnusedLapses
<1>1. Init => UnusedLapses
  BY ConstantsTyped DEF Init, UnusedLapses, NoKeys
<1> QED BY <1>1, ShapeHolds, LapsesNext, PTL DEF Spec

-----------------------------------------------------------------------------
(* A bundle that is dead stays so, when no request can revive it. *)
LEMMA DeadStays ==
  ASSUME Shape, NEW s \in Subs, NEW b \in Bundles, Dead(s, b),
         \A r \in Requests : ~Reviver(r, s, b), [Next]_vars
  PROVE  Dead(s, b)'
<1>1. bundle[s][b].by \in over /\ <<s, b>> \notin armed
  BY DEF Dead
<1>2. CASE UNCHANGED kept
  BY <1>1, <1>2 DEF kept, Dead
<1>3. ASSUME NEW r \in Requests, Activate(r) PROVE Dead(s, b)'
  <2>1. job[r].sub \in Subs /\ job[r].bundle \in Bundles
    BY <1>3 DEF Shape, GoodJobs, Jobs, Buying, Activate, ActivateWith
  <2>2. ~(job[r].sub = s /\ job[r].bundle = b)
    BY <1>3 DEF Reviver, Activate, ActivateWith
  <2>3. bundle'[s][b] = bundle[s][b]
    BY <1>3, <2>1, <2>2 DEF Activate, ActivateWith, Shape
  <2> QED BY <1>1, <1>3, <2>2, <2>3 DEF Dead, Activate, ActivateWith
<1>4. ASSUME NEW r \in Requests, Untrack(r) PROVE Dead(s, b)'
  BY <1>1, <1>4 DEF Untrack, Dead
<1>5. ASSUME NEW r \in Requests, Write(r) PROVE Dead(s, b)'
  <2>1. job[r].sub \in Subs /\ job[r].bundle \in Bundles
        /\ job[r].found[job[r].bundle].by # 0
    BY <1>5, ShapeWrite
  <2>2. /\ bundle' = [bundle EXCEPT ![job[r].sub][job[r].bundle]
                                      = job[r].found[job[r].bundle]]
        /\ armed' = armed \ {<<job[r].sub, job[r].bundle>>}
        /\ over' = over
    BY <1>5 DEF Write
  <2>3. CASE job[r].sub = s /\ job[r].bundle = b
    <3>1. job[r].found[b].by \in over
      BY <1>5, <2>1, <2>3 DEF Reviver, Write
    <3>2. bundle'[s][b] = job[r].found[b]
      BY <2>2, <2>3 DEF Shape
    <3> QED BY <1>1, <2>2, <3>1, <3>2 DEF Dead
  <2>4. CASE ~(job[r].sub = s /\ job[r].bundle = b)
    <3>1. bundle'[s][b] = bundle[s][b]
      BY <2>1, <2>2, <2>4 DEF Shape
    <3> QED BY <1>1, <2>2, <3>1 DEF Dead
  <2> QED BY <2>3, <2>4
<1>6. ASSUME NEW i \in 1..activations, Passes(i) PROVE Dead(s, b)'
  BY <1>1, <1>6 DEF Passes, redis, ghosts, Dead
<1>7. ASSUME NEW u \in Subs, NEW c \in Bundles, KeyExpires(u, c)
      PROVE  Dead(s, b)'
  <2>1. ~(s = u /\ b = c)
    BY <1>1, <1>7 DEF KeyExpires
  <2>2. bundle'[s][b] = bundle[s][b]
    BY <1>7, <2>1 DEF KeyExpires, Shape
  <2> QED BY <1>1, <1>7, <2>2 DEF KeyExpires, ghosts, Dead
<1> QED BY <1>2, <1>3, <1>4, <1>5, <1>6, <1>7, Steps

(* A request's job is its own to change. *)
LEMMA OthersKept ==
  ASSUME Shape, NEW r \in Requests, Serve(r), NEW q \in Requests, r # q
  PROVE  job'[q] = job[q]
<1> USE DEF Shape
<1>1. ASSUME \/ \E u \in Subs : AddAirtime(r, u)
             \/ ArmAirtime(r) \/ GiveUp(r)
             \/ \E p, u \in Subs, c \in Bundles : Purchase(r, p, u, c)
             \/ \E u \in Subs, c \in Bundles : ActivateUnpaid(r, u, c)
      PROVE  job'[q] = job[q]
  BY <1>1 DEF AddAirtime, ArmAirtime, GiveUp, Purchase, ActivateUnpaid
<1>2. ASSUME Pay(r) \/ Configure(r) \/ CheckInactive(r) \/ Activate(r) \/ Record(r)
      PROVE  job'[q] = job[q]
  BY <1>2 DEF Pay, Configure, CheckInactive, Activate, ActivateWith, Record, Goto
<1>3. ASSUME \/ \E u \in Subs, t \in Types : Consume(r, u, t)
             \/ Fetch(r) \/ Untrack(r) \/ Write(r)
      PROVE  job'[q] = job[q]
  BY <1>3 DEF Consume, Fetch, Untrack, Write
<1>4. ASSUME NEW c \in Bundles, Choose(r, c) PROVE job'[q] = job[q]
  BY <1>4 DEF Choose
<1> QED BY <1>1, <1>2, <1>3, <1>4 DEF Serve, Airtime

LEMMA JobKept ==
  ASSUME Shape, [Next]_vars, NEW q \in Requests, ~Serve(q)
  PROVE  job'[q] = job[q]
<1>1. CASE Environment \/ UNCHANGED vars
  BY <1>1 DEF Environment, Talk, AirtimeLapses, Passes, KeyExpires, SetOnSale, vars
<1> QED BY <1>1, OthersKept DEF Next

(* Where a request of consumption has a bundle from: its key, or its own     *)
(* earlier reading of it, of which it may have subtracted usage. *)
LEMMA FoundStep ==
  ASSUME Shape, [Next]_vars, NEW q \in Requests, NEW b \in Bundles,
         job'[q].at \in Consuming, job'[q].found[b].by # 0
  PROVE  \/ bundle[job'[q].sub][b].by = job'[q].found[b].by
         \/ /\ job[q].at \in Consuming
            /\ job'[q].sub = job[q].sub
            /\ job'[q].found[b].by = job[q].found[b].by
<1>1. job \in [Requests -> GoodJobs] /\ job[q] \in GoodJobs /\ NoBundle.by = 0
  BY ConstantsTyped DEF Shape
<1> USE <1>1
<1>2. CASE ~Serve(q)
  BY <1>2, JobKept
<1>3. ASSUME \/ \E u \in Subs : AddAirtime(q, u)
             \/ ArmAirtime(q) \/ GiveUp(q) \/ Record(q) \/ Write(q)
             \/ \E p, u \in Subs, c \in Bundles : Purchase(q, p, u, c)
             \/ \E u \in Subs, c \in Bundles : ActivateUnpaid(q, u, c)
      PROVE  job'[q].at \notin Consuming
  <2>1. ASSUME NEW u \in Subs, AddAirtime(q, u) PROVE job'[q].at = "arm"
    BY <2>1 DEF AddAirtime, GoodJobs, Jobs
  <2>2. ASSUME ArmAirtime(q) \/ GiveUp(q) \/ Record(q) \/ Write(q)
        PROVE  job'[q].at = "idle"
    BY <2>2 DEF ArmAirtime, GiveUp, Record, Write, Idle
  <2>3. ASSUME NEW p \in Subs, NEW u \in Subs, NEW c \in Bundles,
               Purchase(q, p, u, c)
        PROVE  job'[q].at = "pay"
    BY <2>3 DEF Purchase, Idle
  <2>4. ASSUME NEW u \in Subs, NEW c \in Bundles, ActivateUnpaid(q, u, c)
        PROVE  job'[q].at = "configure"
    BY <2>4 DEF ActivateUnpaid, Idle
  <2> QED BY <1>3, <2>1, <2>2, <2>3, <2>4 DEF Consuming
<1>4. ASSUME Pay(q) \/ Configure(q) \/ CheckInactive(q) \/ Activate(q)
      PROVE  job'[q].at \notin Consuming
  <2>1. job'[q].at \in {"idle", "configure", "check", "activate", "record"}
    BY <1>4 DEF Pay, Configure, CheckInactive, Activate, ActivateWith, Goto, Idle,
       GoodJobs, Jobs
  <2> QED BY <2>1 DEF Consuming
<1>5. ASSUME NEW u \in Subs, NEW t \in Types, Consume(q, u, t)
      PROVE  bundle[job'[q].sub][b].by = job'[q].found[b].by
  <2>1. job'[q].sub = u /\ job'[q].found[b] \in {bundle[u][b], NoBundle}
    BY <1>5 DEF Consume, Idle
  <2> QED BY <2>1
<1>6. ASSUME Fetch(q) PROVE bundle[job'[q].sub][b].by = job'[q].found[b].by
  <2>1. /\ job'[q].sub = job[q].sub
        /\ job'[q].found[b] \in {bundle[job[q].sub][b], NoBundle}
    BY <1>6 DEF Fetch, GoodJobs, Jobs
  <2> QED BY <2>1
<1>7. ASSUME NEW c \in Bundles, Choose(q, c)
      PROVE  /\ job[q].at = "consume" /\ job'[q].sub = job[q].sub
             /\ job'[q].found[b].by \in {job[q].found[b].by, 0}
  <2>1. /\ job[q] \in Jobs /\ job[q].at = "consume"
        /\ job[q].found \in [Bundles -> Values]
    BY <1>7 DEF GoodJobs, Jobs, Choose
  <2>2. ASSUME job' = [job EXCEPT ![q].at = "untrack", ![q].bundle = c]
        PROVE  job'[q].sub = job[q].sub /\ job'[q].found = job[q].found
    BY <2>1, <2>2 DEF Jobs
  <2>3. ASSUME job' = [job EXCEPT ![q].at = "write", ![q].bundle = c,
                                  ![q].found[c].left[job[q].type] = @ - 1]
        PROVE  /\ job'[q].sub = job[q].sub
               /\ job'[q].found[b].by = job[q].found[b].by
    <3> DEFINE v == [job[q].found[c] EXCEPT !.left[job[q].type] = @ - 1]
    <3>1. v.by = job[q].found[c].by
      <4>1. CASE job[q].found[c] \in Stored
        BY <4>1 DEF Stored
      <4>2. CASE job[q].found[c] = NoBundle
        BY <4>2 DEF NoBundle
      <4> QED BY <2>1, <4>1, <4>2 DEF Values
    <3>2. /\ job'[q].sub = job[q].sub
          /\ job'[q].found = [job[q].found EXCEPT ![c] = v]
      BY <2>1, <2>3 DEF Jobs
    <3> HIDE DEF v
    <3> QED BY <2>1, <3>1, <3>2
  <2>4. ASSUME job' = [job EXCEPT ![q].found[c] = NoBundle]
        PROVE  /\ job'[q].sub = job[q].sub
               /\ job'[q].found = [job[q].found EXCEPT ![c] = NoBundle]
    BY <2>1, <2>4 DEF Jobs
  <2>5. CASE Expired(q, c)
    BY <1>7, <2>1, <2>2, <2>5 DEF Choose
  <2>6. CASE ~Expired(q, c) /\ Covers(q, c)
    BY <1>7, <2>1, <2>3, <2>6 DEF Choose
  <2>7. CASE ~Expired(q, c) /\ ~Covers(q, c)
    BY <1>7, <2>1, <2>4, <2>7 DEF Choose
  <2> QED BY <2>5, <2>6, <2>7
<1>8. ASSUME Untrack(q)
      PROVE  /\ job[q].at = "untrack" /\ job'[q].sub = job[q].sub
             /\ job'[q].found[b].by \in {job[q].found[b].by, 0}
  <2>1. /\ job[q].at = "untrack" /\ job'[q].sub = job[q].sub
        /\ job'[q].found = [job[q].found EXCEPT ![job[q].bundle] = NoBundle]
    BY <1>8 DEF Untrack, GoodJobs, Jobs
  <2> QED BY <2>1 DEF GoodJobs, Jobs
<1> QED BY <1>2, <1>3, <1>4, <1>5, <1>6, <1>7, <1>8 DEF Serve, Airtime, Consuming

(* A request comes to activate a bundle only when it has seen none. *)
LEMMA ActivateStep ==
  ASSUME Shape, [Next]_vars, NEW q \in Requests, job'[q].at = "activate"
  PROVE  \/ job'[q] = job[q]
         \/ bundle[job'[q].sub][job'[q].bundle] = NoBundle
<1>1. job \in [Requests -> GoodJobs] /\ job[q] \in GoodJobs
  BY DEF Shape
<1> USE <1>1
<1>2. CASE CheckInactive(q)
  <2>1. job'[q] = [job[q] EXCEPT !.at = "activate"]
    BY <1>2 DEF CheckInactive, Goto
  <2>2. job'[q].sub = job[q].sub /\ job'[q].bundle = job[q].bundle
    BY <2>1 DEF GoodJobs, Jobs
  <2> QED BY <1>2, <2>2 DEF CheckInactive
<1>3. CASE ~Serve(q)
  BY <1>3, JobKept
<1>4. ASSUME \/ \E u \in Subs : AddAirtime(q, u)
             \/ ArmAirtime(q) \/ GiveUp(q) \/ Record(q) \/ Write(q)
             \/ Pay(q) \/ Configure(q) \/ Activate(q)
      PROVE  job'[q].at # "activate"
  <2>1. ASSUME NEW u \in Subs, AddAirtime(q, u) PROVE job'[q].at = "arm"
    BY <2>1 DEF AddAirtime, GoodJobs, Jobs
  <2>2. ASSUME ArmAirtime(q) \/ GiveUp(q) \/ Record(q) \/ Write(q)
        PROVE  job'[q].at = "idle"
    BY <2>2 DEF ArmAirtime, GiveUp, Record, Write, Idle
  <2>3. ASSUME Pay(q) \/ Configure(q) \/ Activate(q)
        PROVE  job'[q].at \in {"idle", "configure", "check", "record"}
    BY <2>3 DEF Pay, Configure, Activate, ActivateWith, Goto, Idle, GoodJobs, Jobs
  <2> QED BY <1>4, <2>1, <2>2, <2>3
<1>5. ASSUME \/ \E p, u \in Subs, c \in Bundles : Purchase(q, p, u, c)
             \/ \E u \in Subs, c \in Bundles : ActivateUnpaid(q, u, c)
             \/ \E u \in Subs, t \in Types : Consume(q, u, t)
      PROVE  job'[q].at # "activate"
  BY <1>5 DEF Purchase, ActivateUnpaid, Consume, Idle
<1>6. ASSUME Fetch(q) \/ Untrack(q) PROVE job'[q].at = "consume"
  BY <1>6 DEF Fetch, Untrack, GoodJobs, Jobs
<1>7. ASSUME NEW c \in Bundles, Choose(q, c)
      PROVE  job'[q].at \in {"consume", "untrack", "write"}
  <2>1. job[q] \in Jobs /\ job[q].at = "consume"
    BY <1>7 DEF GoodJobs, Choose
  <2>2. CASE Expired(q, c)
    BY <1>7, <2>1, <2>2 DEF Choose, Jobs
  <2>3. CASE ~Expired(q, c) /\ Covers(q, c)
    BY <1>7, <2>1, <2>3 DEF Choose, Jobs
  <2>4. CASE ~Expired(q, c) /\ ~Covers(q, c)
    BY <1>7, <2>1, <2>4 DEF Choose, Jobs
  <2> QED BY <2>2, <2>3, <2>4
<1> QED BY <1>2, <1>3, <1>4, <1>5, <1>6, <1>7 DEF Serve, Airtime

LEMMA NoneRevives ==
  ASSUME Shape, NEW s \in Subs, NEW b \in Bundles, Dead(s, b),
         NEW q \in Requests, ~Reviver(q, s, b), [Next]_vars
  PROVE  ~Reviver(q, s, b)'
<1>1. bundle[s][b].by \in over /\ bundle[s][b] # NoBundle /\ 0 \notin over
  BY ConstantsTyped DEF Dead, Shape, Ids
<1>2. over \subseteq over'
  <2>1. ASSUME NEW r \in Requests, Activate(r) \/ Untrack(r) \/ Write(r)
        PROVE  over' = over
    BY <2>1 DEF Activate, ActivateWith, Untrack, Write
  <2> QED BY <2>1, Steps DEF kept, Passes, KeyExpires, ghosts
<1>3. CASE job'[q].sub # s
  BY <1>3 DEF Reviver
<1>4. CASE job'[q].sub = s /\ job'[q].at = "activate" /\ job'[q].bundle = b
  BY <1>1, <1>4, ActivateStep DEF Reviver
<1>5. CASE /\ job'[q].sub = s /\ job'[q].at \in Consuming
           /\ job'[q].found[b].by \notin over' \cup {0}
  <2>1. bundle[s][b].by # job'[q].found[b].by
    BY <1>1, <1>2, <1>5
  <2>2. /\ job[q].at \in Consuming /\ job[q].sub = s
        /\ job[q].found[b].by = job'[q].found[b].by
    BY <1>5, <2>1, FoundStep
  <2> QED BY <1>2, <1>5, <2>2 DEF Reviver, Consuming
<1> QED BY <1>3, <1>4, <1>5 DEF Reviver, Consuming

(* A bundle that outlived its time can never be bought again. *)
THEOREM DeadBundlesStay == Spec => DeadForEver
<1>1. ASSUME Shape, [Next]_vars
      PROVE  \A s \in Subs, b \in Bundles :
               Dead(s, b) /\ (\A r \in Requests : ~Reviver(r, s, b)) =>
                 /\ Dead(s, b)'
                 /\ \A r \in Requests : ~Reviver(r, s, b)'
  BY <1>1, DeadStays, NoneRevives
<1> QED BY <1>1, ShapeHolds, PTL DEF Spec, DeadForEver

-----------------------------------------------------------------------------
(* Where an activation is: at a key, or in what a request of consumption has *)
(* read of that key and may write back to it *)
Copy(s, b, i) ==
  \/ bundle[s][b].by = i
  \/ \E r \in Requests :
       /\ job[r].at \in Consuming
       /\ job[r].sub = s
       /\ job[r].found[b].by = i

(* All copies of an activation are of one key, so that a write counts its    *)
(* usage to the bundle it changes; one that is to come has no copy and no    *)
(* usage. *)
OneKey ==
  \A i \in 1..MaxActivations, s, u \in Subs, b, c \in Bundles :
    Copy(s, b, i) /\ Copy(u, c, i) => s = u /\ b = c

Issued ==
  \A i \in 1..MaxActivations : i > activations =>
    /\ \A s \in Subs, b \in Bundles : ~Copy(s, b, i)
    /\ \A t \in Types : used[i][t] = 0

DeductedInv == Shape /\ OneKey /\ Issued /\ UsedIsDeducted

(* What an activation does, one fact at a time *)
LEMMA ActivateFacts ==
  ASSUME Shape, NEW r \in Requests, Activate(r)
  PROVE  /\ job[r].sub \in Subs /\ job[r].bundle \in Bundles
         /\ activations' = activations + 1 /\ activations' \in 1..MaxActivations
         /\ bundle'[job[r].sub][job[r].bundle]
              = [by |-> activations', left |-> Allowance[job[r].bundle]]
         /\ \A s \in Subs, b \in Bundles :
              ~(s = job[r].sub /\ b = job[r].bundle) => bundle'[s][b] = bundle[s][b]
         /\ used' = used /\ disturbed \subseteq disturbed'
<1> DEFINE u == job[r].sub
           c == job[r].bundle
<1>1. u \in Subs /\ c \in Bundles
  BY DEF Shape, GoodJobs, Jobs, Buying, Activate, ActivateWith
<1>2. activations' = activations + 1 /\ activations' \in 1..MaxActivations
  BY ConstantsTyped DEF Shape, Ids, Activate, ActivateWith
<1>3. bundle' = [bundle EXCEPT ![u][c] = Fresh(c)] /\ used' = used
  BY DEF Activate, ActivateWith
<1>4. disturbed \subseteq disturbed'
  BY DEF Activate, ActivateWith
<1>5. bundle \in [Subs -> [Bundles -> Values]]
  BY DEF Shape
<1> HIDE DEF u, c
<1>6. /\ bundle'[u][c] = Fresh(c)
      /\ \A s \in Subs, b \in Bundles :
           ~(s = u /\ b = c) => bundle'[s][b] = bundle[s][b]
  BY <1>1, <1>3, <1>5, KeyReplaced
<1>7. Fresh(c) = [by |-> activations', left |-> Allowance[c]]
  BY <1>2 DEF Fresh
<1> QED BY <1>1, <1>2, <1>3, <1>4, <1>6, <1>7 DEF u, c

(* A step makes no copy but of a copy of the same key, unless it activates. *)
LEMMA CopiesStep ==
  ASSUME Shape, [Next]_vars, NEW s \in Subs, NEW b \in Bundles,
         NEW i \in 1..MaxActivations, Copy(s, b, i)'
  PROVE  \/ Copy(s, b, i)
         \/ \E r \in Requests :
              Activate(r) /\ s = job[r].sub /\ b = job[r].bundle /\ i = activations'
<1>1. ASSUME bundle'[s][b].by = i PROVE
        \/ Copy(s, b, i)
        \/ \E r \in Requests :
             Activate(r) /\ s = job[r].sub /\ b = job[r].bundle /\ i = activations'
  <2>1. CASE bundle'[s][b] = bundle[s][b]
    BY <1>1, <2>1 DEF Copy
  <2>2. ASSUME NEW r \in Requests, Activate(r), bundle'[s][b] # bundle[s][b]
        PROVE  s = job[r].sub /\ b = job[r].bundle /\ i = activations'
    <3>1. s = job[r].sub /\ b = job[r].bundle
      BY <2>2, ActivateFacts
    <3>2. bundle'[s][b] = [by |-> activations', left |-> Allowance[b]]
      BY <2>2, <3>1, ActivateFacts
    <3> QED BY <1>1, <3>1, <3>2
  <2>3. ASSUME NEW r \in Requests, Untrack(r) PROVE bundle'[s][b] = bundle[s][b]
    BY <2>3 DEF Untrack
  <2>4. ASSUME NEW r \in Requests, Write(r), bundle'[s][b] # bundle[s][b]
        PROVE  Copy(s, b, i)
    <3>1. s = job[r].sub /\ b = job[r].bundle
      BY <2>4, WrittenKey
    <3>2. bundle'[s][b] = job[r].found[b] /\ job[r].at = "write"
      BY <2>4, <3>1, WrittenKey DEF Write
    <3> QED BY <1>1, <3>1, <3>2 DEF Copy, Consuming
  <2>5. ASSUME NEW u \in Subs, NEW c \in Bundles, KeyExpires(u, c),
               bundle'[s][b] # bundle[s][b]
        PROVE  FALSE
    <3>1. bundle'[s][b] = NoBundle
      <4>1. bundle \in [Subs -> [Bundles -> Values]] /\ bundle' = [bundle EXCEPT ![u][c] = NoBundle]
        BY <2>5 DEF Shape, KeyExpires
      <4> QED BY <2>5, <4>1, KeyReplaced
    <3> QED BY <1>1, <3>1, ConstantsTyped
  <2>6. ASSUME NEW k \in 1..activations, Passes(k) PROVE bundle'[s][b] = bundle[s][b]
    BY <2>6 DEF Passes, redis
  <2>7. CASE UNCHANGED kept
    BY <2>1, <2>7 DEF kept
  <2> QED BY <2>1, <2>2, <2>3, <2>4, <2>5, <2>6, <2>7, Steps
<1>2. ASSUME NEW q \in Requests, job'[q].at \in Consuming, job'[q].sub = s,
             job'[q].found[b].by = i
      PROVE  Copy(s, b, i)
  <2>1. i # 0
    OBVIOUS
  <2> QED BY <1>2, <2>1, FoundStep DEF Copy
<1> QED BY <1>1, <1>2 DEF Copy

LEMMA OneKeyStep ==
  ASSUME Shape, OneKey, Issued, [Next]_vars
  PROVE  OneKey'
<1> SUFFICES ASSUME NEW i \in 1..MaxActivations, NEW s \in Subs, NEW u \in Subs,
                    NEW b \in Bundles, NEW c \in Bundles,
                    Copy(s, b, i)', Copy(u, c, i)'
             PROVE  s = u /\ b = c
  BY DEF OneKey
<1>1. CASE Copy(s, b, i) /\ Copy(u, c, i)
  BY <1>1 DEF OneKey
<1>2. ASSUME NEW r \in Requests, Activate(r), i = activations'
      PROVE  ~Copy(s, b, i) /\ ~Copy(u, c, i)
  <2>1. activations \in Nat
    BY DEF Shape, Ids
  <2>2. activations' = activations + 1
    BY <1>2, ActivateFacts
  <2>3. i > activations
    BY <1>2, <2>1, <2>2
  <2> QED BY <2>3 DEF Issued
<1>3. ASSUME NEW r \in Requests, Activate(r), NEW q \in Requests, Activate(q)
      PROVE  r = q
  <2>1. job'[r] # job[r] /\ job'[q] # job[q] /\ job \in [Requests -> GoodJobs]
        /\ job' = [job EXCEPT ![r].at = "record"]
    BY <1>3 DEF Activate, ActivateWith, Goto, Shape, GoodJobs, Jobs
  <2> QED BY <2>1
<1> QED BY <1>1, <1>2, <1>3, CopiesStep

LEMMA IssuedStep ==
  ASSUME Shape, OneKey, Issued, [Next]_vars
  PROVE  Issued'
<1> SUFFICES ASSUME NEW i \in 1..MaxActivations, i > activations'
             PROVE  /\ \A s \in Subs, b \in Bundles : ~Copy(s, b, i)'
                    /\ \A t \in Types : used'[i][t] = 0
  BY DEF Issued
<1>1. activations' >= activations /\ activations \in Nat /\ activations' \in Nat
  <2>1. activations \in Nat
    BY DEF Shape, Ids
  <2>2. ASSUME NEW r \in Requests, Activate(r) PROVE activations' = activations + 1
    BY <2>2, ActivateFacts
  <2>3. ASSUME NEW r \in Requests, Untrack(r) \/ Write(r) PROVE activations' = activations
    BY <2>3 DEF Untrack, Write
  <2>4. ASSUME NEW k \in 1..activations, Passes(k) PROVE activations' = activations
    BY <2>4 DEF Passes
  <2>5. ASSUME NEW u \in Subs, NEW c \in Bundles, KeyExpires(u, c)
        PROVE  activations' = activations
    BY <2>5 DEF KeyExpires
  <2> QED BY <2>1, <2>2, <2>3, <2>4, <2>5, Steps DEF kept
<1>2. i > activations /\ i # activations'
  BY <1>1
<1>3. \A s \in Subs, b \in Bundles : ~Copy(s, b, i)'
  BY <1>2, CopiesStep DEF Issued
<1>4. CASE used' = used
  BY <1>2, <1>3, <1>4 DEF Issued
<1>5. ASSUME NEW r \in Requests, Write(r) PROVE \A t \in Types : used'[i][t] = 0
  <2> DEFINE k == job[r].found[job[r].bundle].by
             x == job[r].type
  <2>1. k \in 1..MaxActivations /\ x \in Types /\ job[r].sub \in Subs
        /\ job[r].bundle \in Bundles
    BY <1>5, ShapeWrite
  <2>2. Copy(job[r].sub, job[r].bundle, k)
    BY <1>5 DEF Copy, Consuming, Write
  <2>3. k # i
    BY <1>2, <2>1, <2>2 DEF Issued
  <2>4. used' = [used EXCEPT ![k][x] = @ + 1]
    BY <1>5, WriteFacts
  <2> HIDE DEF k, x
  <2>5. used'[i] = used[i]
    BY <2>1, <2>3, <2>4, CountedUp DEF Shape
  <2> QED BY <1>2, <2>5 DEF Issued
<1>6. ASSUME NEW r \in Requests, Activate(r) \/ Untrack(r) PROVE used' = used
  BY <1>6 DEF Activate, ActivateWith, Untrack
<1>7. ASSUME NEW k \in 1..activations, Passes(k) PROVE used' = used
  BY <1>7 DEF Passes, ghosts
<1>8. ASSUME NEW u \in Subs, NEW c \in Bundles, KeyExpires(u, c) PROVE used' = used
  BY <1>8 DEF KeyExpires, ghosts
<1>9. \A t \in Types : used'[i][t] = 0
  BY <1>2, <1>4, <1>5, <1>6, <1>7, <1>8, Steps DEF kept
<1> QED BY <1>3, <1>9

(* What a write does to the usage and to what remains of a bundle *)
LEMMA BeforeWrite ==
  ASSUME Shape, NEW r \in Requests, Write(r)
  PROVE  LET v == job[r].found[job[r].bundle]
         IN  /\ v \in Stored
             /\ Before(r).by = v.by
             /\ \A t \in Types : Before(r).left[t] =
                                   v.left[t] + IF t = job[r].type THEN 1 ELSE 0
<1> DEFINE v == job[r].found[job[r].bundle]
<1>1. v \in Values /\ v.by \in 1..MaxActivations /\ job[r].type \in Types
  BY ShapeWrite DEF Shape, GoodJobs, Jobs
<1>2. v \in Stored
  BY <1>1, ConstantsTyped DEF Values
<1>3. Before(r) = [v EXCEPT !.left[job[r].type] = @ + 1]
  BY DEF Before
<1> HIDE DEF v
<1>4. /\ Before(r).by = v.by
      /\ Before(r).left = [v.left EXCEPT ![job[r].type] = @ + 1]
  BY <1>2, <1>3 DEF Stored
<1>5. v.left \in [Types -> Int]
  BY <1>2 DEF Stored
<1>6. \A t \in Types : Before(r).left[t] = v.left[t] + IF t = job[r].type THEN 1 ELSE 0
  BY <1>1, <1>4, <1>5
<1> QED BY <1>2, <1>4, <1>6 DEF v

LEMMA CountedTo ==
  ASSUME used \in [1..MaxActivations -> [Types -> Nat]],
         NEW i \in 1..MaxActivations, NEW t \in Types,
         used' = [used EXCEPT ![i][t] = @ + 1]
  PROVE  \A x \in Types : used'[i][x] = used[i][x] + IF x = t THEN 1 ELSE 0
<1>1. used[i] \in [Types -> Nat]
  OBVIOUS
<1>2. used'[i] = [used[i] EXCEPT ![t] = @ + 1]
  OBVIOUS
<1> QED BY <1>1, <1>2

LEMMA DeductedStep ==
  ASSUME DeductedInv, [Next]_vars
  PROVE  UsedIsDeducted'
<1> SUFFICES ASSUME NEW s \in Subs, NEW b \in Bundles, NEW t \in Types,
                    bundle'[s][b].by # 0, bundle'[s][b].by \notin disturbed',
                    Allowance[b][t] # Null
             PROVE  Allowance[b][t] - bundle'[s][b].left[t] = used'[bundle'[s][b].by][t]
  BY DEF UsedIsDeducted
<1> USE DEF DeductedInv
<1>1. ASSUME bundle[s][b].by # 0, bundle[s][b].by \notin disturbed
      PROVE  Allowance[b][t] - bundle[s][b].left[t] = used[bundle[s][b].by][t]
  BY <1>1 DEF UsedIsDeducted
<1>2. CASE bundle'[s][b] = bundle[s][b] /\ used' = used /\ disturbed \subseteq disturbed'
  BY <1>1, <1>2
<1>3. ASSUME NEW r \in Requests, Activate(r), s = job[r].sub, b = job[r].bundle
      PROVE  Allowance[b][t] - bundle'[s][b].left[t] = used'[bundle'[s][b].by][t]
  <2>1. bundle'[s][b] = [by |-> activations', left |-> Allowance[b]] /\ used' = used
    BY <1>3, ActivateFacts
  <2>2. activations' = activations + 1 /\ activations' \in 1..MaxActivations
    BY <1>3, ActivateFacts
  <2>3. activations \in Nat
    BY DEF Shape, Ids
  <2>4. activations' > activations
    BY <2>2, <2>3
  <2>5. used[activations'][t] = 0
    BY <2>2, <2>4 DEF Issued
  <2>6. Allowance[b][t] \in Int
    BY ConstantsTyped
  <2>7. Allowance[b][t] - Allowance[b][t] = 0
    BY <2>6
  <2> QED BY <2>1, <2>5, <2>7
<1>4. ASSUME NEW r \in Requests, Activate(r), ~(s = job[r].sub /\ b = job[r].bundle)
      PROVE  bundle'[s][b] = bundle[s][b] /\ used' = used /\ disturbed \subseteq disturbed'
  BY <1>4, ActivateFacts
<1>5. ASSUME NEW r \in Requests, Untrack(r)
      PROVE  bundle'[s][b] = bundle[s][b] /\ used' = used /\ disturbed \subseteq disturbed'
  BY <1>5 DEF Untrack
<1>6. ASSUME NEW r \in Requests, Write(r)
      PROVE  Allowance[b][t] - bundle'[s][b].left[t] = used'[bundle'[s][b].by][t]
  <2> DEFINE v == job[r].found[job[r].bundle]
             i == v.by
             x == job[r].type
  <2>1. i \in 1..MaxActivations /\ x \in Types /\ job[r].sub \in Subs
        /\ job[r].bundle \in Bundles
    BY <1>6, ShapeWrite
  <2>2. /\ used' = [used EXCEPT ![i][x] = @ + 1]
        /\ disturbed \subseteq disturbed'
        /\ bundle[job[r].sub][job[r].bundle] = Before(r) \/ i \in disturbed'
    BY <1>6, WriteFacts
  <2>3. used \in [1..MaxActivations -> [Types -> Nat]]
    BY DEF Shape
  <2>4. CASE s = job[r].sub /\ b = job[r].bundle
    <3>1. bundle'[s][b] = v
      BY <1>6, <2>4, WrittenKey
    <3>2. bundle[s][b] = Before(r)
      BY <2>2, <2>4, <3>1
    <3>3. v \in Stored /\ Before(r).by = i
          /\ Before(r).left[t] = v.left[t] + IF t = x THEN 1 ELSE 0
      BY <1>6, BeforeWrite
    <3>4. Allowance[b][t] - bundle[s][b].left[t] = used[i][t]
      BY <1>1, <2>1, <2>2, <3>1, <3>2, <3>3
    <3>5. v.left[t] \in Int /\ Allowance[b][t] \in Int /\ used[i][t] \in Int
      BY <2>1, <2>3, <3>3, ConstantsTyped DEF Stored
    <3>6. used'[i][t] = used[i][t] + IF t = x THEN 1 ELSE 0
      <4> HIDE DEF i, x
      <4> QED BY <2>1, <2>2, <2>3, CountedTo
    <3> HIDE DEF v, i, x
    <3>7. Allowance[b][t] - v.left[t] = used'[i][t]
      BY <3>2, <3>3, <3>4, <3>5, <3>6
    <3> QED BY <3>1, <3>7 DEF i
  <2>5. CASE ~(s = job[r].sub /\ b = job[r].bundle)
    <3>1. bundle'[s][b] = bundle[s][b]
      BY <1>6, <2>5, WrittenKey
    <3>2. Copy(job[r].sub, job[r].bundle, i) /\ Copy(s, b, bundle[s][b].by)
      BY <1>6 DEF Copy, Consuming, Write
    <3>3. bundle[s][b].by # i
      BY <2>1, <2>5, <3>2 DEF OneKey
    <3>4. bundle[s][b].by \in 1..MaxActivations
      <4>1. bundle[s][b] \in Values
        BY DEF Shape
      <4> QED BY <3>1, <4>1, ConstantsTyped DEF Values, Stored
    <3>5. used'[bundle[s][b].by] = used[bundle[s][b].by]
      <4> HIDE DEF i, x
      <4> QED BY <2>1, <2>2, <2>3, <3>3, <3>4, CountedUp
    <3> QED BY <1>1, <2>2, <3>1, <3>5
  <2> QED BY <2>4, <2>5
<1>7. ASSUME NEW i \in 1..activations, Passes(i)
      PROVE  bundle'[s][b] = bundle[s][b] /\ used' = used /\ disturbed \subseteq disturbed'
  BY <1>7 DEF Passes, redis, ghosts
<1>8. ASSUME NEW u \in Subs, NEW c \in Bundles, KeyExpires(u, c)
      PROVE  bundle'[s][b] = bundle[s][b] /\ used' = used /\ disturbed \subseteq disturbed'
  <2>1. bundle \in [Subs -> [Bundles -> Values]] /\ bundle' = [bundle EXCEPT ![u][c] = NoBundle]
        /\ used' = used /\ disturbed' = disturbed
    BY <1>8 DEF Shape, KeyExpires, ghosts
  <2>2. ~(s = u /\ b = c)
    BY <2>1, KeyReplaced, ConstantsTyped
  <2> QED BY <2>1, <2>2, KeyReplaced
<1>9. CASE UNCHANGED kept
  BY <1>2, <1>9 DEF kept
<1> QED BY <1>2, <1>3, <1>4, <1>5, <1>6, <1>7, <1>8, <1>9, Steps

(* As long as no request wrote what another had overtaken, the usage that    *)
(* was reported as covered by an activation is what its bundle lost, however *)
(* requests interleave. *)
THEOREM UsageIsDeducted == Spec => []UsedIsDeducted
<1>1. Init => DeductedInv
  <2> SUFFICES ASSUME Init PROVE OneKey /\ Issued /\ UsedIsDeducted
    BY ShapeInit DEF DeductedInv
  <2>1. \A s \in Subs, b \in Bundles : bundle[s][b].by = 0
    BY ConstantsTyped DEF Init, NoKeys
  <2>2. \A r \in Requests : job[r].at \notin Consuming
    BY DEF Init, Idle, Consuming
  <2>3. \A i \in 1..MaxActivations, s \in Subs, b \in Bundles : ~Copy(s, b, i)
    BY <2>1, <2>2 DEF Copy
  <2>4. OneKey /\ Issued
    BY <2>3 DEF OneKey, Issued, Init
  <2> QED BY <2>1, <2>4 DEF UsedIsDeducted
<1>2. DeductedInv /\ [Next]_vars => DeductedInv'
  BY ShapeNext, OneKeyStep, IssuedStep, DeductedStep DEF DeductedInv
<1>3. DeductedInv => UsedIsDeducted
  BY DEF DeductedInv
<1> QED BY <1>1, <1>2, <1>3, PTL DEF Spec

-----------------------------------------------------------------------------
(* Airtime.  What a purchase holds after its activation is in `bought` and   *)
(* not yet in the ledger. *)
Owed(r, s) == IF job[r].at = "record" THEN Held(r, s) ELSE 0

Unrecorded(s) == SumFunctionOnSet([r \in Requests |-> Owed(r, s)], Requests)

Amounts ==
  /\ airtime \in [Subs -> Nat] /\ added \in [Subs -> Nat] /\ gone \in [Subs -> Nat]
  /\ ledger \in [Subs -> Nat] /\ bought \in [Subs -> Nat] /\ missing \in [Subs -> Nat]

AirtimeInv ==
  /\ Shape
  /\ Amounts
  /\ \A s \in Subs :
       /\ added[s] = airtime[s] + gone[s] + ledger[s] + missing[s] + InProgress(s)
       /\ ledger[s] + Unrecorded(s) <= bought[s]
       /\ bought[s] <= ledger[s] + missing[s] + Unrecorded(s)

HeldAreNats ==
  \A r \in Requests, s \in Subs :
    Held(r, s) \in Nat /\ Owed(r, s) \in Nat /\ Owed(r, s) <= Held(r, s)

LEMMA HeldTyped == Shape => HeldAreNats
<1> SUFFICES ASSUME Shape, NEW r \in Requests, NEW s \in Subs
             PROVE  Held(r, s) \in Nat /\ Owed(r, s) \in Nat /\ Owed(r, s) <= Held(r, s)
  BY DEF HeldAreNats
<1>1. Held(r, s) \in Nat
  <2>1. job[r].at \in Buying => job[r].bundle \in Bundles
    BY DEF Shape, GoodJobs
  <2>2. job[r].at \in Buying => Cost[job[r].bundle] \in Nat
    BY <2>1, CostNat
  <2> QED BY <2>2 DEF Held, Buying
<1> QED BY <1>1 DEF Owed

LEMMA SumsTyped ==
  ASSUME Shape, NEW s \in Subs
  PROVE  InProgress(s) \in Nat /\ Unrecorded(s) \in Nat /\ Unrecorded(s) <= InProgress(s)
<1> DEFINE f == [r \in Requests |-> Held(r, s)]
           e == [r \in Requests |-> Owed(r, s)]
<1>1. \A r \in Requests : f[r] \in Nat /\ e[r] \in Nat /\ e[r] <= f[r]
  BY HeldTyped DEF HeldAreNats
<1> HIDE DEF f, e
<1>2. /\ SumFunctionOnSet(f, Requests) \in Nat
      /\ SumFunctionOnSet(e, Requests) \in Nat
      /\ SumFunctionOnSet(e, Requests) <= SumFunctionOnSet(f, Requests)
  <2>1. SumFunctionOnSet(f, Requests) \in Nat
    BY <1>1, RequestsFinite, SumNat
  <2>2. SumFunctionOnSet(e, Requests) \in Nat
    BY <1>1, RequestsFinite, SumNat
  <2>3. \A r \in Requests : e[r] \in Int /\ f[r] \in Int /\ e[r] <= f[r]
    BY <1>1
  <2>4. SumFunctionOnSet(e, Requests) <= SumFunctionOnSet(f, Requests)
    BY <2>3, RequestsFinite, SumAtMost
  <2> QED BY <2>1, <2>2, <2>4
<1> QED BY <1>2 DEF f, e, InProgress, Unrecorded

(* A step of one request changes the sums by what it holds more or less. *)
LEMMA SumsStep ==
  ASSUME Shape, Shape', NEW s \in Subs, NEW r \in Requests,
         \A q \in Requests : q # r => job'[q] = job[q]
  PROVE  /\ InProgress(s)' = InProgress(s) + Held(r, s)' - Held(r, s)
         /\ Unrecorded(s)' = Unrecorded(s) + Owed(r, s)' - Owed(r, s)
<1>1. /\ \A q \in Requests : Held(q, s) \in Int /\ Owed(q, s) \in Int
      /\ \A q \in Requests : Held(q, s)' \in Int /\ Owed(q, s)' \in Int
  <2>1. HeldAreNats /\ HeldAreNats'
    BY HeldTyped, PTL
  <2> QED BY <2>1 DEF HeldAreNats
<1>2. \A q \in Requests : q # r => Held(q, s)' = Held(q, s) /\ Owed(q, s)' = Owed(q, s)
  BY DEF Held, Owed
<1>3. PICK f : f = [q \in Requests |-> Held(q, s)]
  OBVIOUS
<1>4. PICK e : e = [q \in Requests |-> Held(q, s)']
  OBVIOUS
<1>5. SumFunctionOnSet(e, Requests) = SumFunctionOnSet(f, Requests) + e[r] - f[r]
  <2>1. /\ \A q \in Requests : f[q] \in Int /\ e[q] \in Int
        /\ \A q \in Requests : q # r => e[q] = f[q]
    BY <1>1, <1>2, <1>3, <1>4
  <2> QED BY <2>1, RequestsFinite, SumChanges
<1>6. InProgress(s)' = InProgress(s) + Held(r, s)' - Held(r, s)
  BY <1>3, <1>4, <1>5 DEF InProgress
<1>7. PICK g : g = [q \in Requests |-> Owed(q, s)]
  OBVIOUS
<1>8. PICK h : h = [q \in Requests |-> Owed(q, s)']
  OBVIOUS
<1>9. SumFunctionOnSet(h, Requests) = SumFunctionOnSet(g, Requests) + h[r] - g[r]
  <2>1. /\ \A q \in Requests : g[q] \in Int /\ h[q] \in Int
        /\ \A q \in Requests : q # r => h[q] = g[q]
    BY <1>1, <1>2, <1>7, <1>8
  <2> QED BY <2>1, RequestsFinite, SumChanges
<1>10. Unrecorded(s)' = Unrecorded(s) + Owed(r, s)' - Owed(r, s)
  BY <1>7, <1>8, <1>9 DEF Unrecorded
<1> QED BY <1>6, <1>10

(* The arithmetic of such a step *)
LEMMA BalanceKept ==
  ASSUME NEW a \in Int, NEW b \in Int, NEW g \in Int, NEW l \in Int, NEW m \in Int,
         NEW p \in Int, NEW h \in Int,
         NEW a1 \in Int, NEW b1 \in Int, NEW g1 \in Int, NEW l1 \in Int, NEW m1 \in Int,
         NEW p1 \in Int, NEW h1 \in Int,
         a = b + g + l + m + p, p1 = p + h1 - h,
         a1 - b1 - g1 - l1 - m1 - h1 = a - b - g - l - m - h
  PROVE  a1 = b1 + g1 + l1 + m1 + p1
OBVIOUS

LEMMA BoundsKept ==
  ASSUME NEW b \in Int, NEW l \in Int, NEW m \in Int, NEW p \in Int, NEW h \in Int,
         NEW b1 \in Int, NEW l1 \in Int, NEW m1 \in Int, NEW p1 \in Int, NEW h1 \in Int,
         l + p <= b, b <= l + m + p, p1 = p + h1 - h,
         b1 - l1 - h1 >= b - l - h, b1 - l1 - m1 - h1 <= b - l - m - h
  PROVE  l1 + p1 <= b1 /\ b1 <= l1 + m1 + p1
OBVIOUS

(* A step of one request keeps the accounts if it moves what it takes. *)
LEMMA Moves ==
  ASSUME AirtimeInv, Shape', Amounts', NEW r \in Requests,
         \A q \in Requests : q # r => job'[q] = job[q],
         NEW s \in Subs,
         added'[s] - airtime'[s] - gone'[s] - ledger'[s] - missing'[s] - Held(r, s)'
           = added[s] - airtime[s] - gone[s] - ledger[s] - missing[s] - Held(r, s),
         bought'[s] - ledger'[s] - Owed(r, s)' >= bought[s] - ledger[s] - Owed(r, s),
         bought'[s] - ledger'[s] - missing'[s] - Owed(r, s)'
           <= bought[s] - ledger[s] - missing[s] - Owed(r, s)
  PROVE  /\ added'[s] = airtime'[s] + gone'[s] + ledger'[s] + missing'[s] + InProgress(s)'
         /\ ledger'[s] + Unrecorded(s)' <= bought'[s]
         /\ bought'[s] <= ledger'[s] + missing'[s] + Unrecorded(s)'
<1>1. /\ InProgress(s)' = InProgress(s) + Held(r, s)' - Held(r, s)
      /\ Unrecorded(s)' = Unrecorded(s) + Owed(r, s)' - Owed(r, s)
  BY SumsStep DEF AirtimeInv
<1>2. HeldAreNats /\ HeldAreNats'
  BY HeldTyped, PTL DEF AirtimeInv
<1>3. Held(r, s) \in Nat /\ Held(r, s)' \in Nat /\ Owed(r, s) \in Nat /\ Owed(r, s)' \in Nat
  BY <1>2 DEF HeldAreNats
<1>4. InProgress(s) \in Nat /\ Unrecorded(s) \in Nat
  BY SumsTyped DEF AirtimeInv
<1>5. /\ airtime[s] \in Nat /\ added[s] \in Nat /\ gone[s] \in Nat /\ ledger[s] \in Nat
      /\ bought[s] \in Nat /\ missing[s] \in Nat
  BY DEF AirtimeInv, Amounts
<1>6. /\ airtime'[s] \in Nat /\ added'[s] \in Nat /\ gone'[s] \in Nat /\ ledger'[s] \in Nat
      /\ bought'[s] \in Nat /\ missing'[s] \in Nat
  BY DEF Amounts
<1>7. /\ added[s] = airtime[s] + gone[s] + ledger[s] + missing[s] + InProgress(s)
      /\ ledger[s] + Unrecorded(s) <= bought[s]
      /\ bought[s] <= ledger[s] + missing[s] + Unrecorded(s)
  BY DEF AirtimeInv
<1>8. InProgress(s)' \in Int /\ Unrecorded(s)' \in Int
  BY <1>1, <1>3, <1>4
<1>9. added'[s] = airtime'[s] + gone'[s] + ledger'[s] + missing'[s] + InProgress(s)'
  <2>1. added[s] = airtime[s] + gone[s] + ledger[s] + missing[s] + InProgress(s)
    BY <1>7
  <2>2. InProgress(s)' = InProgress(s) + Held(r, s)' - Held(r, s)
    BY <1>1
  <2>3. added'[s] - airtime'[s] - gone'[s] - ledger'[s] - missing'[s] - Held(r, s)'
          = added[s] - airtime[s] - gone[s] - ledger[s] - missing[s] - Held(r, s)
    OBVIOUS
  <2>4. PICK h1 \in Int, p1 \in Int : h1 = Held(r, s)' /\ p1 = InProgress(s)'
    BY <1>3, <1>8
  <2>5. PICK a1 \in Int, b1 \in Int, g1 \in Int, l1 \in Int, m1 \in Int :
          /\ a1 = added'[s] /\ b1 = airtime'[s] /\ g1 = gone'[s]
          /\ l1 = ledger'[s] /\ m1 = missing'[s]
    BY <1>6
  <2>6. PICK a \in Int, b \in Int, g \in Int, l \in Int, m \in Int :
          /\ a = added[s] /\ b = airtime[s] /\ g = gone[s]
          /\ l = ledger[s] /\ m = missing[s]
    BY <1>5
  <2>7. PICK h \in Int, p \in Int : h = Held(r, s) /\ p = InProgress(s)
    BY <1>3, <1>4
  <2>8. /\ a = b + g + l + m + p /\ p1 = p + h1 - h
        /\ a1 - b1 - g1 - l1 - m1 - h1 = a - b - g - l - m - h
    BY <2>1, <2>2, <2>3, <2>4, <2>5, <2>6, <2>7
  <2>9. a1 = b1 + g1 + l1 + m1 + p1
    BY <2>8, BalanceKept
  <2> QED BY <2>4, <2>5, <2>9
<1>10. /\ ledger'[s] + Unrecorded(s)' <= bought'[s]
       /\ bought'[s] <= ledger'[s] + missing'[s] + Unrecorded(s)'
  BY <1>1, <1>3, <1>4, <1>5, <1>6, <1>7, <1>8, BoundsKept
<1> QED BY <1>9, <1>10

(* The steps of a request that move no airtime *)
LEMMA NoneMoved ==
  ASSUME AirtimeInv, Shape', NEW r \in Requests,
         \A q \in Requests : q # r => job'[q] = job[q],
         UNCHANGED <<airtime, added, gone, ledger, bought, missing>>,
         \A s \in Subs : Held(r, s)' = Held(r, s) /\ Owed(r, s)' = Owed(r, s)
  PROVE  AirtimeInv'
<1>1. Amounts'
  BY DEF AirtimeInv, Amounts
<1>2. ASSUME NEW s \in Subs
      PROVE  /\ added'[s] = airtime'[s] + gone'[s] + ledger'[s] + missing'[s] + InProgress(s)'
             /\ ledger'[s] + Unrecorded(s)' <= bought'[s]
             /\ bought'[s] <= ledger'[s] + missing'[s] + Unrecorded(s)'
  <2>1. /\ Held(r, s)' = Held(r, s) /\ Owed(r, s)' = Owed(r, s)
    OBVIOUS
  <2>2. HeldAreNats
    BY HeldTyped DEF AirtimeInv
  <2>3. Held(r, s) \in Nat /\ Owed(r, s) \in Nat
    BY <2>2 DEF HeldAreNats
  <2>4. /\ airtime[s] \in Nat /\ added[s] \in Nat /\ gone[s] \in Nat /\ ledger[s] \in Nat
        /\ bought[s] \in Nat /\ missing[s] \in Nat
    BY DEF AirtimeInv, Amounts
  <2>5. /\ bought'[s] - ledger'[s] - Owed(r, s)' >= bought[s] - ledger[s] - Owed(r, s)
        /\ bought'[s] - ledger'[s] - missing'[s] - Owed(r, s)'
             <= bought[s] - ledger[s] - missing[s] - Owed(r, s)
    BY <2>1, <2>3, <2>4
  <2> QED BY <1>1, <2>1, <2>5, Moves
<1> QED BY <1>1, <1>2 DEF AirtimeInv

LEMMA AirtimeOfAirtime ==
  ASSUME AirtimeInv, Shape', [Next]_vars, NEW r \in Requests,
         (\E s \in Subs : AddAirtime(r, s)) \/ ArmAirtime(r)
  PROVE  AirtimeInv'
<1>1. job \in [Requests -> GoodJobs] /\ job[r] \in Jobs
  BY DEF AirtimeInv, Shape, GoodJobs
<1>2. ASSUME NEW u \in Subs, AddAirtime(r, u) PROVE AirtimeInv'
  <2>1. \A q \in Requests : q # r => job'[q] = job[q]
    BY <1>1, <1>2 DEF AddAirtime
  <2>2. job[r].at = "idle" /\ job'[r].at = "arm"
    BY <1>1, <1>2 DEF AddAirtime, Jobs
  <2>3. \A s \in Subs : Held(r, s) = 0 /\ Held(r, s)' = 0 /\ Owed(r, s) = 0 /\ Owed(r, s)' = 0
    BY <2>2 DEF Held, Owed
  <2>4. /\ airtime' = [airtime EXCEPT ![u] = @ + 1] /\ added' = [added EXCEPT ![u] = @ + 1]
        /\ UNCHANGED <<gone, ledger, bought, missing>>
    BY <1>2 DEF AddAirtime
  <2>5. Amounts'
    BY <2>4 DEF AirtimeInv, Amounts
  <2>6. ASSUME NEW s \in Subs
        PROVE  /\ added'[s] - airtime'[s] = added[s] - airtime[s]
               /\ added'[s] \in Int /\ airtime'[s] \in Int
    <3>1. airtime \in [Subs -> Nat] /\ added \in [Subs -> Nat]
      BY DEF AirtimeInv, Amounts
    <3>2. CASE s = u
      BY <2>4, <3>1, <3>2
    <3>3. CASE s # u
      BY <2>4, <3>1, <3>3
    <3> QED BY <3>2, <3>3
  <2>7. ASSUME NEW s \in Subs
        PROVE  /\ added'[s] = airtime'[s] + gone'[s] + ledger'[s] + missing'[s] + InProgress(s)'
               /\ ledger'[s] + Unrecorded(s)' <= bought'[s]
               /\ bought'[s] <= ledger'[s] + missing'[s] + Unrecorded(s)'
    <3>1. /\ airtime[s] \in Nat /\ added[s] \in Nat /\ gone[s] \in Nat /\ ledger[s] \in Nat
          /\ bought[s] \in Nat /\ missing[s] \in Nat
      BY DEF AirtimeInv, Amounts
    <3>2. added'[s] - airtime'[s] = added[s] - airtime[s] /\ added'[s] \in Int /\ airtime'[s] \in Int
      BY <2>6
    <3>3. Held(r, s) = 0 /\ Held(r, s)' = 0 /\ Owed(r, s) = 0 /\ Owed(r, s)' = 0
      BY <2>3
    <3>4. added'[s] - airtime'[s] - gone'[s] - ledger'[s] - missing'[s] - Held(r, s)'
            = added[s] - airtime[s] - gone[s] - ledger[s] - missing[s] - Held(r, s)
      BY <2>4, <3>1, <3>2, <3>3
    <3>5. /\ bought'[s] - ledger'[s] - Owed(r, s)' >= bought[s] - ledger[s] - Owed(r, s)
          /\ bought'[s] - ledger'[s] - missing'[s] - Owed(r, s)'
               <= bought[s] - ledger[s] - missing[s] - Owed(r, s)
      BY <2>4, <3>1, <3>3
    <3> QED BY <2>1, <2>5, <3>4, <3>5, Moves
  <2> QED BY <2>5, <2>7 DEF AirtimeInv
<1>3. CASE ArmAirtime(r)
  <2>1. \A q \in Requests : q # r => job'[q] = job[q]
    BY <1>1, <1>3 DEF ArmAirtime
  <2>2. job[r].at = "arm" /\ job'[r].at = "idle"
    BY <1>1, <1>3 DEF ArmAirtime, Idle
  <2>3. \A s \in Subs : Held(r, s)' = Held(r, s) /\ Owed(r, s)' = Owed(r, s)
    BY <2>2 DEF Held, Owed
  <2> QED BY <1>3, <2>1, <2>3, NoneMoved DEF ArmAirtime, ghosts
<1> QED BY <1>2, <1>3

(* A purchase takes its airtime, activates, records, or ends. *)
LEMMA AirtimeOfPay ==
  ASSUME AirtimeInv, Shape', NEW r \in Requests, Pay(r)
  PROVE  AirtimeInv'
<1> DEFINE u == job[r].payer
           c == Cost[job[r].bundle]
<1>1. job \in [Requests -> GoodJobs] /\ job[r] \in Jobs /\ job[r].at = "pay"
      /\ job[r].bundle \in Bundles
  BY DEF AirtimeInv, Shape, GoodJobs, Buying, Pay
<1>2. \A q \in Requests : q # r => job'[q] = job[q]
  BY <1>1 DEF Pay, Goto
<1>3. UNCHANGED <<added, gone, ledger, bought, missing>>
  BY DEF Pay, ghosts
<1>4. \A s \in Subs : Held(r, s) = 0 /\ Owed(r, s) = 0
  BY <1>1 DEF Held, Owed
<1>5. CASE job' = [job EXCEPT ![r] = Idle] /\ UNCHANGED airtime
  <2>1. job'[r].at = "idle"
    BY <1>1, <1>5 DEF Idle
  <2>2. \A s \in Subs : Held(r, s)' = 0 /\ Owed(r, s)' = 0
    BY <2>1 DEF Held, Owed
  <2> QED BY <1>2, <1>3, <1>4, <1>5, <2>2, NoneMoved
<1>6. CASE ~(airtime[u] < c) /\ airtime' = [airtime EXCEPT ![u] = @ - c] /\ Goto(r, "configure")
  <2>1. job'[r] = [job[r] EXCEPT !.at = "configure"]
    BY <1>1, <1>6 DEF Goto
  <2>2. job'[r].at = "configure" /\ job'[r].payer = u /\ job'[r].bundle = job[r].bundle
    BY <1>1, <2>1 DEF Jobs
  <2>3. \A s \in Subs : Held(r, s)' = (IF u = s THEN c ELSE 0) /\ Owed(r, s)' = 0
    BY <2>2 DEF Held, Owed
  <2>4. c \in Nat
    BY <1>1, CostNat
  <2> HIDE DEF u, c
  <2>5. airtime \in [Subs -> Nat]
    BY DEF AirtimeInv, Amounts
  <2>6. \A s \in Subs : airtime'[s] = airtime[s] - IF u = s THEN c ELSE 0
    BY <1>6, <2>4, <2>5
  <2>7. airtime' \in [Subs -> Nat]
    <3>1. CASE u \in Subs
      <4>1. airtime[u] - c \in Nat
        BY <1>6, <2>4, <2>5, <3>1
      <4> QED BY <1>6, <2>5, <4>1
    <3>2. CASE u \notin Subs
      BY <1>6, <2>5, <3>2
    <3> QED BY <3>1, <3>2
  <2>8. Amounts'
    BY <1>3, <2>7 DEF AirtimeInv, Amounts
  <2>9. ASSUME NEW s \in Subs
        PROVE  /\ added'[s] = airtime'[s] + gone'[s] + ledger'[s] + missing'[s] + InProgress(s)'
               /\ ledger'[s] + Unrecorded(s)' <= bought'[s]
               /\ bought'[s] <= ledger'[s] + missing'[s] + Unrecorded(s)'
    <3>1. /\ airtime[s] \in Nat /\ added[s] \in Nat /\ gone[s] \in Nat /\ ledger[s] \in Nat
          /\ bought[s] \in Nat /\ missing[s] \in Nat
      BY DEF AirtimeInv, Amounts
    <3>2. PICK d \in Nat : d = IF u = s THEN c ELSE 0
      BY <2>4
    <3>3. airtime'[s] = airtime[s] - d
      BY <2>6, <3>2
    <3>4. Held(r, s)' = d /\ Owed(r, s)' = 0 /\ Held(r, s) = 0 /\ Owed(r, s) = 0
      BY <1>4, <2>3, <3>2
    <3>5. added'[s] - airtime'[s] - gone'[s] - ledger'[s] - missing'[s] - Held(r, s)'
            = added[s] - airtime[s] - gone[s] - ledger[s] - missing[s] - Held(r, s)
      BY <1>3, <3>1, <3>3, <3>4
    <3>6. /\ bought'[s] - ledger'[s] - Owed(r, s)' >= bought[s] - ledger[s] - Owed(r, s)
          /\ bought'[s] - ledger'[s] - missing'[s] - Owed(r, s)'
               <= bought[s] - ledger[s] - missing[s] - Owed(r, s)
      BY <1>3, <3>1, <3>4
    <3> QED BY <1>2, <2>8, <3>5, <3>6, Moves
  <2> QED BY <2>8, <2>9 DEF AirtimeInv
<1> QED BY <1>5, <1>6 DEF Pay

(* What an activation paid for adds to the account of its payer *)
LEMMA PaidTyped ==
  ASSUME Shape, NEW r \in Requests, job[r].at \in Buying
  PROVE  /\ Paid(r) \in Nat
         /\ job[r].payer \in Subs => Paid(r) = Cost[job[r].bundle]
<1>1. job[r].bundle \in Bundles
  BY DEF Shape, GoodJobs
<1> QED BY <1>1, CostNat, NobodyElse DEF Paid

LEMMA PaidAdded ==
  ASSUME NEW f \in [Subs -> Nat], NEW p, NEW n \in Nat
  PROVE  /\ [q \in Subs |-> f[q] + IF q = p THEN n ELSE 0] \in [Subs -> Nat]
         /\ \A s \in Subs : [q \in Subs |-> f[q] + IF q = p THEN n ELSE 0][s]
                              = f[s] + IF s = p THEN n ELSE 0
OBVIOUS

LEMMA AirtimeOfActivate ==
  ASSUME AirtimeInv, Shape', NEW r \in Requests, Activate(r)
  PROVE  AirtimeInv'
<1> DEFINE u == job[r].payer
           c == Cost[job[r].bundle]
<1>1. job \in [Requests -> GoodJobs] /\ job[r] \in Jobs /\ job[r].at = "activate"
      /\ job[r].bundle \in Bundles
  BY DEF AirtimeInv, Shape, GoodJobs, Buying, Activate, ActivateWith
<1>2. \A q \in Requests : q # r => job'[q] = job[q]
  BY <1>1 DEF Activate, ActivateWith, Goto
<1>3. UNCHANGED <<airtime, added, gone, ledger, missing>>
  BY DEF Activate, ActivateWith
<1>4. job'[r] = [job[r] EXCEPT !.at = "record"]
  BY <1>1 DEF Activate, ActivateWith, Goto
<1>5. job'[r].at = "record" /\ job'[r].payer = u /\ job'[r].bundle = job[r].bundle
  BY <1>1, <1>4 DEF Jobs
<1>6. \A s \in Subs : /\ Held(r, s) = (IF u = s THEN c ELSE 0) /\ Owed(r, s) = 0
                      /\ Held(r, s)' = Held(r, s) /\ Owed(r, s)' = Held(r, s)
  BY <1>1, <1>5 DEF Held, Owed
<1>7. Paid(r) \in Nat /\ (u \in Subs => Paid(r) = c)
  BY <1>1, PaidTyped DEF AirtimeInv, Buying
<1>8. bought \in [Subs -> Nat]
  BY DEF AirtimeInv, Amounts
<1>9. bought' = [p \in Subs |-> bought[p] + IF p = u THEN Paid(r) ELSE 0]
  BY DEF Activate, ActivateWith
<1> HIDE DEF u, c
<1>10. bought' \in [Subs -> Nat]
       /\ \A s \in Subs : bought'[s] = bought[s] + IF s = u THEN Paid(r) ELSE 0
  BY <1>7, <1>8, <1>9, PaidAdded
<1>11. Amounts'
  BY <1>3, <1>10 DEF AirtimeInv, Amounts
<1>12. ASSUME NEW s \in Subs
       PROVE  /\ added'[s] = airtime'[s] + gone'[s] + ledger'[s] + missing'[s] + InProgress(s)'
              /\ ledger'[s] + Unrecorded(s)' <= bought'[s]
              /\ bought'[s] <= ledger'[s] + missing'[s] + Unrecorded(s)'
  <2>1. /\ airtime[s] \in Nat /\ added[s] \in Nat /\ gone[s] \in Nat /\ ledger[s] \in Nat
        /\ bought[s] \in Nat /\ missing[s] \in Nat
    BY DEF AirtimeInv, Amounts
  <2>2. PICK d \in Nat : d = IF s = u THEN Paid(r) ELSE 0
    BY <1>7
  <2>3. bought'[s] = bought[s] + d
    BY <1>10, <2>2
  <2>4. Held(r, s) = d /\ Owed(r, s) = 0 /\ Held(r, s)' = d /\ Owed(r, s)' = d
    BY <1>6, <1>7, <2>2
  <2>5. added'[s] - airtime'[s] - gone'[s] - ledger'[s] - missing'[s] - Held(r, s)'
          = added[s] - airtime[s] - gone[s] - ledger[s] - missing[s] - Held(r, s)
    BY <1>3, <2>4
  <2>6. /\ bought'[s] - ledger'[s] - Owed(r, s)' >= bought[s] - ledger[s] - Owed(r, s)
        /\ bought'[s] - ledger'[s] - missing'[s] - Owed(r, s)'
             <= bought[s] - ledger[s] - missing[s] - Owed(r, s)
    BY <1>3, <2>1, <2>3, <2>4
  <2> QED BY <1>2, <1>11, <2>5, <2>6, Moves
<1> QED BY <1>11, <1>12 DEF AirtimeInv

LEMMA AirtimeOfRecord ==
  ASSUME AirtimeInv, Shape', NEW r \in Requests, Record(r)
  PROVE  AirtimeInv'
<1> DEFINE u == job[r].payer
           c == Cost[job[r].bundle]
<1>1. job \in [Requests -> GoodJobs] /\ job[r] \in Jobs /\ job[r].at = "record"
      /\ job[r].bundle \in Bundles
  BY DEF AirtimeInv, Shape, GoodJobs, Buying, Record
<1>2. (\A q \in Requests : q # r => job'[q] = job[q]) /\ job'[r].at = "idle"
  BY <1>1 DEF Record, Idle
<1>3. UNCHANGED <<airtime, added, gone, bought, missing>>
  BY DEF Record, redis, ghosts
<1>4. \A s \in Subs : /\ Held(r, s) = (IF u = s THEN c ELSE 0) /\ Owed(r, s) = Held(r, s)
                      /\ Held(r, s)' = 0 /\ Owed(r, s)' = 0
  BY <1>1, <1>2 DEF Held, Owed
<1>5. Paid(r) \in Nat /\ (u \in Subs => Paid(r) = c)
  BY <1>1, PaidTyped DEF AirtimeInv, Buying
<1>6. ledger \in [Subs -> Nat]
  BY DEF AirtimeInv, Amounts
<1>7. ledger' = [p \in Subs |-> ledger[p] + IF p = u THEN Paid(r) ELSE 0]
  BY DEF Record
<1> HIDE DEF u, c
<1>8. ledger' \in [Subs -> Nat]
      /\ \A s \in Subs : ledger'[s] = ledger[s] + IF s = u THEN Paid(r) ELSE 0
  BY <1>5, <1>6, <1>7, PaidAdded
<1>9. Amounts'
  BY <1>3, <1>8 DEF AirtimeInv, Amounts
<1>10. ASSUME NEW s \in Subs
       PROVE  /\ added'[s] = airtime'[s] + gone'[s] + ledger'[s] + missing'[s] + InProgress(s)'
              /\ ledger'[s] + Unrecorded(s)' <= bought'[s]
              /\ bought'[s] <= ledger'[s] + missing'[s] + Unrecorded(s)'
  <2>1. /\ airtime[s] \in Nat /\ added[s] \in Nat /\ gone[s] \in Nat /\ ledger[s] \in Nat
        /\ bought[s] \in Nat /\ missing[s] \in Nat
    BY DEF AirtimeInv, Amounts
  <2>2. PICK d \in Nat : d = IF s = u THEN Paid(r) ELSE 0
    BY <1>5
  <2>3. ledger'[s] = ledger[s] + d
    BY <1>8, <2>2
  <2>4. Held(r, s) = d /\ Owed(r, s) = d /\ Held(r, s)' = 0 /\ Owed(r, s)' = 0
    BY <1>4, <1>5, <2>2
  <2>5. added'[s] - airtime'[s] - gone'[s] - ledger'[s] - missing'[s] - Held(r, s)'
          = added[s] - airtime[s] - gone[s] - ledger[s] - missing[s] - Held(r, s)
    BY <1>3, <2>1, <2>3, <2>4
  <2>6. /\ bought'[s] - ledger'[s] - Owed(r, s)' >= bought[s] - ledger[s] - Owed(r, s)
        /\ bought'[s] - ledger'[s] - missing'[s] - Owed(r, s)'
             <= bought[s] - ledger[s] - missing[s] - Owed(r, s)
    BY <1>3, <2>1, <2>3, <2>4
  <2> QED BY <1>2, <1>9, <2>5, <2>6, Moves
<1> QED BY <1>9, <1>10 DEF AirtimeInv

(* A purchase that ends without a record leaves what it took missing, and if *)
(* it had activated, the bundle that was bought with it. *)
LEMMA AirtimeOfGiveUp ==
  ASSUME AirtimeInv, Shape', NEW r \in Requests, GiveUp(r)
  PROVE  AirtimeInv'
<1>1. job \in [Requests -> GoodJobs]
  BY DEF AirtimeInv, Shape
<1>2. (\A q \in Requests : q # r => job'[q] = job[q]) /\ job'[r].at = "idle"
  BY <1>1 DEF GiveUp, Idle
<1>3. UNCHANGED <<airtime, added, gone, ledger, bought>>
  BY DEF GiveUp, redis
<1>4. \A s \in Subs : Held(r, s)' = 0 /\ Owed(r, s)' = 0
  BY <1>2 DEF Held, Owed
<1>5. \A s \in Subs : Held(r, s) \in Nat /\ Owed(r, s) \in Nat /\ Owed(r, s) <= Held(r, s)
  BY HeldTyped DEF AirtimeInv, HeldAreNats
<1>6. missing' = [s \in Subs |-> missing[s] + Held(r, s)] /\ missing \in [Subs -> Nat]
  BY DEF GiveUp, AirtimeInv, Amounts
<1>7. missing' \in [Subs -> Nat] /\ \A s \in Subs : missing'[s] = missing[s] + Held(r, s)
  BY <1>5, <1>6
<1>8. Amounts'
  BY <1>3, <1>7 DEF AirtimeInv, Amounts
<1>9. ASSUME NEW s \in Subs
      PROVE  /\ added'[s] = airtime'[s] + gone'[s] + ledger'[s] + missing'[s] + InProgress(s)'
             /\ ledger'[s] + Unrecorded(s)' <= bought'[s]
             /\ bought'[s] <= ledger'[s] + missing'[s] + Unrecorded(s)'
  <2>1. /\ airtime[s] \in Nat /\ added[s] \in Nat /\ gone[s] \in Nat /\ ledger[s] \in Nat
        /\ bought[s] \in Nat /\ missing[s] \in Nat
    BY DEF AirtimeInv, Amounts
  <2>2. PICK d \in Nat, o \in Nat : d = Held(r, s) /\ o = Owed(r, s) /\ o <= d
    BY <1>5
  <2>3. missing'[s] = missing[s] + d /\ Held(r, s)' = 0 /\ Owed(r, s)' = 0
    BY <1>4, <1>7, <2>2
  <2>4. added'[s] - airtime'[s] - gone'[s] - ledger'[s] - missing'[s] - Held(r, s)'
          = added[s] - airtime[s] - gone[s] - ledger[s] - missing[s] - Held(r, s)
    BY <1>3, <2>1, <2>2, <2>3
  <2>5. /\ bought'[s] - ledger'[s] - Owed(r, s)' >= bought[s] - ledger[s] - Owed(r, s)
        /\ bought'[s] - ledger'[s] - missing'[s] - Owed(r, s)'
             <= bought[s] - ledger[s] - missing[s] - Owed(r, s)
    BY <1>3, <2>1, <2>2, <2>3
  <2> QED BY <1>2, <1>8, <2>4, <2>5, Moves
<1> QED BY <1>8, <1>9 DEF AirtimeInv

(* The other steps of a request move no airtime. *)
LEMMA AirtimeOfOthers ==
  ASSUME AirtimeInv, Shape', NEW r \in Requests, Serve(r),
         \/ \E p, s \in Subs, b \in Bundles : Purchase(r, p, s, b)
         \/ \E s \in Subs, b \in Bundles : ActivateUnpaid(r, s, b)
         \/ Configure(r) \/ CheckInactive(r)
         \/ \E s \in Subs, t \in Types : Consume(r, s, t)
         \/ Fetch(r) \/ (\E b \in Bundles : Choose(r, b)) \/ Untrack(r) \/ Write(r)
  PROVE  AirtimeInv'
<1>1. job \in [Requests -> GoodJobs] /\ job[r] \in Jobs
  BY DEF AirtimeInv, Shape, GoodJobs
<1>2. \A q \in Requests : q # r => job'[q] = job[q]
  BY OthersKept DEF AirtimeInv
<1>3. ASSUME UNCHANGED <<airtime, added, gone, ledger, bought, missing>>,
             job[r].at \notin Buying \ {"pay"} \/ job[r].payer \notin Subs,
             job'[r].at \notin Buying \ {"pay"} \/ job'[r].payer \notin Subs
      PROVE  AirtimeInv'
  <2>1. \A s \in Subs : Held(r, s) = 0 /\ Held(r, s)' = 0 /\ Owed(r, s) = 0 /\ Owed(r, s)' = 0
    BY <1>3 DEF Held, Owed, Buying
  <2> QED BY <1>2, <1>3, <2>1, NoneMoved
<1>4. ASSUME NEW p \in Subs, NEW s \in Subs, NEW b \in Bundles, Purchase(r, p, s, b)
      PROVE  AirtimeInv'
  <2>1. job[r].at = "idle" /\ job'[r].at = "pay"
    BY <1>1, <1>4 DEF Purchase, Idle
  <2> QED BY <1>3, <1>4, <2>1 DEF Purchase, ghosts, redis, Buying
<1>5. ASSUME NEW s \in Subs, NEW b \in Bundles, ActivateUnpaid(r, s, b)
      PROVE  AirtimeInv'
  <2>1. job[r].at = "idle" /\ job'[r].payer = Nobody
    BY <1>1, <1>5 DEF ActivateUnpaid, Idle
  <2> QED BY <1>3, <1>5, <2>1, NobodyElse DEF ActivateUnpaid, ghosts, redis, Buying
<1>6. CASE Configure(r) \/ CheckInactive(r)
  <2>1. PICK stage \in {"check", "activate"} : Goto(r, stage)
    BY <1>6 DEF Configure, CheckInactive
  <2>2. job[r].at \in {"configure", "check"}
    BY <1>6 DEF Configure, CheckInactive
  <2>3. job'[r] = [job[r] EXCEPT !.at = stage]
    BY <1>1, <2>1 DEF Goto
  <2>4. job'[r].at = stage /\ job'[r].payer = job[r].payer /\ job'[r].bundle = job[r].bundle
    BY <1>1, <2>3 DEF Jobs
  <2>5. \A s \in Subs : Held(r, s)' = Held(r, s) /\ Owed(r, s)' = Owed(r, s)
    BY <2>2, <2>4 DEF Held, Owed
  <2>6. UNCHANGED <<airtime, added, gone, ledger, bought, missing>>
    BY <1>6 DEF Configure, CheckInactive, redis, ghosts
  <2> QED BY <1>2, <2>5, <2>6, NoneMoved
<1>7. ASSUME NEW s \in Subs, NEW t \in Types, Consume(r, s, t) PROVE AirtimeInv'
  <2>1. job[r].at = "idle" /\ job'[r].at = "fetch"
    BY <1>1, <1>7 DEF Consume, Idle
  <2> QED BY <1>3, <1>7, <2>1 DEF Consume, ghosts, redis, Buying
<1>8. CASE Fetch(r) \/ Untrack(r) \/ Write(r)
  <2>1. job[r].at \in Consuming /\ job'[r].at \in {"consume", "idle"}
    <3>1. CASE Fetch(r)
      BY <1>1, <3>1 DEF Fetch, Jobs, Consuming
    <3>2. CASE Untrack(r)
      BY <1>1, <3>2 DEF Untrack, Jobs, Consuming
    <3>3. CASE Write(r)
      BY <1>1, <3>3 DEF Write, Idle, Consuming
    <3> QED BY <1>8, <3>1, <3>2, <3>3
  <2>2. UNCHANGED <<airtime, added, gone, ledger, bought, missing>>
    BY <1>8 DEF Fetch, Untrack, Write, redis, ghosts
  <2> QED BY <1>3, <2>1, <2>2 DEF Consuming, Buying
<1>9. ASSUME NEW b \in Bundles, Choose(r, b) PROVE AirtimeInv'
  <2>1. job'[r].at \in {"consume", "untrack", "write"}
    <3>1. job[r].at = "consume"
      BY <1>9 DEF Choose
    <3>2. CASE Expired(r, b)
      BY <1>1, <1>9, <3>1, <3>2 DEF Choose, Jobs
    <3>3. CASE ~Expired(r, b) /\ Covers(r, b)
      BY <1>1, <1>9, <3>1, <3>3 DEF Choose, Jobs
    <3>4. CASE ~Expired(r, b) /\ ~Covers(r, b)
      BY <1>1, <1>9, <3>1, <3>4 DEF Choose, Jobs
    <3> QED BY <3>2, <3>3, <3>4
  <2>2. job[r].at = "consume"
    BY <1>9 DEF Choose
  <2> QED BY <1>3, <1>9, <2>1, <2>2 DEF Choose, redis, ghosts, Buying
<1> QED BY <1>4, <1>5, <1>6, <1>7, <1>8, <1>9

(* Steps that leave the requests alone leave what they hold. *)
LEMMA SumsKept ==
  ASSUME job' = job, NEW s
  PROVE  InProgress(s)' = InProgress(s) /\ Unrecorded(s)' = Unrecorded(s)
BY DEF InProgress, Unrecorded, Held, Owed

LEMMA AirtimeOfEnvironment ==
  ASSUME AirtimeInv, Shape', Environment \/ UNCHANGED vars
  PROVE  AirtimeInv'
<1>1. job' = job
  BY DEF Environment, Talk, AirtimeLapses, Passes, KeyExpires, SetOnSale, vars
<1>2. \A s \in Subs : InProgress(s)' = InProgress(s) /\ Unrecorded(s)' = Unrecorded(s)
  BY <1>1, SumsKept
<1>3. \A s \in Subs : InProgress(s) \in Nat /\ Unrecorded(s) \in Nat
  BY SumsTyped DEF AirtimeInv
<1>4. CASE UNCHANGED <<airtime, added, gone, ledger, bought, missing>>
  BY <1>2, <1>4 DEF AirtimeInv, Amounts
<1>5. ASSUME NEW u \in Subs, Talk(u) \/ AirtimeLapses(u) PROVE AirtimeInv'
  <2>0. airtime \in [Subs -> Nat] /\ gone \in [Subs -> Nat]
    BY DEF AirtimeInv, Amounts
  <2>1. PICK d \in Nat : /\ airtime[u] - d \in Nat
                         /\ airtime' = [airtime EXCEPT ![u] = @ - d]
                         /\ gone' = [gone EXCEPT ![u] = @ + d]
    <3>1. CASE Talk(u)
      <4>1. airtime[u] - 1 \in Nat
        BY <2>0, <3>1 DEF Talk
      <4> QED BY <3>1, <4>1 DEF Talk
    <3>2. CASE AirtimeLapses(u)
      <4>1. PICK d \in Nat : d = airtime[u]
        BY <2>0
      <4>2. airtime[u] - d = 0 /\ airtime[u] - d \in Nat
        BY <4>1
      <4>3. airtime' = [airtime EXCEPT ![u] = @ - d]
        BY <3>2, <4>2 DEF AirtimeLapses
      <4>4. gone' = [gone EXCEPT ![u] = @ + d]
        BY <3>2, <4>1 DEF AirtimeLapses
      <4> QED BY <4>2, <4>3, <4>4
    <3> QED BY <1>5, <3>1, <3>2
  <2>2. UNCHANGED <<added, ledger, bought, missing>>
    BY <1>5 DEF Talk, AirtimeLapses
  <2>3. airtime' \in [Subs -> Nat] /\ gone' \in [Subs -> Nat]
    BY <2>0, <2>1
  <2>4. Amounts'
    BY <2>2, <2>3 DEF AirtimeInv, Amounts
  <2>5. \A s \in Subs : airtime'[s] + gone'[s] = airtime[s] + gone[s]
    <3> SUFFICES ASSUME NEW s \in Subs PROVE airtime'[s] + gone'[s] = airtime[s] + gone[s]
      OBVIOUS
    <3>1. CASE s = u
      <4>1. airtime'[s] = airtime[s] - d /\ gone'[s] = gone[s] + d
        BY <2>0, <2>1, <3>1
      <4> QED BY <2>0, <2>1, <4>1
    <3>2. CASE s # u
      BY <2>0, <2>1, <3>2
    <3> QED BY <3>1, <3>2
  <2>6. ASSUME NEW s \in Subs
        PROVE  added'[s] = airtime'[s] + gone'[s] + ledger'[s] + missing'[s] + InProgress(s)'
    <3>1. /\ airtime'[s] \in Nat /\ gone'[s] \in Nat /\ airtime[s] \in Nat /\ gone[s] \in Nat
          /\ ledger[s] \in Nat /\ missing[s] \in Nat /\ InProgress(s) \in Nat
      BY <1>3, <2>3 DEF AirtimeInv, Amounts
    <3>2. added[s] = airtime[s] + gone[s] + ledger[s] + missing[s] + InProgress(s)
      BY DEF AirtimeInv
    <3>3. InProgress(s)' = InProgress(s)
      BY <1>2
    <3> QED BY <2>2, <2>5, <3>1, <3>2, <3>3
  <2> QED BY <1>2, <2>2, <2>4, <2>6 DEF AirtimeInv
<1>6. ASSUME \/ \E i \in 1..activations : Passes(i)
             \/ \E s \in Subs, b \in Bundles : KeyExpires(s, b)
             \/ \E b \in Bundles : SetOnSale(b)
             \/ UNCHANGED vars
      PROVE  UNCHANGED <<airtime, added, gone, ledger, bought, missing>>
  BY <1>6 DEF Passes, KeyExpires, SetOnSale, vars, redis, ghosts
<1> QED BY <1>4, <1>5, <1>6 DEF Environment

(* Purchases, calls and expiry account for all airtime that was added, to    *)
(* the unit, whatever interrupts them; nothing is recorded as paid without a *)
(* bundle, and no bundle is bought that was not paid for. *)
THEOREM AirtimeIsAccounted == Spec => []AirtimeAccounts
<1>1. Init => AirtimeInv
  <2> SUFFICES ASSUME Init PROVE AirtimeInv
    OBVIOUS
  <2>1. Amounts
    BY DEF Init, Amounts
  <2>2. \A r \in Requests : job[r].at = "idle"
    BY DEF Init, Idle
  <2>3. ASSUME NEW s \in Subs PROVE InProgress(s) = 0 /\ Unrecorded(s) = 0
    <3>1. PICK f : f = [r \in Requests |-> Held(r, s)]
      OBVIOUS
    <3>2. PICK e : e = [r \in Requests |-> Owed(r, s)]
      OBVIOUS
    <3>3. \A r \in Requests : f[r] = 0 /\ e[r] = 0
      BY <2>2, <3>1, <3>2 DEF Held, Owed
    <3>4. SumFunctionOnSet(f, Requests) = 0 /\ SumFunctionOnSet(e, Requests) = 0
      BY <3>3, RequestsFinite, SumZero
    <3> QED BY <3>1, <3>2, <3>4 DEF InProgress, Unrecorded
  <2> QED BY <2>1, <2>3, ShapeInit DEF AirtimeInv, Init
<1>2. AirtimeInv /\ [Next]_vars => AirtimeInv'
  <2> SUFFICES ASSUME AirtimeInv, [Next]_vars PROVE AirtimeInv'
    OBVIOUS
  <2>1. Shape'
    BY ShapeNext DEF AirtimeInv
  <2>2. CASE Environment \/ UNCHANGED vars
    BY <2>1, <2>2, AirtimeOfEnvironment
  <2>3. ASSUME NEW r \in Requests, Serve(r) PROVE AirtimeInv'
    BY <2>1, <2>3, AirtimeOfAirtime, AirtimeOfPay, AirtimeOfActivate, AirtimeOfRecord,
       AirtimeOfGiveUp, AirtimeOfOthers DEF Serve, Airtime
  <2> QED BY <2>2, <2>3 DEF Next
<1>3. AirtimeInv => AirtimeAccounts
  <2> SUFFICES ASSUME AirtimeInv, NEW s \in Subs
               PROVE  /\ added[s] = airtime[s] + gone[s] + ledger[s] + missing[s] + InProgress(s)
                      /\ ledger[s] <= bought[s]
                      /\ bought[s] <= ledger[s] + missing[s] + InProgress(s)
    BY DEF AirtimeAccounts
  <2>1. InProgress(s) \in Nat /\ Unrecorded(s) \in Nat /\ Unrecorded(s) <= InProgress(s)
    BY SumsTyped DEF AirtimeInv
  <2>2. ledger[s] \in Nat /\ bought[s] \in Nat /\ missing[s] \in Nat
    BY DEF AirtimeInv, Amounts
  <2>3. /\ added[s] = airtime[s] + gone[s] + ledger[s] + missing[s] + InProgress(s)
        /\ ledger[s] + Unrecorded(s) <= bought[s]
        /\ bought[s] <= ledger[s] + missing[s] + Unrecorded(s)
    BY DEF AirtimeInv
  <2> QED BY <2>1, <2>2, <2>3
<1> QED BY <1>1, <1>2, <1>3, PTL DEF Spec

=============================================================================
