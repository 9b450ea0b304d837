--------------------------- MODULE LearningProofs ---------------------------
(***************************************************************************)
(* Machine-checked proofs about objects made of several and used by        *)
(* several: the stages of a pipeline and of an evaluation, the arms of     *)
(* Ucb1, the handles of the C interface, the ledger of a replay with what  *)
(* its report counts, what restoring a saved object checks, and what the   *)
(* models and transformers keep and make of the samples they accepted. For *)
(* every stream, every arithmetic of the format and every number of calls. *)
(***************************************************************************)
EXTENDS Learning, ValueLemmas

-----------------------------------------------------------------------------
(* The entries of a log that are under certain names.                      *)

LEMMA EntriesAre ==
    ASSUME NEW S, NEW l \in Seq(S), NEW H, NEW g, Picked(g, H, l)
    PROVE  EntriesOf(H, l) = g[Len(l)]
<1> DEFINE f == CHOOSE h : Picked(h, H, l)
<1>1. EntriesOf(H, l) = f[Len(l)]
  BY DEF EntriesOf, Picked
<1>2. Picked(f, H, l)
  OBVIOUS
<1> HIDE DEF f
<1>3. Len(l) \in 0..Len(l) /\ Len(l) <= Len(l)
  OBVIOUS
<1>4. f[Len(l)] = g[Len(l)]
  BY <1>2, <1>3, PickedAgree
<1> QED
  BY <1>1, <1>4

LEMMA EntriesType ==
    ASSUME NEW S, NEW l \in Seq(S), NEW H
    PROVE  EntriesOf(H, l) \in Seq(S)
<1>1. PICK f \in [0..Len(l) -> Seq(S)] : Picked(f, H, l)
  BY PickedExists
<1>2. Len(l) \in 0..Len(l)
  OBVIOUS
<1>3. EntriesOf(H, l) = f[Len(l)]
  BY <1>1, EntriesAre
<1> QED
  BY <1>1, <1>2, <1>3

LEMMA EntriesOfNothing ==
    ASSUME NEW H
    PROVE  EntriesOf(H, <<>>) = <<>>
<1> DEFINE S == {0}
<1>1. <<>> \in Seq(S) /\ Len(<<>>) = 0 /\ 0 \in 0..0
  OBVIOUS
<1> DEFINE l == <<>>
<1>2. l \in Seq(S) /\ Len(l) = 0
  BY <1>1
<1> HIDE DEF l, S
<1>3. PICK f \in [0..Len(l) -> Seq(S)] : Picked(f, H, l)
  BY <1>2, PickedExists
<1>4. EntriesOf(H, l) = f[0]
  BY <1>2, <1>3, EntriesAre
<1>5. f[0] = <<>>
  BY <1>1, <1>2, <1>3 DEF Picked
<1> QED
  BY <1>4, <1>5 DEF l

\* A new entry is among those of the handles it names.
LEMMA EntriesAppend ==
    ASSUME NEW S, NEW l \in Seq(S), NEW e \in S, NEW H
    PROVE  EntriesOf(H, Append(l, e)) =
              IF e[1] \in H THEN Append(EntriesOf(H, l), e) ELSE EntriesOf(H, l)
<1> DEFINE m == Append(l, e)
<1>1. /\ m \in Seq(S) /\ Len(l) \in Nat /\ Len(m) = Len(l) + 1 /\ m[Len(l) + 1] = e
      /\ \A i \in 1..Len(l) : m[i] = l[i]
  OBVIOUS
<1> HIDE DEF m
<1>2. PICK f \in [0..Len(l) -> Seq(S)] : Picked(f, H, l)
  BY PickedExists
<1>3. PICK g \in [0..Len(m) -> Seq(S)] : Picked(g, H, m)
  BY <1>1, PickedExists
<1>4. EntriesOf(H, l) = f[Len(l)] /\ EntriesOf(H, m) = g[Len(m)]
  BY <1>1, <1>2, <1>3, EntriesAre
<1>5. f[Len(l)] = g[Len(l)]
  <2>1. Len(l) <= Len(m) /\ Len(l) \in 0..Len(l)
    BY <1>1
  <2>2. Picked(f, H, l) /\ Picked(g, H, m)
    BY <1>2, <1>3
  <2>3. \A i \in 1..Len(l) : m[i] = l[i]
    BY <1>1
  <2>4. Len(l) \in Nat /\ Len(m) \in Nat
    BY <1>1
  <2>5. \A k \in 0..Len(l) : f[k] = g[k]
    BY <2>1, <2>2, <2>3, <2>4, PickedAgree
  <2> QED
    BY <2>1, <2>5
<1>6. g[Len(l) + 1] = IF m[Len(l) + 1][1] \in H THEN Append(g[Len(l)], m[Len(l) + 1]) ELSE g[Len(l)]
  <2>1. Len(l) + 1 \in 0..Len(m) /\ Len(l) + 1 # 0 /\ (Len(l) + 1) - 1 = Len(l)
    BY <1>1
  <2> QED
    BY <1>3, <2>1 DEF Picked
<1>7. EntriesOf(H, m) = IF e[1] \in H THEN Append(f[Len(l)], e) ELSE f[Len(l)]
  BY <1>1, <1>4, <1>5, <1>6
<1> QED
  BY <1>4, <1>7 DEF m

\* How many entries are under a name.
CallsOf(h, l) == Len(EntriesOf({h}, l))

LEMMA CallsAppend ==
    ASSUME NEW S, NEW l \in Seq(S), NEW e \in S, NEW h
    PROVE  /\ CallsOf(h, l) \in Nat
           /\ CallsOf(h, Append(l, e)) = IF e[1] = h THEN CallsOf(h, l) + 1 ELSE CallsOf(h, l)
<1>1. EntriesOf({h}, l) \in Seq(S)
  BY EntriesType
<1>2. EntriesOf({h}, Append(l, e)) =
         IF e[1] \in {h} THEN Append(EntriesOf({h}, l), e) ELSE EntriesOf({h}, l)
  BY EntriesAppend
<1> DEFINE w == EntriesOf({h}, l)
<1> DEFINE v == EntriesOf({h}, Append(l, e))
<1> HIDE DEF w, v
<1>3. w \in Seq(S) /\ v = IF e[1] = h THEN Append(w, e) ELSE w
  BY <1>1, <1>2 DEF w, v
<1>4. Len(w) \in Nat /\ Len(v) = IF e[1] = h THEN Len(w) + 1 ELSE Len(w)
  BY <1>3
<1> QED
  BY <1>4 DEF CallsOf, w, v

LEMMA CallsOfNothing ==
    ASSUME NEW h
    PROVE  CallsOf(h, <<>>) = 0
BY EntriesOfNothing DEF CallsOf

LEMMA CallsConcat ==
    ASSUME NEW S, NEW l \in Seq(S), NEW m \in Seq(S), NEW h
    PROVE  CallsOf(h, l \o m) = CallsOf(h, l) + CallsOf(h, m)
<1> DEFINE Adds(s) == CallsOf(h, l \o s) = CallsOf(h, l) + CallsOf(h, s)
<1> DEFINE T == {s \in Seq(S) : Adds(s)}
<1>0. CallsOf(h, <<>>) = 0 /\ \A s \in Seq(S) : CallsOf(h, s) \in Nat
  <2>1. ASSUME NEW s \in Seq(S)
        PROVE  CallsOf(h, s) \in Nat
    <3>1. EntriesOf({h}, s) \in Seq(S)
      BY EntriesType
    <3> QED
      BY <3>1 DEF CallsOf
  <2>2. CallsOf(h, <<>>) = 0
    BY CallsOfNothing
  <2> QED
    BY <2>1, <2>2, Zenon
<1>1. <<>> \in T
  <2>1. l \o <<>> = l
    OBVIOUS
  <2>2. CallsOf(h, l) \in Nat
    BY <1>0
  <2> QED
    BY <1>0, <2>1, <2>2
<1>2. ASSUME NEW s \in T, NEW e \in S
      PROVE  Append(s, e) \in T
  <2>1. s \in Seq(S) /\ Adds(s)
    OBVIOUS
  <2>2. l \o s \in Seq(S) /\ Append(s, e) \in Seq(S) /\ l \o Append(s, e) = Append(l \o s, e)
    BY <2>1
  <2> DEFINE n == CallsOf(h, s)
  <2> DEFINE k == CallsOf(h, l \o s)
  <2> DEFINE j == CallsOf(h, l)
  <2>3. n \in Nat /\ k \in Nat /\ j \in Nat
    BY <1>0, <2>1, <2>2
  <2>4. CallsOf(h, Append(s, e)) = IF e[1] = h THEN n + 1 ELSE n
    BY <2>1, CallsAppend
  <2>5. CallsOf(h, Append(l \o s, e)) = IF e[1] = h THEN k + 1 ELSE k
    BY <2>2, CallsAppend
  <2>6. k = j + n
    BY <2>1
  <2>7. CallsOf(h, l \o Append(s, e)) = IF e[1] = h THEN k + 1 ELSE k
    BY <2>2, <2>5, Zenon
  <2> HIDE DEF n, k
  <2>8. CallsOf(h, l \o Append(s, e)) = j + CallsOf(h, Append(s, e))
    BY <2>3, <2>4, <2>6, <2>7
  <2> QED
    BY <2>2, <2>8
<1>3. T \in SUBSET Seq(S)
  OBVIOUS
<1>4. T = Seq(S)
  <2> HIDE DEF T
  <2> QED
    BY <1>1, <1>2, <1>3, SequenceInduction
<1> QED
  BY <1>4

\* A log in which every entry is under one name.
LEMMA CallsNamed ==
    ASSUME NEW S, NEW c, \A e \in S : e[1] = c, NEW l \in Seq(S), NEW h
    PROVE  CallsOf(h, l) = IF h = c THEN Len(l) ELSE 0
<1> DEFINE T == {s \in Seq(S) : CallsOf(h, s) = IF h = c THEN Len(s) ELSE 0}
<1>1. <<>> \in T
  BY CallsOfNothing
<1>2. ASSUME NEW s \in T, NEW e \in S
      PROVE  Append(s, e) \in T
  <2>1. s \in Seq(S) /\ CallsOf(h, s) = (IF h = c THEN Len(s) ELSE 0) /\ e[1] = c
    OBVIOUS
  <2>2. CallsOf(h, Append(s, e)) = IF e[1] = h THEN CallsOf(h, s) + 1 ELSE CallsOf(h, s)
    BY <2>1, CallsAppend
  <2>3. Append(s, e) \in Seq(S) /\ Len(Append(s, e)) = Len(s) + 1
    BY <2>1
  <2>4. CallsOf(h, Append(s, e)) = IF h = c THEN Len(s) + 1 ELSE 0
    BY <2>1, <2>2
  <2> QED
    BY <2>3, <2>4
<1>3. T \in SUBSET Seq(S)
  OBVIOUS
<1>4. T = Seq(S)
  <2> HIDE DEF T
  <2> QED
    BY <1>1, <1>2, <1>3, SequenceInduction
<1> QED
  BY <1>4

\* Taking the entries of some names keeps the calls under each of them.
LEMMA CallsKept ==
    ASSUME NEW S, NEW H, NEW l \in Seq(S), NEW h
    PROVE  CallsOf(h, EntriesOf(H, l)) = IF h \in H THEN CallsOf(h, l) ELSE 0
<1> DEFINE T == {s \in Seq(S) : CallsOf(h, EntriesOf(H, s)) = IF h \in H THEN CallsOf(h, s) ELSE 0}
<1>1. <<>> \in T
  BY EntriesOfNothing, CallsOfNothing
<1>2. ASSUME NEW s \in T, NEW e \in S
      PROVE  Append(s, e) \in T
  <2>1. s \in Seq(S) /\ CallsOf(h, EntriesOf(H, s)) = IF h \in H THEN CallsOf(h, s) ELSE 0
    OBVIOUS
  <2> DEFINE w == EntriesOf(H, s)
  <2> DEFINE v == EntriesOf(H, Append(s, e))
  <2>2. w \in Seq(S)
    BY <2>1, EntriesType
  <2>3. v = IF e[1] \in H THEN Append(w, e) ELSE w
    BY <2>1, EntriesAppend
  <2>4. CallsOf(h, Append(s, e)) = IF e[1] = h THEN CallsOf(h, s) + 1 ELSE CallsOf(h, s)
    BY <2>1, CallsAppend
  <2> HIDE DEF w, v
  <2>5. CallsOf(h, Append(w, e)) = IF e[1] = h THEN CallsOf(h, w) + 1 ELSE CallsOf(h, w)
    BY <2>2, CallsAppend
  <2>6. CallsOf(h, w) = IF h \in H THEN CallsOf(h, s) ELSE 0
    BY <2>1 DEF w
  <2>7. CallsOf(h, v) = IF h \in H THEN CallsOf(h, Append(s, e)) ELSE 0
    <3>1. CASE e[1] = h /\ h \in H
      BY <2>3, <2>4, <2>5, <2>6, <3>1
    <3>2. CASE e[1] = h /\ h \notin H
      BY <2>3, <2>4, <2>5, <2>6, <3>2
    <3>3. CASE e[1] # h
      BY <2>3, <2>4, <2>5, <2>6, <3>3
    <3> QED
      BY <3>1, <3>2, <3>3
  <2>8. Append(s, e) \in Seq(S)
    BY <2>1
  <2> QED
    BY <2>7, <2>8 DEF v
<1>3. T \in SUBSET Seq(S)
  OBVIOUS
<1>4. T = Seq(S)
  <2> HIDE DEF T
  <2> QED
    BY <1>1, <1>2, <1>3, SequenceInduction
<1> QED
  BY <1>4

\* A copy's calls are those of the original under another name.
LEMMA RenamedCalls ==
    ASSUME NEW S, NEW l \in Seq(S), NEW copy
    PROVE  /\ Renamed(l, copy) \in Seq({<<copy, e[2]>> : e \in S})
           /\ \A h : CallsOf(h, Renamed(l, copy)) = IF h = copy THEN Len(l) ELSE 0
<1> DEFINE R == {<<copy, e[2]>> : e \in S}
<1> DEFINE r == Renamed(l, copy)
<1>1. Len(l) \in Nat /\ DOMAIN l = 1..Len(l) /\ \A i \in 1..Len(l) : l[i] \in S
  OBVIOUS
<1>2. r = [i \in 1..Len(l) |-> <<copy, l[i][2]>>]
  BY <1>1 DEF Renamed
<1>3. \A i \in 1..Len(l) : <<copy, l[i][2]>> \in R
  BY <1>1
<1>4. \A e \in R : e[1] = copy
  OBVIOUS
<1> HIDE DEF r, R
<1>5. r \in [1..Len(l) -> R]
  BY <1>2, <1>3
<1>6. r \in Seq(R) /\ Len(r) = Len(l)
  BY <1>1, <1>5
<1>7. \A h : CallsOf(h, r) = IF h = copy THEN Len(r) ELSE 0
  BY <1>4, <1>6, CallsNamed
<1> QED
  BY <1>6, <1>7 DEF r, R

-----------------------------------------------------------------------------
(* What one sample does to the counts of a model, a scaler and a pipeline.  *)

\* A model that learns a sample with weight counts it once; one that refuses
\* it, or learns it without weight, is as it was.
ModelHolds(m) ==
    /\ {"weights", "intercept", "optimizer", "samples"} \subseteq DOMAIN m
    /\ m.samples \in Nat

Learns(r, m, weight) ==
    /\ r.ok \in BOOLEAN
    /\ ModelHolds(r.state)
    /\ ~r.ok => r.state = m
    /\ r.ok => r.state.samples = IF weight = 0 THEN m.samples ELSE m.samples + 1

LEMMA AdoptedLearns ==
    ASSUME NEW m, ModelHolds(m), NEW stepped, NEW weight, weight # 0
    PROVE  Learns(Adopted(m, stepped), m, weight)
<1> DEFINE next == [m EXCEPT !.weights = stepped.parameters.weights,
                             !.intercept = stepped.parameters.intercept,
                             !.optimizer = stepped.optimizer, !.samples = @ + 1]
<1>1. /\ {"weights", "intercept", "optimizer", "samples"} \subseteq DOMAIN m
      /\ m.samples \in Nat
  BY DEF ModelHolds
<1>2. DOMAIN next = DOMAIN m /\ next.samples = m.samples + 1
  BY <1>1
<1>3. Adopted(m, stepped) = IF stepped.ok THEN Done(next) ELSE Refused(m)
  BY DEF Adopted
<1> HIDE DEF next
<1>4. CASE stepped.ok
  <2>1. Adopted(m, stepped) = [ok |-> TRUE, state |-> next]
    BY <1>3, <1>4 DEF Done
  <2> QED
    BY <1>1, <1>2, <2>1 DEF Learns, ModelHolds
<1>5. CASE ~stepped.ok
  <2>1. Adopted(m, stepped) = [ok |-> FALSE, state |-> m]
    BY <1>3, <1>5 DEF Refused
  <2> QED
    BY <2>1 DEF Learns
<1> QED
  BY <1>4, <1>5

LEMMA OutcomeLearns ==
    ASSUME NEW m, ModelHolds(m), NEW stepped, NEW weight, NEW r,
           \/ r = Refused(m)
           \/ weight = 0 /\ r = Done(m)
           \/ weight # 0 /\ r = Adopted(m, stepped)
    PROVE  Learns(r, m, weight)
<1>1. CASE r = Refused(m)
  BY <1>1 DEF Refused, Learns
<1>2. CASE weight = 0 /\ r = Done(m)
  BY <1>2 DEF Done, Learns
<1>3. CASE weight # 0 /\ r = Adopted(m, stepped)
  BY <1>3, AdoptedLearns
<1> QED
  BY <1>1, <1>2, <1>3

LEMMA LinearLearns ==
    ASSUME NEW loss, NEW m, ModelHolds(m), NEW x, NEW target, NEW weight
    PROVE  Learns(LinearLearn(loss, m, x, target, weight), m, weight)
<1> DEFINE r == LinearLearn(loss, m, x, target, weight)
<1> DEFINE stepped == OptimizerStep(m.optimizer, [weights |-> m.weights, intercept |-> m.intercept],
               [i \in Features |-> FMul(FMul(Gradient(loss, Dot(m, x), target), weight), x[i])],
               FMul(Gradient(loss, Dot(m, x), target), weight))
<1>1. \/ r = Refused(m)
      \/ weight = 0 /\ r = Done(m)
      \/ weight # 0 /\ r = Adopted(m, stepped)
  BY Zenon DEF LinearLearn, Descend
<1> HIDE DEF r, stepped
<1>2. Learns(r, m, weight)
  BY <1>1, OutcomeLearns
<1> QED
  BY <1>2 DEF r

LEMMA LogisticLearns ==
    ASSUME NEW m, ModelHolds(m), NEW x, NEW target, NEW weight
    PROVE  Learns(LogisticLearn(m, x, target, weight), m, weight)
<1> DEFINE r == LogisticLearn(m, x, target, weight)
<1> DEFINE stepped == OptimizerStep(m.optimizer, [weights |-> m.weights, intercept |-> m.intercept],
               [i \in Features |-> FMul(FMul(LogitGradient(Sigmoid(Dot(m, x)), target), weight), x[i])],
               FMul(LogitGradient(Sigmoid(Dot(m, x)), target), weight))
<1>1. \/ r = Refused(m)
      \/ weight = 0 /\ r = Done(m)
      \/ weight # 0 /\ r = Adopted(m, stepped)
  BY Zenon DEF LogisticLearn, Descend
<1> HIDE DEF r, stepped
<1>2. Learns(r, m, weight)
  BY <1>1, OutcomeLearns
<1> QED
  BY <1>2 DEF r

\* A scaler counts a sample once for every feature, or not at all.
LEMMA ScalerCounts ==
    ASSUME NEW s, NEW x
    PROVE  LET r == ScalerUpdate(s, x)
           IN  \/ r = Refused(s)
               \/ r.ok = TRUE /\ r.state.counts = [i \in Features |-> s.counts[i] + 1]
<1> DEFINE r == ScalerUpdate(s, x)
<1> SUFFICES \/ r = Refused(s)
             \/ r.ok = TRUE /\ r.state.counts = [i \in Features |-> s.counts[i] + 1]
  OBVIOUS
<1> DEFINE delta(i) == FSub(x[i], s.means[i])
<1> DEFINE mean(i) == FAdd(s.means[i], FDiv(delta(i), OfInt(s.counts[i] + 1)))
<1> DEFINE after(i) == FSub(x[i], mean(i))
<1> DEFINE m2(i) == FAdd(s.m2s[i], FMul(delta(i), after(i)))
<1> DEFINE means == [i \in Features |-> mean(i)]
<1> DEFINE m2s == [i \in Features |-> m2(i)]
<1> DEFINE counts == [i \in Features |-> s.counts[i] + 1]
<1>1. \/ r = Refused(s)
      \/ r = Done([counts |-> counts, means |-> means, m2s |-> m2s])
  BY Zenon DEF ScalerUpdate
<1> HIDE DEF r, means, m2s, counts
<1>2. r = Refused(s) \/ (r.ok = TRUE /\ r.state.counts = counts)
  BY <1>1 DEF Done
<1> QED
  BY <1>2 DEF counts

-----------------------------------------------------------------------------
(* Pipelines.                                                              *)

\* What a pipeline must have for its parts to be replaced.
PipeHolds(p) ==
    /\ {"transformer", "model"} \subseteq DOMAIN p
    /\ ModelHolds(p.model)

\* After a sample the model has it, or is as it was; the transformer has what its
\* own update made of it, or is as it was.
Piped(r, p, x, weight) ==
    /\ r.ok \in BOOLEAN
    /\ DOMAIN r.state = DOMAIN p
    /\ r.state.task = p.task /\ r.state.kind = p.kind
    /\ Learns([ok |-> r.ok, state |-> r.state.model], p.model, weight)
    /\ r.state.transformer \in {p.transformer, TransformerUpdate(p.kind, p.transformer, x).state}
    /\ r.ok => /\ TransformerUpdate(p.kind, p.transformer, x).ok
               /\ r.state.transformer = TransformerUpdate(p.kind, p.transformer, x).state

LEMMA RefusedPiped ==
    ASSUME NEW p, PipeHolds(p), NEW x, NEW weight
    PROVE  Piped(Refused(p), p, x, weight)
<1>1. Refused(p).ok = FALSE /\ Refused(p).state = p
  BY DEF Refused
<1>2. Learns([ok |-> FALSE, state |-> p.model], p.model, weight)
  BY DEF Learns, PipeHolds
<1> QED
  BY <1>1, <1>2 DEF Piped

LEMMA ModelLearns ==
    ASSUME NEW p, ModelHolds(p.model), NEW x, NEW target, NEW weight
    PROVE  Learns(ModelLearn(p, x, target, weight), p.model, weight)
<1>1. Learns(LinearLearn("squared", p.model, x, target, weight), p.model, weight)
  BY LinearLearns
<1>2. Learns(LogisticLearn(p.model, x, target, weight), p.model, weight)
  BY LogisticLearns
<1> QED
  BY <1>1, <1>2, Zenon DEF ModelLearn

LEMMA StagesPiped ==
    ASSUME NEW p, PipeHolds(p), NEW x, NEW target, NEW weight,
           TransformerUpdate(p.kind, p.transformer, x).ok \in BOOLEAN,
           {"task", "kind"} \subseteq DOMAIN p
    PROVE  Piped(Stages(p, x, target, weight), p, x, weight)
<1> DEFINE u == TransformerUpdate(p.kind, p.transformer, x)
<1> DEFINE q == [p EXCEPT !.transformer = u.state]
<1> DEFINE r == Stages(p, x, target, weight)
<1>1. {"transformer", "model"} \subseteq DOMAIN p /\ ModelHolds(p.model)
  BY DEF PipeHolds
<1>2. /\ DOMAIN q = DOMAIN p /\ q.transformer = u.state /\ q.model = p.model
      /\ q.task = p.task /\ q.kind = p.kind
  BY <1>1
<1> DEFINE out == TransformerTransform(q.kind, q.transformer, x)
<1> DEFINE w == WithTransformer(p, u)
<1>3. w.ok = u.ok /\ w.state = q
  BY DEF WithTransformer
<1>4. r = IF w.ok THEN TeachModel(w.state, TransformerTransform(w.state.kind, w.state.transformer, x),
                                  target, weight) ELSE w
  BY DEF Stages, ThenModel
<1> DEFINE l == ModelLearn(q, out.values, target, weight)
<1>5. TeachModel(q, out, target, weight) = IF out.ok THEN WithModel(q, l) ELSE Refused(q)
  BY DEF TeachModel
<1>6. Learns(l, p.model, weight)
  BY <1>1, <1>2, ModelLearns
<1>7. DOMAIN [q EXCEPT !.model = l.state] = DOMAIN p
      /\ [q EXCEPT !.model = l.state].model = l.state
      /\ [q EXCEPT !.model = l.state].transformer = u.state
      /\ [q EXCEPT !.model = l.state].task = p.task
      /\ [q EXCEPT !.model = l.state].kind = p.kind
  <2> HIDE DEF q, l, u
  <2> QED
    BY <1>1, <1>2
<1>8. WithModel(q, l).ok = l.ok /\ WithModel(q, l).state = [q EXCEPT !.model = l.state]
  BY DEF WithModel
<1>9. Learns([ok |-> FALSE, state |-> p.model], p.model, weight)
  BY <1>1 DEF Learns
<1>10. Learns([ok |-> l.ok, state |-> l.state], p.model, weight)
  BY <1>6 DEF Learns
<1>11. l.ok \in BOOLEAN
  BY <1>6 DEF Learns
<1>12. u.ok \in BOOLEAN
  OBVIOUS
<1>13. r = w \/ r = WithModel(q, l) \/ r = Refused(q)
  BY <1>3, <1>4, <1>5, Zenon
<1>14. r = w => ~u.ok \/ w = WithModel(q, l) \/ w = Refused(q)
  BY <1>3, <1>4, <1>5, Zenon
<1>15. r = WithModel(q, l) => u.ok \/ r = w
  BY <1>3, <1>4, <1>5, Zenon
<1> HIDE DEF r, l, w, q, out, u
<1>16. CASE r = Refused(q)
  <2>1. r.ok = FALSE /\ r.state = q
    BY <1>16 DEF Refused
  <2> QED
    BY <1>2, <1>9, <2>1 DEF Piped, u, r
<1>17. CASE r = w /\ ~u.ok
  <2>1. r.ok = FALSE /\ r.state = q
    BY <1>3, <1>12, <1>17
  <2> QED
    BY <1>2, <1>9, <2>1 DEF Piped, u, r
<1>18. CASE r = WithModel(q, l) /\ u.ok
  <2>1. r.ok = l.ok /\ r.state = [q EXCEPT !.model = l.state]
    BY <1>8, <1>18
  <2>2. DOMAIN r.state = DOMAIN p /\ r.state.model = l.state /\ r.state.transformer = u.state
        /\ r.state.task = p.task /\ r.state.kind = p.kind
    BY <1>7, <2>1
  <2> QED
    BY <1>10, <1>11, <1>18, <2>1, <2>2 DEF Piped, u, r
<1> QED
  BY <1>12, <1>13, <1>14, <1>15, <1>16, <1>17, <1>18, Zenon

\* learn, with the weight of one sample.
LEMMA PipelineLearns ==
    ASSUME NEW p, PipeHolds(p), NEW x, NEW target,
           TransformerUpdate(p.kind, p.transformer, x).ok \in BOOLEAN,
           {"task", "kind"} \subseteq DOMAIN p
    PROVE  Piped(PipelineLearn(p, x, target), p, x, Unit)
<1>1. Piped(Stages(p, x, target, Unit), p, x, Unit)
  BY StagesPiped
<1>2. Piped(Refused(p), p, x, Unit)
  BY RefusedPiped
<1> QED
  BY <1>1, <1>2, Zenon DEF PipelineLearn

\* Learning that is transactional leaves all parts as they were or none.
LEMMA TransactionalLearns ==
    ASSUME NEW p, PipeHolds(p), NEW x, NEW weight, NEW r, Piped(r, p, x, weight)
    PROVE  /\ Piped(Transactional(p, r), p, x, weight)
           /\ ~Transactional(p, r).ok => Transactional(p, r).state = p
<1>1. CASE r.ok
  <2>1. Transactional(p, r) = r
    BY <1>1 DEF Transactional
  <2> QED
    BY <1>1, <2>1
<1>2. CASE ~r.ok
  <2>1. Transactional(p, r) = Refused(p)
    BY <1>2 DEF Transactional
  <2>2. Piped(Refused(p), p, x, weight)
    BY RefusedPiped
  <2>3. Refused(p).state = p
    BY DEF Refused
  <2> QED
    BY <2>1, <2>2, <2>3
<1> QED
  BY <1>1, <1>2

\* A sample without weight changes nothing.
LEMMA WeightedLearns ==
    ASSUME NEW p, PipeHolds(p), NEW x, NEW target, NEW weight,
           TransformerUpdate(p.kind, p.transformer, x).ok \in BOOLEAN,
           {"task", "kind"} \subseteq DOMAIN p
    PROVE  LET r == PipelineLearnWeighted(p, x, target, weight)
           IN  /\ r.ok \in BOOLEAN
               /\ ~r.ok \/ weight = 0 => r.state = p
               /\ r.ok /\ weight # 0 => Piped(r, p, x, weight)
<1> DEFINE r == PipelineLearnWeighted(p, x, target, weight)
<1> DEFINE s == Stages(p, x, target, weight)
<1> SUFFICES /\ r.ok \in BOOLEAN
             /\ ~r.ok \/ weight = 0 => r.state = p
             /\ r.ok /\ weight # 0 => Piped(r, p, x, weight)
  OBVIOUS
<1>1. \/ r = Refused(p)
      \/ weight = 0 /\ r = Done(p)
      \/ weight # 0 /\ r = Transactional(p, s)
  BY Zenon DEF PipelineLearnWeighted
<1>2. Piped(s, p, x, weight)
  BY StagesPiped
<1> HIDE DEF r, s
<1>3. CASE r = Refused(p)
  <2>1. r.ok = FALSE /\ r.state = p
    BY <1>3 DEF Refused
  <2> QED
    BY <2>1
<1>4. CASE weight = 0 /\ r = Done(p)
  <2>1. r.ok = TRUE /\ r.state = p
    BY <1>4 DEF Done
  <2> QED
    BY <1>4, <2>1
<1>5. CASE weight # 0 /\ r = Transactional(p, s)
  <2>1. Piped(r, p, x, weight) /\ (~r.ok => r.state = p)
    BY <1>2, <1>5, TransactionalLearns
  <2>2. r.ok \in BOOLEAN
    BY <2>1 DEF Piped
  <2> QED
    BY <1>5, <2>1, <2>2
<1> QED
  BY <1>1, <1>3, <1>4, <1>5

-----------------------------------------------------------------------------
(* The mean imputer takes the features one after the other, and counts the *)
(* sample when it has taken all of them.                                    *)

Imputing(x, r, i) ==
    IF ~r.ok \/ x[i] = NaN THEN r
    ELSE IF ~IsFinite(x[i]) THEN Refused(r.state)
    ELSE TakeIntoMean(r.state, i, x[i])

Imputation(f, s, x, n) == f = [i \in 0..n |-> IF i = 0 THEN Done(s) ELSE Imputing(x, f[i - 1], i)]

LEMMA ImputationExtends ==
    ASSUME NEW s, NEW x, NEW k \in Nat, NEW f, Imputation(f, s, x, k)
    PROVE  \E g : Imputation(g, s, x, k + 1)
<1> DEFINE last == Imputing(x, f[k], k + 1)
<1> DEFINE g == [i \in 0..(k + 1) |-> IF i <= k THEN f[i] ELSE last]
<1>1. \A i \in 0..k : f[i] = IF i = 0 THEN Done(s) ELSE Imputing(x, f[i - 1], i)
  BY DEF Imputation
<1>2. last = Imputing(x, f[k], k + 1)
  OBVIOUS
<1> HIDE DEF last
<1>3. \A i \in 0..k : g[i] = f[i]
  OBVIOUS
<1>4. g[k + 1] = last
  OBVIOUS
<1>5. g = [i \in 0..(k + 1) |-> g[i]]
  OBVIOUS
<1> HIDE DEF g
<1>6. ASSUME NEW i \in 0..(k + 1)
      PROVE  g[i] = IF i = 0 THEN Done(s) ELSE Imputing(x, g[i - 1], i)
  <2>1. CASE i = 0
    <3>1. 0 \in 0..k
      OBVIOUS
    <3>2. f[0] = Done(s) /\ g[0] = f[0]
      BY <1>1, <1>3, <3>1
    <3> QED
      BY <2>1, <3>2, Zenon
  <2>2. CASE i \in 1..k
    <3>1. i \in 0..k /\ i - 1 \in 0..k /\ i # 0
      BY <2>2
    <3>2. g[i] = f[i] /\ g[i - 1] = f[i - 1]
      BY <1>3, <3>1
    <3>3. f[i] = Imputing(x, f[i - 1], i)
      BY <1>1, <3>1
    <3> QED
      BY <3>1, <3>2, <3>3
  <2>3. CASE i = k + 1
    <3>1. i # 0 /\ i - 1 = k /\ k \in 0..k
      BY <2>3
    <3>2. g[i - 1] = f[k] /\ g[i] = last
      BY <1>3, <1>4, <2>3, <3>1
    <3> QED
      BY <1>2, <2>3, <3>1, <3>2
  <2>4. i = 0 \/ i \in 1..k \/ i = k + 1
    OBVIOUS
  <2> QED
    BY <2>1, <2>2, <2>3, <2>4, Zenon
<1>7. Imputation(g, s, x, k + 1)
  BY <1>5, <1>6 DEF Imputation
<1> QED
  BY <1>7

LEMMA ImputationExists ==
    ASSUME NEW s, NEW x, NEW n \in Nat
    PROVE  \E f : Imputation(f, s, x, n)
<1> DEFINE Solvable(k) == \E f : Imputation(f, s, x, k)
<1> DEFINE T == {k \in Nat : Solvable(k)}
<1>1. Solvable(0)
  <2>1. Imputation([i \in 0..0 |-> Done(s)], s, x, 0)
    BY DEF Imputation
  <2> QED
    BY <2>1
<1>2. ASSUME NEW k \in Nat, Solvable(k)
      PROVE  Solvable(k + 1)
  BY <1>2, ImputationExtends
<1> HIDE DEF Solvable
<1>3. 0 \in T /\ \A k \in T : k + 1 \in T
  BY <1>1, <1>2
<1>4. T \in SUBSET Nat
  OBVIOUS
<1>5. T = Nat
  <2> HIDE DEF T
  <2> QED
    BY <1>3, <1>4, Induction
<1> QED
  BY <1>5 DEF Solvable

\* No feature that is taken, or refused, counts the sample.
ImputerParts == {"counts", "means", "samples"}

LEMMA ImputingKeepsSamples ==
    ASSUME NEW x, NEW r, NEW i, ImputerParts \subseteq DOMAIN r.state, r.ok \in BOOLEAN
    PROVE  LET next == Imputing(x, r, i)
           IN  /\ ImputerParts \subseteq DOMAIN next.state /\ next.ok \in BOOLEAN
               /\ next.state.samples = r.state.samples
<1> DEFINE next == Imputing(x, r, i)
<1> DEFINE s == r.state
<1> DEFINE counted == [s EXCEPT !.counts[i] = @ + 1]
<1> DEFINE delta == FSub(x[i], s.means[i])
<1> DEFINE mean == FAdd(s.means[i], FDiv(delta, OfInt(s.counts[i] + 1)))
<1> DEFINE taken == [counted EXCEPT !.means[i] = mean]
<1> SUFFICES /\ ImputerParts \subseteq DOMAIN next.state /\ next.ok \in BOOLEAN
             /\ next.state.samples = r.state.samples
  OBVIOUS
<1>1. \/ next = r
      \/ next = Refused(s)
      \/ next = Refused(counted)
      \/ next = Done(taken)
  BY Zenon DEF Imputing, TakeIntoMean
<1> DEFINE counts == [s.counts EXCEPT ![i] = @ + 1]
<1> DEFINE means == [s.means EXCEPT ![i] = mean]
<1>2. counted = [s EXCEPT !.counts = counts]
  BY DEF ImputerParts
<1> HIDE DEF next, mean, counts
<1>3. DOMAIN counted = DOMAIN s /\ counted.samples = s.samples /\ counted.means = s.means
  <2> HIDE DEF counted
  <2> QED
    BY <1>2 DEF ImputerParts
<1>4. taken = [counted EXCEPT !.means = means]
  <2> HIDE DEF counted
  <2> QED
    BY <1>3 DEF ImputerParts
<1> HIDE DEF counted, means
<1>5. DOMAIN taken = DOMAIN s /\ taken.samples = s.samples
  <2> HIDE DEF taken
  <2> QED
    BY <1>3, <1>4 DEF ImputerParts
<1> HIDE DEF taken
<1>6. \/ next = r
      \/ next = [ok |-> FALSE, state |-> s]
      \/ next = [ok |-> FALSE, state |-> counted]
      \/ next = [ok |-> TRUE, state |-> taken]
  BY <1>1 DEF Refused, Done
<1>7. CASE next = r
  BY <1>7
<1>8. CASE next = [ok |-> FALSE, state |-> s]
  BY <1>8
<1>9. CASE next = [ok |-> FALSE, state |-> counted]
  BY <1>3, <1>9
<1>10. CASE next = [ok |-> TRUE, state |-> taken]
  BY <1>5, <1>10
<1> QED
  BY <1>6, <1>7, <1>8, <1>9, <1>10, Zenon

LEMMA ImputerCounts ==
    ASSUME NEW s, ImputerParts \subseteq DOMAIN s, NEW x
    PROVE  LET r == MeanImputerUpdate(s, x)
           IN  /\ ImputerParts \subseteq DOMAIN r.state /\ r.ok \in BOOLEAN
               /\ r.state.samples = IF r.ok THEN s.samples + 1 ELSE s.samples
<1> DEFINE r == MeanImputerUpdate(s, x)
<1> SUFFICES /\ ImputerParts \subseteq DOMAIN r.state /\ r.ok \in BOOLEAN
             /\ r.state.samples = IF r.ok THEN s.samples + 1 ELSE s.samples
  OBVIOUS
<1> DEFINE after == CHOOSE f : Imputation(f, s, x, FeatureCount)
<1> DEFINE taken == after[FeatureCount]
<1> DEFINE counted == [taken.state EXCEPT !.samples = @ + 1]
<1>1. \/ r = Refused(s)
      \/ r = Refused(taken.state)
      \/ r = Done(counted)
  BY Zenon DEF MeanImputerUpdate, ImputerUpdate, Imputation, Imputing
<1>2. FeatureCount \in Nat
  BY FeatureAssumption
<1>3. Imputation(after, s, x, FeatureCount)
  BY <1>2, ImputationExists
<1> HIDE DEF after
<1> DEFINE Keeps(v) == /\ ImputerParts \subseteq DOMAIN v.state /\ v.ok \in BOOLEAN
                       /\ v.state.samples = s.samples
<1> DEFINE T == {k \in Nat : k <= FeatureCount => Keeps(after[k])}
<1>4. Keeps(after[0])
  <2>1. after[0] = [ok |-> TRUE, state |-> s]
    BY <1>2, <1>3 DEF Imputation, Done
  <2> QED
    BY <2>1
<1>5. ASSUME NEW k \in Nat, k + 1 <= FeatureCount, Keeps(after[k])
      PROVE  Keeps(after[k + 1])
  <2> DEFINE n == k + 1
  <2>1. n \in 0..FeatureCount /\ n # 0 /\ n - 1 = k
    BY <1>2, <1>5
  <2> HIDE DEF n
  <2>2. after[n] = Imputing(x, after[n - 1], n)
    BY <1>3, <2>1 DEF Imputation
  <2> DEFINE v == after[k]
  <2>3. Keeps(v) /\ after[n] = Imputing(x, v, n)
    BY <1>5, <2>1, <2>2
  <2> HIDE DEF v
  <2>4. Keeps(Imputing(x, v, n))
    BY <2>3, ImputingKeepsSamples
  <2>5. Keeps(after[n])
    BY <2>3, <2>4
  <2> QED
    BY <2>5 DEF n
<1> HIDE DEF Keeps
<1>6. 0 \in T /\ \A k \in T : k + 1 \in T
  BY <1>2, <1>4, <1>5
<1>7. T \in SUBSET Nat
  OBVIOUS
<1>8. T = Nat
  <2> HIDE DEF T
  <2> QED
    BY <1>6, <1>7, Induction
<1>9. Keeps(taken)
  BY <1>2, <1>8
<1> HIDE DEF taken, r
<1>10. ImputerParts \subseteq DOMAIN taken.state /\ taken.state.samples = s.samples
  BY <1>9 DEF Keeps
<1>11. DOMAIN counted = DOMAIN taken.state /\ counted.samples = s.samples + 1
  BY <1>10 DEF ImputerParts
<1> HIDE DEF counted
<1>12. \/ r = [ok |-> FALSE, state |-> s]
       \/ r = [ok |-> FALSE, state |-> taken.state]
       \/ r = [ok |-> TRUE, state |-> counted]
  BY <1>1 DEF Refused, Done
<1>13. CASE r = [ok |-> FALSE, state |-> s]
  BY <1>13
<1>14. CASE r = [ok |-> FALSE, state |-> taken.state]
  BY <1>10, <1>14
<1>15. CASE r = [ok |-> TRUE, state |-> counted]
  BY <1>10, <1>11, <1>15
<1> QED
  BY <1>12, <1>13, <1>14, <1>15

-----------------------------------------------------------------------------
(* The stages of each kind of pipeline after n samples. They are the parts  *)
(* of the inductive invariant of StagesAgree.                               *)

ScalerPipe(p) ==
    PipeHolds(p) /\ {"task", "kind"} \subseteq DOMAIN p /\ p.kind = "scaler"

\* What the update of a scaler does to its counts, as PipeHolds' lemmas need it.
LEMMA ScalerTakes ==
    ASSUME NEW p, ScalerPipe(p), NEW x
    PROVE  LET u == TransformerUpdate(p.kind, p.transformer, x)
           IN  /\ u.ok \in BOOLEAN
               /\ ~u.ok => u.state = p.transformer
               /\ u.ok => u.state.counts = [i \in Features |-> p.transformer.counts[i] + 1]
<1> DEFINE t == p.transformer
<1> DEFINE u == TransformerUpdate(p.kind, t, x)
<1> SUFFICES /\ u.ok \in BOOLEAN
             /\ ~u.ok => u.state = t
             /\ u.ok => u.state.counts = [i \in Features |-> t.counts[i] + 1]
  OBVIOUS
<1>1. u = ScalerUpdate(t, x)
  BY DEF ScalerPipe, TransformerUpdate
<1> HIDE DEF u, t
<1>2. u = Refused(t) \/ (u.ok = TRUE /\ u.state.counts = [i \in Features |-> t.counts[i] + 1])
  BY <1>1, ScalerCounts
<1>3. CASE u = Refused(t)
  BY <1>3 DEF Refused
<1>4. CASE u.ok = TRUE /\ u.state.counts = [i \in Features |-> t.counts[i] + 1]
  BY <1>4
<1> QED
  BY <1>2, <1>3, <1>4

\* All stages have learned from the same n samples.
AllOrNothing(p, n) ==
    ScalerPipe(p) /\ p.model.samples = n /\ p.transformer.counts = PerFeature(n)

LEMMA AllOrNothingStep ==
    ASSUME NEW p, NEW n \in Nat, AllOrNothing(p, n), NEW x, NEW weight, weight # 0,
           NEW r, Piped(r, p, x, weight), ~r.ok => r.state = p
    PROVE  AllOrNothing(r.state, IF r.ok THEN n + 1 ELSE n)
<1>1. ScalerPipe(p) /\ p.model.samples = n /\ p.transformer.counts = PerFeature(n)
  BY DEF AllOrNothing
<1>2. CASE ~r.ok
  BY <1>1, <1>2 DEF AllOrNothing
<1>3. CASE r.ok
  <2> DEFINE u == TransformerUpdate(p.kind, p.transformer, x)
  <2>1. u.ok /\ r.state.transformer = u.state
    BY <1>3 DEF Piped
  <2>2. u.ok => u.state.counts = [i \in Features |-> p.transformer.counts[i] + 1]
    BY <1>1, ScalerTakes
  <2>3. r.state.transformer.counts = [i \in Features |-> PerFeature(n)[i] + 1]
    BY <1>1, <2>1, <2>2
  <2>4. r.state.transformer.counts = PerFeature(n + 1)
    BY <2>3 DEF PerFeature
  <2>5. Learns([ok |-> r.ok, state |-> r.state.model], p.model, weight)
    BY DEF Piped
  <2>6. r.state.model.samples = n + 1 /\ ModelHolds(r.state.model)
    BY <1>1, <1>3, <2>5 DEF Learns
  <2>7. ScalerPipe(r.state)
    BY <1>1, <2>6 DEF ScalerPipe, PipeHolds, Piped
  <2> QED
    BY <1>3, <2>4, <2>6, <2>7 DEF AllOrNothing
<1> QED
  BY <1>2, <1>3

\* The model has learned from n samples, the scaler from at least as many.
ScalerAhead(p, n) ==
    /\ ScalerPipe(p) /\ p.model.samples = n
    /\ p.transformer.counts[1] \in Nat /\ p.transformer.counts[1] >= n

LEMMA OneIsAFeature == 1 \in Features
BY FeatureAssumption DEF Features

LEMMA ScalerAheadStep ==
    ASSUME NEW p, NEW n \in Nat, ScalerAhead(p, n), NEW x, NEW r, Piped(r, p, x, Unit)
    PROVE  /\ ScalerAhead(r.state, IF r.ok THEN n + 1 ELSE n)
           /\ r.state.transformer.counts[1] <= p.transformer.counts[1] + 1
<1> DEFINE u == TransformerUpdate(p.kind, p.transformer, x)
<1> DEFINE c == p.transformer.counts[1]
<1> DEFINE d == r.state.transformer.counts[1]
<1>1. ScalerPipe(p) /\ p.model.samples = n /\ c \in Nat /\ c >= n
  BY DEF ScalerAhead
<1>2. /\ u.ok \in BOOLEAN
      /\ ~u.ok => u.state = p.transformer
      /\ u.ok => u.state.counts = [i \in Features |-> p.transformer.counts[i] + 1]
  BY <1>1, ScalerTakes
<1>3. u.ok => u.state.counts[1] = c + 1
  BY <1>2, OneIsAFeature
<1>4. ~u.ok => u.state.counts[1] = c
  BY <1>2
<1>5. /\ r.ok \in BOOLEAN
      /\ r.state.transformer \in {p.transformer, u.state}
      /\ r.ok => u.ok /\ r.state.transformer = u.state
      /\ Learns([ok |-> r.ok, state |-> r.state.model], p.model, Unit)
  BY DEF Piped
<1>6. d = c \/ d = c + 1
  BY <1>2, <1>3, <1>4, <1>5
<1>7. r.ok => d = c + 1
  BY <1>3, <1>5
<1>8. Unit # 0
  BY FormatAssumption
<1>9. r.state.model.samples = (IF r.ok THEN n + 1 ELSE n) /\ ModelHolds(r.state.model)
  BY <1>1, <1>5, <1>8 DEF Learns
<1>10. ScalerPipe(r.state)
  BY <1>1, <1>9 DEF ScalerPipe, PipeHolds, Piped
<1> HIDE DEF c
<1>11. d \in Nat /\ d <= c + 1
  BY <1>1, <1>6
<1>12. d >= IF r.ok THEN n + 1 ELSE n
  BY <1>1, <1>5, <1>6, <1>7
<1> QED
  BY <1>9, <1>10, <1>11, <1>12 DEF ScalerAhead, c

\* The same with an imputer.
ImputerAhead(p, n) ==
    /\ PipeHolds(p) /\ {"task", "kind"} \subseteq DOMAIN p /\ p.kind = "imputer"
    /\ ImputerParts \subseteq DOMAIN p.transformer
    /\ p.model.samples = n
    /\ p.transformer.samples \in Nat /\ p.transformer.samples >= n

LEMMA ImputerTakes ==
    ASSUME NEW p, NEW n, ImputerAhead(p, n), NEW x
    PROVE  LET u == TransformerUpdate(p.kind, p.transformer, x)
           IN  /\ u.ok \in BOOLEAN
               /\ ImputerParts \subseteq DOMAIN u.state
               /\ u.state.samples = IF u.ok THEN p.transformer.samples + 1 ELSE p.transformer.samples
<1> DEFINE t == p.transformer
<1> DEFINE u == TransformerUpdate(p.kind, t, x)
<1> SUFFICES /\ u.ok \in BOOLEAN
             /\ ImputerParts \subseteq DOMAIN u.state
             /\ u.state.samples = IF u.ok THEN t.samples + 1 ELSE t.samples
  OBVIOUS
<1>1. u = MeanImputerUpdate(t, x) /\ ImputerParts \subseteq DOMAIN t
  BY DEF ImputerAhead, TransformerUpdate
<1> HIDE DEF u, t
<1> QED
  BY <1>1, ImputerCounts

LEMMA ImputerAheadStep ==
    ASSUME NEW p, NEW n \in Nat, ImputerAhead(p, n), NEW x, NEW r, Piped(r, p, x, Unit)
    PROVE  ImputerAhead(r.state, IF r.ok THEN n + 1 ELSE n)
<1> DEFINE u == TransformerUpdate(p.kind, p.transformer, x)
<1> DEFINE c == p.transformer.samples
<1> DEFINE d == r.state.transformer.samples
<1>1. /\ PipeHolds(p) /\ {"task", "kind"} \subseteq DOMAIN p /\ p.kind = "imputer"
      /\ ImputerParts \subseteq DOMAIN p.transformer
      /\ p.model.samples = n /\ c \in Nat /\ c >= n
  BY DEF ImputerAhead
<1>2. /\ u.ok \in BOOLEAN
      /\ ImputerParts \subseteq DOMAIN u.state
      /\ u.state.samples = IF u.ok THEN c + 1 ELSE c
  BY ImputerTakes
<1>3. /\ r.ok \in BOOLEAN
      /\ r.state.transformer \in {p.transformer, u.state}
      /\ r.ok => u.ok /\ r.state.transformer = u.state
      /\ Learns([ok |-> r.ok, state |-> r.state.model], p.model, Unit)
  BY DEF Piped
<1>4. d = c \/ d = c + 1
  BY <1>2, <1>3
<1>5. r.ok => d = c + 1
  BY <1>2, <1>3
<1>6. ImputerParts \subseteq DOMAIN r.state.transformer
  BY <1>1, <1>2, <1>3
<1>7. Unit # 0
  BY FormatAssumption
<1>8. r.state.model.samples = (IF r.ok THEN n + 1 ELSE n) /\ ModelHolds(r.state.model)
  BY <1>1, <1>3, <1>7 DEF Learns
<1>9. PipeHolds(r.state) /\ {"task", "kind"} \subseteq DOMAIN r.state /\ r.state.kind = "imputer"
  BY <1>1, <1>8 DEF PipeHolds, Piped
<1> HIDE DEF c
<1>10. d \in Nat /\ d >= IF r.ok THEN n + 1 ELSE n
  BY <1>1, <1>3, <1>4, <1>5
<1> QED
  BY <1>6, <1>8, <1>9, <1>10 DEF ImputerAhead

-----------------------------------------------------------------------------
(* The samples of a log that have weight.                                  *)

Weighty(l) == Cardinality({k \in DOMAIN l : l[k][3] # 0})

LEMMA WeightyAppend ==
    ASSUME NEW S, NEW l \in Seq(S), NEW e \in S
    PROVE  /\ Weighty(l) \in Nat
           /\ Weighty(Append(l, e)) = IF e[3] = 0 THEN Weighty(l) ELSE Weighty(l) + 1
<1> DEFINE m == Append(l, e)
<1> DEFINE n == Len(l)
<1> DEFINE K == {k \in DOMAIN l : l[k][3] # 0}
<1> DEFINE L == {k \in DOMAIN m : m[k][3] # 0}
<1>1. /\ n \in Nat /\ DOMAIN l = 1..n /\ DOMAIN m = 1..(n + 1)
      /\ m[n + 1] = e /\ \A i \in 1..n : m[i] = l[i]
  OBVIOUS
<1>2. IsFiniteSet(1..n)
  <2>1. 1 \in Int /\ n \in Int
    BY <1>1
  <2> HIDE DEF n
  <2> QED
    BY <2>1, FS_Interval
<1>3. K \subseteq 1..n
  BY <1>1
<1>4. IsFiniteSet(K)
  BY <1>2, <1>3, FS_Subset
<1>5. Cardinality(K) \in Nat
  BY <1>4, FS_CardinalityType
<1>6. n + 1 \notin K
  BY <1>1, <1>3
<1>7. L = IF e[3] = 0 THEN K ELSE K \cup {n + 1}
  <2> HIDE DEF m
  <2>1. \A k \in 1..(n + 1) : k = n + 1 \/ k \in 1..n
    BY <1>1
  <2> QED
    BY <1>1, <2>1
<1> HIDE DEF K, L, m
<1>8. CASE e[3] = 0
  BY <1>5, <1>7, <1>8 DEF Weighty, K, L, m
<1>9. CASE e[3] # 0
  <2>1. Cardinality(K \cup {n + 1}) = Cardinality(K) + 1
    BY <1>4, <1>6, FS_AddElement
  <2>2. Cardinality(L) = Cardinality(K) + 1
    BY <1>7, <1>9, <2>1
  <2> QED
    BY <1>5, <1>9, <2>2 DEF Weighty, K, L, m
<1> QED
  BY <1>8, <1>9

LEMMA NothingIsWeighty == Weighty(<<>>) = 0
<1>1. {k \in DOMAIN <<>> : <<>>[k][3] # 0} = {}
  OBVIOUS
<1> QED
  BY <1>1, FS_EmptySet DEF Weighty

-----------------------------------------------------------------------------
(* An evaluation: a pipeline and the errors scored before it learned.      *)

LEMMA MaeCounts ==
    ASSUME NEW s, NEW truth, NEW prediction
    PROVE  LET r == MaeUpdate(s, truth, prediction)
           IN  r.ok => r.state.count = s.count + 1
<1> DEFINE r == MaeUpdate(s, truth, prediction)
<1> DEFINE sum == FAdd(s.sum, AbsoluteError(truth, prediction))
<1> DEFINE counted == [count |-> s.count + 1, sum |-> sum]
<1> SUFFICES r.ok => r.state.count = s.count + 1
  OBVIOUS
<1>1. r = Refused(s) \/ r = Done(counted)
  BY Zenon DEF MaeUpdate, MeanLossUpdate, SumUpdate
<1> HIDE DEF r, sum
<1> QED
  BY <1>1 DEF Refused, Done

\* After n samples with the answer a.
Evaluation(e, n, a) ==
    /\ ScalerAhead(e.pipeline, n)
    /\ e.errors.count \in Nat
    /\ n <= e.errors.count
    /\ e.errors.count <= n + (IF a = "refused" THEN 1 ELSE 0)
    /\ e.pipeline.transformer.counts[1] <= e.errors.count

LEMMA EvaluationStep ==
    ASSUME NEW e, NEW n \in Nat, NEW a, Evaluation(e, n, a), a # "refused", NEW x, NEW target
    PROVE  LET r == EvaluateRegression(e, x, target)
           IN  /\ r.ok \in BOOLEAN
               /\ Evaluation(r.state, IF r.ok THEN n + 1 ELSE n, IF r.ok THEN "taken" ELSE "refused")
<1> DEFINE r == EvaluateRegression(e, x, target)
<1> DEFINE p == e.pipeline
<1> DEFINE scored == MaeUpdate(e.errors, target, PipelinePredict(p, x))
<1> DEFINE learned == PipelineLearn(p, x, target)
<1> DEFINE kept == [ok |-> learned.ok, state |-> [pipeline |-> learned.state, errors |-> scored.state]]
<1> DEFINE Goal == /\ r.ok \in BOOLEAN
                   /\ Evaluation(r.state, IF r.ok THEN n + 1 ELSE n, IF r.ok THEN "taken" ELSE "refused")
<1> SUFFICES Goal
  OBVIOUS
<1>1. r = Refused(e) \/ (scored.ok /\ r = kept)
  BY Zenon DEF EvaluateRegression, EvaluateSample, Scored
<1>2. /\ ScalerAhead(p, n)
      /\ e.errors.count = n
      /\ p.transformer.counts[1] <= n
  BY DEF Evaluation
<1>3. scored.ok => scored.state.count = n + 1
  <2> DEFINE s == e.errors
  <2> DEFINE y == PipelinePredict(p, x)
  <2> HIDE DEF s, y
  <2>1. scored = MaeUpdate(s, target, y)
    BY DEF s, y
  <2>2. LET q == MaeUpdate(s, target, y) IN q.ok => q.state.count = s.count + 1
    BY MaeCounts
  <2>3. s.count = n
    BY <1>2 DEF s
  <2> HIDE DEF scored
  <2> QED
    BY <2>1, <2>2, <2>3
<1>4. Piped(learned, p, x, Unit)
  <2>1. ScalerPipe(p)
    BY <1>2 DEF ScalerAhead
  <2>2. PipeHolds(p) /\ {"task", "kind"} \subseteq DOMAIN p
    BY <2>1 DEF ScalerPipe
  <2>3. TransformerUpdate(p.kind, p.transformer, x).ok \in BOOLEAN
    BY <2>1, ScalerTakes
  <2> HIDE DEF p
  <2> QED
    BY <2>2, <2>3, PipelineLearns
<1> HIDE DEF r, scored, learned, p
<1>5. /\ ScalerAhead(learned.state, IF learned.ok THEN n + 1 ELSE n)
      /\ learned.state.transformer.counts[1] <= p.transformer.counts[1] + 1
  BY <1>2, <1>4, ScalerAheadStep
<1>6. learned.ok \in BOOLEAN
  BY <1>4 DEF Piped
<1>7. p.transformer.counts[1] \in Nat /\ learned.state.transformer.counts[1] \in Nat
  BY <1>2, <1>5 DEF ScalerAhead
<1>8. CASE r = Refused(e)
  <2>1. r.ok = FALSE /\ r.state = e
    BY <1>8 DEF Refused
  <2>2. Evaluation(e, n, "refused")
    BY <1>2 DEF Evaluation, p
  <2> QED
    BY <2>1, <2>2
<1>9. CASE scored.ok /\ r = kept
  <2>1. r.ok = learned.ok /\ r.state.pipeline = learned.state /\ r.state.errors.count = n + 1
    BY <1>3, <1>9
  <2>2. learned.state.transformer.counts[1] <= n + 1
    BY <1>2, <1>5, <1>7
  <2>3. CASE learned.ok
    <3>1. ScalerAhead(learned.state, n + 1)
      BY <1>5, <2>3
    <3>2. Evaluation(r.state, n + 1, "taken")
      BY <2>1, <2>2, <3>1 DEF Evaluation
    <3> QED
      BY <1>6, <2>1, <2>3, <3>2
  <2>4. CASE ~learned.ok
    <3>1. ScalerAhead(learned.state, n)
      BY <1>5, <2>4
    <3>2. Evaluation(r.state, n, "refused")
      BY <2>1, <2>2, <3>1 DEF Evaluation
    <3> QED
      BY <1>6, <2>1, <2>4, <3>2
  <2> QED
    BY <2>3, <2>4
<1> QED
  BY <1>1, <1>8, <1>9

-----------------------------------------------------------------------------
(* Pipelines and their evaluation, whatever they are given.                *)

\* What each kind keeps with the log l and the answer a.
PipeInv(kind, o, l, a) ==
    /\ kind \in {"transactional", "classification"} => AllOrNothing(o, Len(l))
    /\ kind = "weighted" => AllOrNothing(o, Weighty(l))
    /\ kind = "plain" => ScalerAhead(o, Len(l))
    /\ kind = "plain_imputed" => ImputerAhead(o, Len(l))
    /\ kind = "evaluation" => Evaluation(o, Len(l), a)

StagesInv ==
    stream.kind \in Pipes =>
        log \in Seq(stream.inputs) /\ PipeInv(stream.kind, object, log, answer)

\* New objects have learned from nothing.
LEMMA NewPipelineHolds ==
    ASSUME NEW task
    PROVE  /\ PipeHolds(NewPipeline(task, "scaler"))
           /\ AllOrNothing(NewPipeline(task, "scaler"), 0)
           /\ ScalerAhead(NewPipeline(task, "scaler"), 0)
           /\ ImputerAhead(NewPipeline(task, "imputer"), 0)
<1> DEFINE p == NewPipeline(task, "scaler")
<1> DEFINE q == NewPipeline(task, "imputer")
<1> DEFINE m == NewLinear("sgd")
<1>1. p = [task |-> task, kind |-> "scaler", transformer |-> NewScaler, model |-> m]
  BY DEF NewPipeline, NewTransformer
<1>2. q = [task |-> task, kind |-> "imputer", transformer |-> NewMeanImputer, model |-> m]
  BY DEF NewPipeline, NewTransformer
<1>3. ModelHolds(m) /\ m.samples = 0
  BY DEF NewLinear, ModelHolds
<1>4. NewScaler.counts = PerFeature(0) /\ PerFeature(0)[1] = 0
  BY OneIsAFeature DEF NewScaler, PerFeature
<1>5. ImputerParts \subseteq DOMAIN NewMeanImputer /\ NewMeanImputer.samples = 0
  BY DEF ImputerParts, NewMeanImputer
<1> HIDE DEF p, q, m
<1>6. ScalerPipe(p) /\ PipeHolds(p)
  BY <1>1, <1>3 DEF ScalerPipe, PipeHolds
<1>7. PipeHolds(q) /\ {"task", "kind"} \subseteq DOMAIN q
  BY <1>2, <1>3 DEF PipeHolds
<1>8. AllOrNothing(p, 0)
  BY <1>1, <1>3, <1>4, <1>6 DEF AllOrNothing
<1>9. ScalerAhead(p, 0)
  BY <1>1, <1>3, <1>4, <1>6 DEF ScalerAhead
<1>10. ImputerAhead(q, 0)
  BY <1>2, <1>3, <1>5, <1>7 DEF ImputerAhead
<1> QED
  BY <1>6, <1>8, <1>9, <1>10 DEF p, q

LEMMA NewPipeHolds ==
    ASSUME NEW kind \in Pipes
    PROVE  PipeInv(kind, NewPipe(kind), <<>>, "new")
<1>1. Len(<<>>) = 0 /\ Weighty(<<>>) = 0
  BY NothingIsWeighty
<1>2. CASE kind = "plain_imputed"
  <2>1. NewPipe(kind) = NewPipeline("regression", "imputer")
    BY <1>2 DEF NewPipe
  <2> QED
    BY <1>1, <1>2, <2>1, NewPipelineHolds DEF PipeInv
<1>3. CASE kind = "classification"
  <2>1. NewPipe(kind) = NewPipeline("classification", "scaler")
    BY <1>3 DEF NewPipe
  <2> QED
    BY <1>1, <1>3, <2>1, NewPipelineHolds DEF PipeInv
<1>4. CASE kind = "evaluation"
  <2> DEFINE e == NewPipe(kind)
  <2> DEFINE p == NewPipeline("regression", "scaler")
  <2>1. e = [pipeline |-> p, errors |-> [count |-> 0, sum |-> 0]]
    BY <1>4 DEF NewPipe, NewEvaluation
  <2>2. ScalerAhead(p, 0) /\ AllOrNothing(p, 0)
    BY NewPipelineHolds
  <2> HIDE DEF p
  <2>3. e.pipeline = p /\ e.errors.count = 0
    BY <2>1
  <2>4. p.transformer.counts[1] = 0
    BY <2>2, OneIsAFeature DEF AllOrNothing, PerFeature
  <2> HIDE DEF e
  <2>5. Evaluation(e, 0, "new")
    BY <2>2, <2>3, <2>4 DEF Evaluation
  <2> QED
    BY <1>1, <1>4, <2>5 DEF PipeInv, e
<1>5. CASE kind \in {"plain", "transactional", "weighted"}
  <2>1. NewPipe(kind) = NewPipeline("regression", "scaler")
    BY <1>5 DEF NewPipe
  <2> QED
    BY <1>1, <1>5, <2>1, NewPipelineHolds DEF PipeInv
<1> QED
  BY <1>2, <1>3, <1>4, <1>5 DEF Pipes

\* A call keeps it, taken or refused.
LEMMA PipeStep ==
    ASSUME NEW kind \in Pipes, NEW I, NEW l \in Seq(I), NEW input \in I, NEW o, NEW a,
           PipeInv(kind, o, l, a), kind = "evaluation" => a # "refused"
    PROVE  LET r == LearnPipe(kind, o, input)
           IN  /\ r.ok \in BOOLEAN
               /\ PipeInv(kind, r.state, IF r.ok THEN Append(l, input) ELSE l,
                          IF r.ok THEN "taken" ELSE "refused")
<1> DEFINE r == LearnPipe(kind, o, input)
<1> DEFINE x == input[1]
<1> DEFINE target == input[2]
<1> DEFINE weight == input[3]
<1> DEFINE m == IF r.ok THEN Append(l, input) ELSE l
<1> DEFINE b == IF r.ok THEN "taken" ELSE "refused"
<1> DEFINE n == Len(l)
<1> DEFINE k == IF r.ok THEN n + 1 ELSE n
<1> SUFFICES r.ok \in BOOLEAN /\ PipeInv(kind, r.state, m, b)
  OBVIOUS
<1>1. n \in Nat /\ Len(m) = k
  <2>1. Len(Append(l, input)) = n + 1 /\ n \in Nat
    OBVIOUS
  <2> HIDE DEF r
  <2> QED
    BY <2>1
<1>2. Unit # 0
  BY FormatAssumption
<1>3. CASE kind = "plain"
  <2>1. r = PipelineLearn(o, x, target)
    BY <1>3 DEF LearnPipe
  <2>2. ScalerAhead(o, n)
    BY <1>3 DEF PipeInv
  <2>3. ScalerPipe(o)
    BY <2>2 DEF ScalerAhead
  <2>4. PipeHolds(o) /\ {"task", "kind"} \subseteq DOMAIN o
        /\ TransformerUpdate(o.kind, o.transformer, x).ok \in BOOLEAN
    BY <2>3, ScalerTakes DEF ScalerPipe
  <2> HIDE DEF r, x, target, n
  <2>5. Piped(r, o, x, Unit)
    BY <2>1, <2>4, PipelineLearns
  <2>6. ScalerAhead(r.state, k)
    BY <1>1, <2>2, <2>5, ScalerAheadStep
  <2>7. r.ok \in BOOLEAN
    BY <2>5 DEF Piped
  <2> HIDE DEF k, m, b
  <2> QED
    BY <1>1, <1>3, <2>6, <2>7 DEF PipeInv
<1>4. CASE kind = "plain_imputed"
  <2>1. r = PipelineLearn(o, x, target)
    BY <1>4 DEF LearnPipe
  <2>2. ImputerAhead(o, n)
    BY <1>4 DEF PipeInv
  <2>4. PipeHolds(o) /\ {"task", "kind"} \subseteq DOMAIN o
        /\ TransformerUpdate(o.kind, o.transformer, x).ok \in BOOLEAN
    BY <2>2, ImputerTakes DEF ImputerAhead
  <2> HIDE DEF r, x, target, n
  <2>5. Piped(r, o, x, Unit)
    BY <2>1, <2>4, PipelineLearns
  <2>6. ImputerAhead(r.state, k)
    BY <1>1, <2>2, <2>5, ImputerAheadStep
  <2>7. r.ok \in BOOLEAN
    BY <2>5 DEF Piped
  <2> HIDE DEF k, m, b
  <2> QED
    BY <1>1, <1>4, <2>6, <2>7 DEF PipeInv
<1>5. CASE kind \in {"transactional", "classification"}
  <2> DEFINE s == PipelineLearn(o, x, target)
  <2>1. r = Transactional(o, s)
    BY <1>5 DEF LearnPipe, PipelineLearnTransactional
  <2>2. AllOrNothing(o, n)
    BY <1>5 DEF PipeInv
  <2>3. ScalerPipe(o)
    BY <2>2 DEF AllOrNothing
  <2>4. PipeHolds(o) /\ {"task", "kind"} \subseteq DOMAIN o
        /\ TransformerUpdate(o.kind, o.transformer, x).ok \in BOOLEAN
    BY <2>3, ScalerTakes DEF ScalerPipe
  <2> HIDE DEF r, x, target, n
  <2>5. Piped(s, o, x, Unit)
    BY <2>4, PipelineLearns
  <2> HIDE DEF s
  <2>6. Piped(r, o, x, Unit) /\ (~r.ok => r.state = o)
    BY <2>1, <2>4, <2>5, TransactionalLearns
  <2>7. AllOrNothing(r.state, k)
    BY <1>1, <1>2, <2>2, <2>6, AllOrNothingStep
  <2>8. r.ok \in BOOLEAN
    BY <2>6 DEF Piped
  <2> HIDE DEF k, m, b
  <2> QED
    BY <1>1, <1>5, <2>7, <2>8 DEF PipeInv
<1>6. CASE kind = "weighted"
  <2> DEFINE w == Weighty(l)
  <2>1. r = PipelineLearnWeighted(o, x, target, weight)
    BY <1>6 DEF LearnPipe
  <2>2. AllOrNothing(o, w)
    BY <1>6 DEF PipeInv
  <2>3. ScalerPipe(o)
    BY <2>2 DEF AllOrNothing
  <2>4. PipeHolds(o) /\ {"task", "kind"} \subseteq DOMAIN o
        /\ TransformerUpdate(o.kind, o.transformer, x).ok \in BOOLEAN
    BY <2>3, ScalerTakes DEF ScalerPipe
  <2>5. w \in Nat /\ Weighty(Append(l, input)) = IF weight = 0 THEN w ELSE w + 1
    BY WeightyAppend
  <2>6. Weighty(m) = IF r.ok /\ weight # 0 THEN w + 1 ELSE w
    <3> HIDE DEF r, w, weight
    <3> QED
      BY <2>5 DEF w
  <2> HIDE DEF r, x, target, weight, n, w
  <2>7. /\ r.ok \in BOOLEAN
        /\ ~r.ok \/ weight = 0 => r.state = o
        /\ r.ok /\ weight # 0 => Piped(r, o, x, weight)
    BY <2>1, <2>4, WeightedLearns
  <2>8. CASE r.ok /\ weight # 0
    <3>1. AllOrNothing(r.state, IF r.ok THEN w + 1 ELSE w)
      BY <2>2, <2>5, <2>7, <2>8, AllOrNothingStep
    <3>2. AllOrNothing(r.state, Weighty(m))
      BY <2>6, <2>8, <3>1
    <3> HIDE DEF k, m, b
    <3> QED
      BY <1>6, <2>7, <3>2 DEF PipeInv
  <2>9. CASE ~r.ok \/ weight = 0
    <3>1. r.state = o /\ Weighty(m) = w
      BY <2>6, <2>7, <2>9
    <3> HIDE DEF k, m, b
    <3> QED
      BY <1>6, <2>2, <2>7, <3>1 DEF PipeInv
  <2> QED
    BY <2>7, <2>8, <2>9
<1>7. CASE kind = "evaluation"
  <2>1. r = EvaluateRegression(o, x, target)
    BY <1>7 DEF LearnPipe
  <2>2. Evaluation(o, n, a) /\ a # "refused"
    BY <1>7 DEF PipeInv
  <2> HIDE DEF r, x, target, n
  <2>3. r.ok \in BOOLEAN /\ Evaluation(r.state, k, b)
    BY <1>1, <2>1, <2>2, EvaluationStep
  <2> HIDE DEF k, m, b
  <2> QED
    BY <1>1, <1>7, <2>3 DEF PipeInv
<1> QED
  BY <1>3, <1>4, <1>5, <1>6, <1>7, Zenon DEF Pipes

-----------------------------------------------------------------------------
(* The steps of Learning: what is not done to objects of a kind.           *)

\* The kinds of the calls are apart.
LEMMA KindsApart ==
    ASSUME NEW kind
    PROVE  /\ kind \in Models => kind \notin Transformers \cup Pipes \cup Players \cup {"replay", "handles"}
           /\ kind \in Transformers => kind \notin Models \cup Pipes \cup Players \cup {"replay", "handles"}
           /\ kind \in Pipes => kind \notin Models \cup Transformers \cup Players \cup {"replay", "handles"}
           /\ kind \in Players => kind \notin Models \cup Transformers \cup Pipes \cup {"replay", "handles"}
           /\ kind = "handles" => kind \notin Models \cup Transformers \cup Pipes \cup Players \cup {"replay"}
BY DEF Models, Transformers, Pipes, Players

HandleStep ==
    CreateHandle \/ LearnOnHandle \/ ReadHandle \/ CopyHandle \/ DestroyHandle

\* A stream never changes, and its kind says which calls are made.
LEMMA StepsByKind ==
    ASSUME LearningNext
    PROVE  /\ stream' = stream
           /\ stream.kind \in Pipes => LearnThrough
           /\ stream.kind \in Players => Play
           /\ stream.kind = "handles" => HandleStep
<1>1. CASE Learn
  <2>1. stream.kind \in Models /\ stream' = stream
    BY <1>1, Zenon DEF Learn, MayFeed, Took
  <2> QED
    BY <2>1, KindsApart
<1>2. CASE Fit
  <2>1. stream.kind \in Transformers /\ stream' = stream
    BY <1>2, Zenon DEF Fit, MayFeed, Took
  <2> QED
    BY <2>1, KindsApart
<1>3. CASE LearnThrough
  <2>1. stream.kind \in Pipes /\ stream' = stream
    BY <1>3, Zenon DEF LearnThrough, MayFeed, Took
  <2> QED
    BY <1>3, <2>1, KindsApart
<1>4. CASE Play
  <2>1. stream.kind \in Players /\ stream' = stream
    BY <1>4, Zenon DEF Play, MayFeed, Took
  <2> QED
    BY <1>4, <2>1, KindsApart
<1>5. CASE ReplayChunk
  <2>1. stream.kind = "replay" /\ stream' = stream
    BY <1>5, Zenon DEF ReplayChunk, MayFeed, Took
  <2> QED
    BY <2>1, KindsApart
<1>6. CASE HandleStep
  <2>1. stream.kind = "handles" /\ stream' = stream
    <3>1. CreateHandle => stream.kind \in {"handles"} /\ stream' = stream
      BY Zenon DEF CreateHandle, MayFeed
    <3>2. LearnOnHandle => stream.kind \in {"handles"} /\ stream' = stream
      BY Zenon DEF LearnOnHandle, MayFeed, Called
    <3>3. ReadHandle => stream.kind \in {"handles"} /\ stream' = stream
      BY DEF ReadHandle, Called
    <3>4. CopyHandle => stream.kind \in {"handles"} /\ stream' = stream
      BY Zenon DEF CopyHandle, MayFeed, Called
    <3>5. DestroyHandle => stream.kind \in {"handles"} /\ stream' = stream
      BY DEF DestroyHandle
    <3> QED
      BY <1>6, <3>1, <3>2, <3>3, <3>4, <3>5 DEF HandleStep
  <2> QED
    BY <1>6, <2>1, KindsApart
<1> QED
  BY <1>1, <1>2, <1>3, <1>4, <1>5, <1>6, Zenon DEF LearningNext, HandleStep

LEMMA StagesInit == LearningInit => StagesInv
<1> SUFFICES ASSUME LearningInit, stream.kind \in Pipes
             PROVE  log \in Seq(stream.inputs) /\ PipeInv(stream.kind, object, log, answer)
  BY DEF StagesInv
<1>1. object = New(stream.kind) /\ log = <<>> /\ answer = "new"
  BY DEF LearningInit
<1>2. New(stream.kind) = NewPipe(stream.kind)
  BY KindsApart DEF New
<1>3. PipeInv(stream.kind, NewPipe(stream.kind), <<>>, "new")
  BY NewPipeHolds
<1> QED
  BY <1>1, <1>2, <1>3

LEMMA StagesStep == StagesInv /\ [LearningNext]_vars => StagesInv'
<1> SUFFICES ASSUME StagesInv, [LearningNext]_vars, stream'.kind \in Pipes
             PROVE  log' \in Seq(stream'.inputs) /\ PipeInv(stream'.kind, object', log', answer')
  BY DEF StagesInv
<1>1. CASE UNCHANGED vars
  BY <1>1 DEF vars, StagesInv
<1>2. CASE LearningNext
  <2>1. stream' = stream /\ LearnThrough
    BY <1>2, StepsByKind
  <2>2. log \in Seq(stream.inputs) /\ PipeInv(stream.kind, object, log, answer) /\ stream.kind \in Pipes
    BY <2>1 DEF StagesInv
  <2>3. PICK input \in stream.inputs : Took(LearnPipe(stream.kind, object, input), input)
    BY <2>1 DEF LearnThrough
  <2>4. stream.kind = "evaluation" => answer # "refused"
    BY <2>1 DEF LearnThrough
  <2> DEFINE r == LearnPipe(stream.kind, object, input)
  <2>5. /\ object' = r.state
        /\ log' = IF r.ok THEN Append(log, input) ELSE log
        /\ answer' = IF r.ok THEN "taken" ELSE "refused"
    BY <2>3 DEF Took
  <2>6. PipeInv(stream.kind, r.state, IF r.ok THEN Append(log, input) ELSE log,
                IF r.ok THEN "taken" ELSE "refused")
    BY <2>2, <2>4, PipeStep
  <2> HIDE DEF r
  <2>7. log' \in Seq(stream.inputs)
    <3>1. Append(log, input) \in Seq(stream.inputs)
      BY <2>2
    <3> QED
      BY <2>2, <2>5, <3>1
  <2> QED
    BY <2>1, <2>5, <2>6, <2>7
<1> QED
  BY <1>1, <1>2

LEMMA StagesFollow == StagesInv => StagesAgree
<1> SUFFICES ASSUME StagesInv
             PROVE  StagesAgree
  OBVIOUS
<1>1. CASE stream.kind \notin Pipes
  BY <1>1 DEF StagesAgree, Pipes
<1>2. CASE stream.kind \in Pipes
  <2>1. PipeInv(stream.kind, object, log, answer)
    BY <1>2 DEF StagesInv
  <2>2. CASE stream.kind \in {"transactional", "classification"}
    <3>1. AllOrNothing(object, Len(log))
      BY <2>1, <2>2 DEF PipeInv
    <3> QED
      BY <2>2, <3>1 DEF StagesAgree, AllOrNothing
  <2>3. CASE stream.kind = "weighted"
    <3>1. AllOrNothing(object, Weighty(log))
      BY <2>1, <2>3 DEF PipeInv
    <3> QED
      BY <2>3, <3>1 DEF StagesAgree, AllOrNothing, Weighty
  <2>4. CASE stream.kind = "plain"
    <3>1. ScalerAhead(object, Len(log))
      BY <2>1, <2>4 DEF PipeInv
    <3> QED
      BY <2>4, <3>1 DEF StagesAgree, ScalerAhead
  <2>5. CASE stream.kind = "plain_imputed"
    <3>1. ImputerAhead(object, Len(log))
      BY <2>1, <2>5 DEF PipeInv
    <3> QED
      BY <2>5, <3>1 DEF StagesAgree, ImputerAhead
  <2>6. CASE stream.kind = "evaluation"
    <3>1. Evaluation(object, Len(log), answer)
      BY <2>1, <2>6 DEF PipeInv
    <3> QED
      BY <2>6, <3>1 DEF StagesAgree, Evaluation, ScalerAhead
  <2> QED
    BY <1>2, <2>2, <2>3, <2>4, <2>5, <2>6, Zenon DEF Pipes
<1> QED
  BY <1>1, <1>2

\* The stages of a pipeline have learned from the same samples, whatever was
\* refused in any of them, with or without weight.
THEOREM PipelineStagesAgree == LearningSpec => []StagesAgree
<1> QED
  BY StagesInit, StagesStep, StagesFollow, PTL DEF LearningSpec

-----------------------------------------------------------------------------
(* Ucb1.                                                                   *)

ArmsPulled(b) ==
    /\ {"pulls", "rewards", "samples"} \subseteq DOMAIN b
    /\ b.pulls \in [Arms -> Nat]
    /\ (\E a \in Arms : b.pulls[a] > 1) => \A a \in Arms : b.pulls[a] > 0

UcbInv == stream.kind = "ucb" => ArmsPulled(object)

\* The arm that select chose is rewarded, or none is.
LEMMA UcbStep ==
    ASSUME NEW b, ArmsPulled(b), NEW arm \in UcbSelect(b), NEW reward
    PROVE  ArmsPulled(UcbUpdate(b, arm, reward).state)
<1> DEFINE next == UcbUpdate(b, arm, reward).state
<1> DEFINE total == FAdd(b.rewards[arm], reward)
<1> DEFINE rewarded == [b EXCEPT !.pulls[arm] = @ + 1, !.rewards[arm] = total, !.samples = @ + 1]
<1>1. /\ {"pulls", "rewards", "samples"} \subseteq DOMAIN b
      /\ b.pulls \in [Arms -> Nat]
      /\ (\E a \in Arms : b.pulls[a] > 1) => \A a \in Arms : b.pulls[a] > 0
  BY DEF ArmsPulled
<1>2. next = b \/ (next = rewarded /\ arm \in Arms)
  BY Zenon DEF UcbUpdate, CanReward, Rewarded, Done, Refused
<1>3. (\A a \in Arms : b.pulls[a] # 0) \/ b.pulls[arm] = 0
  BY DEF UcbSelect
<1> DEFINE pulls == [b.pulls EXCEPT ![arm] = @ + 1]
<1> DEFINE first == [b EXCEPT !.pulls = pulls]
<1>4. rewarded = [first EXCEPT !.rewards = [b.rewards EXCEPT ![arm] = total], !.samples = b.samples + 1]
  BY <1>1
<1> HIDE DEF next, rewarded, total
<1>5. CASE next = b
  BY <1>5 DEF next
<1>6. CASE next = rewarded /\ arm \in Arms
  <2>1. {"pulls", "rewards", "samples"} \subseteq DOMAIN rewarded /\ rewarded.pulls = pulls
    <3>1. DOMAIN first = DOMAIN b /\ first.pulls = pulls
      BY <1>1
    <3> HIDE DEF first, pulls
    <3> QED
      BY <1>1, <1>4, <3>1
  <2>2. pulls \in [Arms -> Nat]
    BY <1>1, <1>6
  <2>3. pulls[arm] = b.pulls[arm] + 1 /\ \A a \in Arms : a # arm => pulls[a] = b.pulls[a]
    BY <1>1, <1>6
  <2> HIDE DEF pulls
  <2>4. (\E a \in Arms : pulls[a] > 1) => \A a \in Arms : pulls[a] > 0
    BY <1>1, <1>3, <1>6, <2>2, <2>3
  <2>5. ArmsPulled(rewarded)
    BY <2>1, <2>2, <2>4 DEF ArmsPulled
  <2> QED
    BY <1>6, <2>5 DEF next
<1> QED
  BY <1>2, <1>5, <1>6

LEMMA UcbInit == LearningInit => UcbInv
<1> SUFFICES ASSUME LearningInit, stream.kind = "ucb"
             PROVE  ArmsPulled(object)
  BY DEF UcbInv
<1>1. object = New("ucb")
  BY DEF LearningInit
<1>2. New("ucb") = NewBandit("ucb")
  BY DEF New, Models, Transformers, Pipes, Players
<1>3. NewBandit("ucb") = NewArms
  BY DEF NewBandit
<1>4. ArmsPulled(NewArms)
  BY DEF ArmsPulled, NewArms
<1> QED
  BY <1>1, <1>2, <1>3, <1>4

LEMMA UcbNext == UcbInv /\ [LearningNext]_vars => UcbInv'
<1> SUFFICES ASSUME UcbInv, [LearningNext]_vars, stream'.kind = "ucb"
             PROVE  ArmsPulled(object')
  BY DEF UcbInv
<1>1. CASE UNCHANGED vars
  BY <1>1 DEF vars, UcbInv
<1>2. CASE LearningNext
  <2>1. "ucb" \in Players
    BY DEF Players
  <2>2. stream' = stream /\ Play
    BY <1>2, <2>1, StepsByKind
  <2>3. stream.kind = "ucb" /\ ArmsPulled(object)
    BY <2>2 DEF UcbInv
  <2>4. PICK input \in stream.inputs :
            input[1] \in Selected("ucb", object) /\ Took(UpdateBandit("ucb", object, input), input)
    BY <2>2, <2>3 DEF Play
  <2>5. Selected("ucb", object) = UcbSelect(object)
    BY DEF Selected
  <2>6. UpdateBandit("ucb", object, input) = UcbUpdate(object, input[1], input[2])
    BY DEF UpdateBandit
  <2>7. object' = UcbUpdate(object, input[1], input[2]).state
    BY <2>4, <2>6 DEF Took
  <2> QED
    BY <2>3, <2>4, <2>5, <2>7, UcbStep
<1> QED
  BY <1>1, <1>2

LEMMA UcbFollows == UcbInv => ExplorationIsComplete
BY DEF UcbInv, ArmsPulled, ExplorationIsComplete

\* Ucb1 pulls every arm once before it pulls one again, whatever rewards are
\* refused in between.
THEOREM ArmsAreExplored == LearningSpec => []ExplorationIsComplete
<1> QED
  BY UcbInit, UcbNext, UcbFollows, PTL DEF LearningSpec

-----------------------------------------------------------------------------
(* The C interface: what a call does to the object behind its handle.      *)

\* An object of a type that has learned from n calls and was refused k. The scaler
\* of a pipeline has learned from the n and may have from some of the k.
ObjectHolds(type, b, n, k) ==
    /\ n \in Nat /\ k \in Nat
    /\ type = "mean" => b.count = n
    /\ type \in {"linear", "logistic"} => ModelHolds(b) /\ b.samples = n
    /\ type = "scaler" => b.counts[1] = n
    /\ type \in PipelineTypes =>
          ScalerPipe(b) /\ b.model.samples = n /\ b.transformer.counts[1] \in n..(n + k)

\* What n calls of a kind have come to with one that was answered with this code.
Another(code, n, answered) == IF code = answered THEN n + 1 ELSE n

\* An answer with an object for which the call counts as what was answered.
Counted(a, type, n, k) ==
    /\ {"code", "object"} \subseteq DOMAIN a
    /\ ObjectHolds(type, a.object, Another("ok", n, a.code), Another("refused", k, a.code))

LEMMA FailureCounted ==
    ASSUME NEW type, NEW n, NEW k, NEW b, ObjectHolds(type, b, n, k)
    PROVE  Counted(Failed("invalid_argument", b), type, n, k)
BY DEF Counted, Failed, Answer, Another

LEMMA LibraryCounted ==
    ASSUME NEW type, NEW n, NEW k, NEW r, r.ok \in BOOLEAN,
           ObjectHolds(type, r.state, IF r.ok THEN n + 1 ELSE n, IF r.ok THEN k ELSE k + 1)
    PROVE  Counted(FromLibrary(r), type, n, k)
<1>1. CASE r.ok
  <2>1. FromLibrary(r) = [code |-> "ok", object |-> r.state, written |-> NullPointer]
    BY <1>1 DEF FromLibrary, Answer
  <2> QED
    BY <1>1, <2>1 DEF Counted, Another
<1>2. CASE ~r.ok
  <2>1. FromLibrary(r) = [code |-> "refused", object |-> r.state, written |-> NullPointer]
    BY <1>2 DEF FromLibrary, Failed, Answer
  <2> QED
    BY <1>2, <2>1 DEF Counted, Another
<1> QED
  BY <1>1, <1>2

LEMMA MeanCounted ==
    ASSUME NEW n, NEW k, NEW b, ObjectHolds("mean", b, n, k), NEW target
    PROVE  Counted(FromLibrary(MeanUpdate(b, target)), "mean", n, k)
<1> DEFINE r == MeanUpdate(b, target)
<1>1. b.count = n /\ n \in Nat /\ k \in Nat
  BY DEF ObjectHolds
<1>2. r = Refused(b) \/ r = Done([count |-> b.count + 1, mean |-> NextMean(b, target)])
  BY Zenon DEF MeanUpdate
<1> HIDE DEF r
<1>3. r.ok \in BOOLEAN /\ r.state.count = IF r.ok THEN n + 1 ELSE n
  <2>1. CASE r = Refused(b)
    <3>1. r = [ok |-> FALSE, state |-> b]
      BY <2>1 DEF Refused
    <3> QED
      BY <1>1, <3>1
  <2>2. CASE r = Done([count |-> b.count + 1, mean |-> NextMean(b, target)])
    <3>1. r = [ok |-> TRUE, state |-> [count |-> b.count + 1, mean |-> NextMean(b, target)]]
      BY <2>2 DEF Done
    <3> QED
      BY <1>1, <3>1
  <2> QED
    BY <1>2, <2>1, <2>2
<1>4. ObjectHolds("mean", r.state, IF r.ok THEN n + 1 ELSE n, IF r.ok THEN k ELSE k + 1)
  BY <1>1, <1>3 DEF ObjectHolds, PipelineTypes
<1>5. Counted(FromLibrary(r), "mean", n, k)
  BY <1>3, <1>4, LibraryCounted
<1> QED
  BY <1>5 DEF r

LEMMA ScalerCounted ==
    ASSUME NEW n, NEW k, NEW b, ObjectHolds("scaler", b, n, k), NEW x
    PROVE  Counted(FromLibrary(ScalerUpdate(b, x)), "scaler", n, k)
<1> DEFINE r == ScalerUpdate(b, x)
<1>1. b.counts[1] = n /\ n \in Nat /\ k \in Nat
  BY DEF ObjectHolds
<1>2. r = Refused(b) \/ (r.ok = TRUE /\ r.state.counts = [i \in Features |-> b.counts[i] + 1])
  BY ScalerCounts
<1> HIDE DEF r
<1>3. r.ok \in BOOLEAN /\ r.state.counts[1] = IF r.ok THEN n + 1 ELSE n
  <2>1. CASE r = Refused(b)
    <3>1. r = [ok |-> FALSE, state |-> b]
      BY <2>1 DEF Refused
    <3> QED
      BY <1>1, <3>1
  <2>2. CASE r.ok = TRUE /\ r.state.counts = [i \in Features |-> b.counts[i] + 1]
    BY <1>1, <2>2, OneIsAFeature
  <2> QED
    BY <1>2, <2>1, <2>2
<1>4. ObjectHolds("scaler", r.state, IF r.ok THEN n + 1 ELSE n, IF r.ok THEN k ELSE k + 1)
  BY <1>1, <1>3 DEF ObjectHolds, PipelineTypes
<1>5. Counted(FromLibrary(r), "scaler", n, k)
  BY <1>3, <1>4, LibraryCounted
<1> QED
  BY <1>5 DEF r

LEMMA ModelCounted ==
    ASSUME NEW type \in {"linear", "logistic"}, NEW n, NEW k, NEW b, ObjectHolds(type, b, n, k),
           NEW r, Learns(r, b, Unit)
    PROVE  Counted(FromLibrary(r), type, n, k)
<1>1. ModelHolds(b) /\ b.samples = n /\ n \in Nat /\ k \in Nat
  BY DEF ObjectHolds
<1>2. Unit # 0
  BY FormatAssumption
<1>3. r.ok \in BOOLEAN /\ ModelHolds(r.state) /\ r.state.samples = IF r.ok THEN n + 1 ELSE n
  BY <1>1, <1>2 DEF Learns
<1>4. ObjectHolds(type, r.state, IF r.ok THEN n + 1 ELSE n, IF r.ok THEN k ELSE k + 1)
  BY <1>1, <1>3 DEF ObjectHolds, PipelineTypes
<1> QED
  BY <1>3, <1>4, LibraryCounted

LEMMA PipelineCounted ==
    ASSUME NEW type \in PipelineTypes, NEW n, NEW k, NEW b, ObjectHolds(type, b, n, k), NEW x, NEW target
    PROVE  Counted(FromLibrary(PipelineLearn(b, x, target)), type, n, k)
<1> DEFINE r == PipelineLearn(b, x, target)
<1> DEFINE u == TransformerUpdate(b.kind, b.transformer, x)
<1>1. /\ ScalerPipe(b) /\ b.model.samples = n /\ n \in Nat /\ k \in Nat
      /\ b.transformer.counts[1] \in n..(n + k)
  BY DEF ObjectHolds
<1>2. /\ u.ok \in BOOLEAN
      /\ ~u.ok => u.state = b.transformer
      /\ u.ok => u.state.counts = [i \in Features |-> b.transformer.counts[i] + 1]
  BY <1>1, ScalerTakes
<1>3. PipeHolds(b) /\ {"task", "kind"} \subseteq DOMAIN b
  BY <1>1 DEF ScalerPipe
<1>4. Piped(r, b, x, Unit)
  BY <1>2, <1>3, PipelineLearns
<1> HIDE DEF r
<1>5. Learns([ok |-> r.ok, state |-> r.state.model], b.model, Unit) /\ r.ok \in BOOLEAN
  BY <1>4 DEF Piped
<1>6. Unit # 0
  BY FormatAssumption
<1>7. r.state.model.samples = (IF r.ok THEN n + 1 ELSE n) /\ ModelHolds(r.state.model)
  BY <1>1, <1>5, <1>6 DEF Learns
<1>8. ScalerPipe(r.state)
  BY <1>1, <1>4, <1>7 DEF ScalerPipe, PipeHolds, Piped
<1>9. /\ r.state.transformer \in {b.transformer, u.state}
      /\ r.ok => u.ok /\ r.state.transformer = u.state
  BY <1>4 DEF Piped
<1> HIDE DEF u
<1>10. u.ok => u.state.counts[1] = b.transformer.counts[1] + 1
  BY <1>2, OneIsAFeature
<1>11. r.state.transformer.counts[1] \in
          (IF r.ok THEN n + 1 ELSE n)..((IF r.ok THEN n + 1 ELSE n) + (IF r.ok THEN k ELSE k + 1))
  <2> DEFINE c == b.transformer.counts[1]
  <2> DEFINE d == r.state.transformer.counts[1]
  <2>1. (r.ok => d = c + 1) /\ d \in {c, c + 1}
    BY <1>2, <1>9, <1>10
  <2>2. c \in n..(n + k)
    BY <1>1
  <2> HIDE DEF c, d
  <2>3. d \in (IF r.ok THEN n + 1 ELSE n)..((IF r.ok THEN n + 1 ELSE n) + (IF r.ok THEN k ELSE k + 1))
    BY <1>1, <1>5, <2>1, <2>2
  <2> QED
    BY <2>3 DEF d
<1>12. ObjectHolds(type, r.state, IF r.ok THEN n + 1 ELSE n, IF r.ok THEN k ELSE k + 1)
  BY <1>1, <1>5, <1>7, <1>8, <1>11 DEF ObjectHolds, PipelineTypes
<1>13. Counted(FromLibrary(r), type, n, k)
  BY <1>5, <1>12, LibraryCounted
<1> QED
  BY <1>13 DEF r

\* Every learning call, whatever is passed to it.
LEMMA LearnCounted ==
    ASSUME NEW type \in HandleTypes, NEW n, NEW k, NEW b, ObjectHolds(type, b, n, k), NEW x, NEW target
    PROVE  Counted(LearnCall(type, b, x, target), type, n, k)
<1> DEFINE a == LearnCall(type, b, x, target)
<1>1. Counted(Failed("invalid_argument", b), type, n, k)
  BY FailureCounted
<1>2. CASE type = "mean"
  <2>1. a = FromLibrary(MeanUpdate(b, target))
    BY <1>2 DEF LearnCall
  <2> QED
    BY <1>2, <2>1, MeanCounted
<1>3. CASE type = "linear"
  <2> DEFINE r == LinearLearn("squared", b, x, target, Unit)
  <2>1. a = FromLibrary(r) \/ a = Failed("invalid_argument", b)
    BY <1>3 DEF LearnCall, LinearRegressionLearn, WithFeatures
  <2>2. ModelHolds(b)
    BY <1>3 DEF ObjectHolds
  <2>3. Learns(r, b, Unit)
    BY <2>2, LinearLearns
  <2> HIDE DEF r, a
  <2>4. Counted(FromLibrary(r), type, n, k)
    BY <1>3, <2>3, ModelCounted
  <2> QED
    BY <1>1, <2>1, <2>4 DEF a
<1>4. CASE type = "logistic"
  <2> DEFINE r == LogisticLearn(b, x, target = 1, Unit)
  <2>1. a = FromLibrary(r) \/ a = Failed("invalid_argument", b)
    BY <1>4 DEF LearnCall, LogisticRegressionLearn, WithFeatures
  <2>2. ModelHolds(b)
    BY <1>4 DEF ObjectHolds
  <2>3. Learns(r, b, Unit)
    BY <2>2, LogisticLearns
  <2> HIDE DEF r, a
  <2>4. Counted(FromLibrary(r), type, n, k)
    BY <1>4, <2>3, ModelCounted
  <2> QED
    BY <1>1, <2>1, <2>4 DEF a
<1>5. CASE type = "scaler"
  <2>1. a = FromLibrary(ScalerUpdate(b, x)) \/ a = Failed("invalid_argument", b)
    BY <1>5 DEF LearnCall, ScalerLearn, WithFeatures
  <2>2. Counted(FromLibrary(ScalerUpdate(b, x)), type, n, k)
    BY <1>5, ScalerCounted
  <2> HIDE DEF a
  <2> QED
    BY <1>1, <2>1, <2>2 DEF a
<1>6. CASE type = "regression_pipeline"
  <2>1. a = FromLibrary(PipelineLearn(b, x, target)) \/ a = Failed("invalid_argument", b)
    BY <1>6 DEF LearnCall, RegressionPipelineLearn, WithFeatures
  <2>2. Counted(FromLibrary(PipelineLearn(b, x, target)), type, n, k)
    BY <1>6, PipelineCounted DEF PipelineTypes
  <2> HIDE DEF a
  <2> QED
    BY <1>1, <2>1, <2>2 DEF a
<1>7. CASE type = "classification_pipeline"
  <2>1. a = FromLibrary(PipelineLearn(b, x, target = 1)) \/ a = Failed("invalid_argument", b)
    BY <1>7 DEF LearnCall, ClassificationPipelineLearn, WithFeatures
  <2>2. Counted(FromLibrary(PipelineLearn(b, x, target = 1)), type, n, k)
    BY <1>7, PipelineCounted DEF PipelineTypes
  <2> HIDE DEF a
  <2> QED
    BY <1>1, <2>1, <2>2 DEF a
<1> QED
  BY <1>2, <1>3, <1>4, <1>5, <1>6, <1>7 DEF HandleTypes

\* A new object has counted nothing.
LEMMA NewObjectHolds ==
    ASSUME NEW type \in HandleTypes
    PROVE  ObjectHolds(type, NewObject(type), 0, 0)
<1>1. CASE type = "mean"
  BY <1>1 DEF NewObject, ObjectHolds, PipelineTypes, NewMean
<1>2. CASE type \in {"linear", "logistic"}
  <2>1. NewObject(type) = NewLinear("sgd")
    BY <1>2 DEF NewObject
  <2>2. ModelHolds(NewLinear("sgd")) /\ NewLinear("sgd").samples = 0
    BY DEF ModelHolds, NewLinear
  <2> QED
    BY <1>2, <2>1, <2>2 DEF ObjectHolds, PipelineTypes
<1>3. CASE type = "scaler"
  <2>1. NewObject(type) = NewScaler
    BY <1>3 DEF NewObject
  <2>2. NewScaler.counts[1] = 0
    BY OneIsAFeature DEF NewScaler, PerFeature
  <2> QED
    BY <1>3, <2>1, <2>2 DEF ObjectHolds, PipelineTypes
<1>4. CASE type \in PipelineTypes
  <2>1. PICK task : NewObject(type) = NewPipeline(task, "scaler")
    BY <1>4 DEF NewObject, PipelineTypes
  <2>2. AllOrNothing(NewPipeline(task, "scaler"), 0)
    BY NewPipelineHolds
  <2>3. PerFeature(0)[1] = 0
    BY OneIsAFeature DEF PerFeature
  <2> DEFINE p == NewPipeline(task, "scaler")
  <2> HIDE DEF p
  <2>4. ScalerPipe(p) /\ p.model.samples = 0 /\ p.transformer.counts[1] = 0
    BY <2>2, <2>3 DEF AllOrNothing, p
  <2>5. ObjectHolds(type, p, 0, 0)
    BY <1>4, <2>4 DEF ObjectHolds, PipelineTypes
  <2> QED
    BY <2>1, <2>5 DEF p
<1> QED
  BY <1>1, <1>2, <1>3, <1>4 DEF HandleTypes, PipelineTypes

\* Reading leaves the object as it was.
IsReadOf(a, b) == {"code", "object"} \subseteq DOMAIN a /\ a.object = b

LEMMA WrittenReads ==
    ASSUME NEW b, NEW hasOut, NEW value
    PROVE  IsReadOf(Stored(b, hasOut, value), b) /\ IsReadOf(Written(b, hasOut, value), b)
BY DEF Written, Stored, Failed, Answer, IsReadOf

LEMMA ModelReads ==
    ASSUME NEW b, NEW call, NEW prediction,
           call.name \in {"predict", "weights", "intercept", "samples_seen"}
    PROVE  IsReadOf(ModelRead(b, call, prediction), b)
<1>1. IsReadOf(WithFeatures(b, call.x, Written(b, call.hasOut, prediction)), b)
  BY WrittenReads DEF WithFeatures, Failed, Answer, IsReadOf
<1>2. IsReadOf(CopyWeights(b, b.weights, call.hasOut, call.capacity), b)
  BY DEF CopyWeights, Failed, Answer, IsReadOf
<1>3. IsReadOf(Stored(b, call.hasOut, b.intercept), b)
  BY WrittenReads
<1>4. IsReadOf(Stored(b, call.hasOut, b.samples), b)
  BY WrittenReads
<1> HIDE DEF IsReadOf
<1> QED
  BY <1>1, <1>2, <1>3, <1>4 DEF ModelRead

LEMMA ReadReads ==
    ASSUME NEW type \in HandleTypes, NEW b, NEW call,
           \/ call.name \in {"predict", "samples_seen"}
           \/ type \in {"linear", "logistic"} /\ call.name \in {"weights", "intercept"}
    PROVE  IsReadOf(ReadCall(type, b, call), b)
<1>1. CASE type = "mean"
  <2>1. ReadCall(type, b, call) = MeanRead(b, call)
    BY <1>1 DEF ReadCall
  <2> QED
    BY <2>1, WrittenReads DEF MeanRead
<1>2. CASE type = "linear"
  <2>1. ReadCall(type, b, call) = ModelRead(b, call, LinearPredict(b, call.x))
    BY <1>2 DEF ReadCall, LinearRegressionRead
  <2> QED
    BY <2>1, ModelReads
<1>3. CASE type = "logistic"
  <2> DEFINE value == LinearPredict(b, call.x)
  <2>1. ReadCall(type, b, call) = ModelRead(b, call, IF value = NaN THEN NaN ELSE Sigmoid(value))
    BY <1>3 DEF ReadCall, LogisticRegressionRead
  <2> HIDE DEF value
  <2> QED
    BY <2>1, ModelReads
<1>4. CASE type = "scaler"
  <2>1. ReadCall(type, b, call) = ScalerRead(b, call)
    BY <1>4 DEF ReadCall
  <2> DEFINE output == ScalerTransform(b, call.x)
  <2> DEFINE answer1 == IF ~call.hasOut THEN Failed("invalid_argument", b)
                        ELSE IF output.ok THEN Answer("ok", b, output.values) ELSE Failed("refused", b)
  <2>2. \/ ScalerRead(b, call) = Stored(b, call.hasOut, b.counts[1])
        \/ ScalerRead(b, call) = Failed("invalid_argument", b)
        \/ ScalerRead(b, call) = answer1
    BY DEF ScalerRead, WithFeatures
  <2>3. IsReadOf(answer1, b)
    <3> HIDE DEF output
    <3> QED
      BY DEF Failed, Answer, IsReadOf
  <2>4. IsReadOf(Failed("invalid_argument", b), b)
    BY DEF Failed, Answer, IsReadOf
  <2>5. IsReadOf(Stored(b, call.hasOut, b.counts[1]), b)
    BY WrittenReads
  <2> HIDE DEF answer1
  <2> QED
    BY <2>1, <2>2, <2>3, <2>4, <2>5
<1>5. CASE type \in {"regression_pipeline", "classification_pipeline"}
  <2>1. ReadCall(type, b, call) = PipelineRead(b, call)
    BY <1>5 DEF ReadCall
  <2> DEFINE value == PipelinePredict(b, call.x)
  <2>2. \/ PipelineRead(b, call) = Stored(b, call.hasOut, b.transformer.counts[1])
        \/ PipelineRead(b, call) = Failed("invalid_argument", b)
        \/ PipelineRead(b, call) = Written(b, call.hasOut, value)
    BY DEF PipelineRead, WithFeatures
  <2>3. IsReadOf(Failed("invalid_argument", b), b)
    BY DEF Failed, Answer, IsReadOf
  <2> HIDE DEF value
  <2>4. IsReadOf(Stored(b, call.hasOut, b.transformer.counts[1]), b) /\ IsReadOf(Written(b, call.hasOut, value), b)
    BY WrittenReads
  <2> QED
    BY <2>1, <2>2, <2>3, <2>4
<1> QED
  BY <1>1, <1>2, <1>3, <1>4, <1>5 DEF HandleTypes

\* What is behind a handle under whose name n calls are logged as OK and k as
\* refused: nothing, and no call, or an object that has learned from them.
HandleHolds(type, o, n, k) == IF o = NullHandle THEN n = 0 /\ k = 0 ELSE ObjectHolds(type, o[1], n, k)

\* The calls on a handle that were answered so.
Answered(h, code, l) == CallsOf(<<h, code>>, l)

Entries(I) == (Handles \X LibraryAnswers) \X I

HandlesHold(types, I, o, l) ==
    /\ l \in Seq(Entries(I))
    /\ o = [h \in Handles |-> o[h]]
    /\ \A h \in Handles : HandleHolds(types[h], o[h], Answered(h, "ok", l), Answered(h, "refused", l))

HandlesInv ==
    /\ stream \in Streams
    /\ stream.kind = "handles" => HandlesHold(stream.types, stream.inputs, object, log)

\* No entry is under a name of the handle.
NoneOf(h, entries) == \A code \in LibraryAnswers : Answered(h, code, entries) = 0

LEMMA AnsweredConcat ==
    ASSUME NEW I, NEW l \in Seq(Entries(I)), NEW m \in Seq(Entries(I)), NEW h, NEW code
    PROVE  /\ Answered(h, code, l \o m) = Answered(h, code, l) + Answered(h, code, m)
           /\ Answered(h, code, l) \in Nat
<1> DEFINE S == Entries(I)
<1>1. l \in Seq(S) /\ m \in Seq(S)
  OBVIOUS
<1> HIDE DEF S
<1>2. CallsOf(<<h, code>>, l \o m) = CallsOf(<<h, code>>, l) + CallsOf(<<h, code>>, m)
  BY <1>1, CallsConcat
<1>3. EntriesOf({<<h, code>>}, l) \in Seq(S)
  BY <1>1, EntriesType
<1>4. CallsOf(<<h, code>>, l) \in Nat
  BY <1>3 DEF CallsOf
<1> QED
  BY <1>2, <1>4 DEF Answered

\* A call on h that leaves h with what its logged calls come to.
LEMMA CalledHolds ==
    ASSUME NEW types, NEW I, NEW o, NEW l, HandlesHold(types, I, o, l), NEW h \in Handles,
           NEW v, NEW entries \in Seq(Entries(I)),
           \A g \in Handles \ {h} : NoneOf(g, entries),
           HandleHolds(types[h], v, Answered(h, "ok", l) + Answered(h, "ok", entries),
                                    Answered(h, "refused", l) + Answered(h, "refused", entries))
    PROVE  HandlesHold(types, I, [o EXCEPT ![h] = v], l \o entries)
<1> DEFINE p == [o EXCEPT ![h] = v]
<1> DEFINE m == l \o entries
<1> DEFINE Holds(g, a, k) == HandleHolds(types[g], a, Answered(g, "ok", k), Answered(g, "refused", k))
<1>1. /\ l \in Seq(Entries(I)) /\ o = [g \in Handles |-> o[g]]
      /\ \A g \in Handles : Holds(g, o[g], l)
  BY DEF HandlesHold
<1>2. p = [g \in Handles |-> p[g]] /\ p[h] = v /\ \A g \in Handles \ {h} : p[g] = o[g]
  BY <1>1
<1>3. m \in Seq(Entries(I))
  BY <1>1
<1>4. \A g, code : /\ Answered(g, code, m) = Answered(g, code, l) + Answered(g, code, entries)
                   /\ Answered(g, code, l) \in Nat
  BY <1>1, AnsweredConcat
<1> HIDE DEF p, m
<1>5. Holds(h, p[h], m)
  BY <1>2, <1>4
<1>6. ASSUME NEW g \in Handles \ {h}
      PROVE  Holds(g, p[g], m)
  <2>1. Answered(g, "ok", entries) = 0 /\ Answered(g, "refused", entries) = 0
    BY DEF NoneOf, LibraryAnswers
  <2>2. Answered(g, "ok", m) = Answered(g, "ok", l) /\ Answered(g, "refused", m) = Answered(g, "refused", l)
    BY <1>4, <2>1
  <2> QED
    BY <1>1, <1>2, <2>2
<1>7. \A g \in Handles : Holds(g, p[g], m)
  BY <1>5, <1>6
<1>8. HandlesHold(types, I, p, m)
  BY <1>2, <1>3, <1>7 DEF HandlesHold
<1> QED
  BY <1>8 DEF p, m

\* A borrowed handle: NULL is answered, an object takes the answer's place.
LEMMA BorrowedHolds ==
    ASSUME NEW type, NEW o, NEW n \in Nat, NEW k \in Nat, HandleHolds(type, o, n, k), NEW a,
           o # NullHandle => Counted(a, type, n, k),
           NEW b, b = Borrowed(o, a)
    PROVE  HandleHolds(type, b.object, Another("ok", n, b.code), Another("refused", k, b.code))
<1>1. CASE o = NullHandle
  <2>1. b = [code |-> "invalid_handle", object |-> NullHandle, written |-> NullPointer]
    BY <1>1 DEF Borrowed, Failed, Answer
  <2>2. n = 0 /\ k = 0
    BY <1>1 DEF HandleHolds
  <2> QED
    BY <2>1, <2>2 DEF HandleHolds, Another
<1>2. CASE o # NullHandle
  <2>1. b = [a EXCEPT !.object = Handle(@)] /\ {"code", "object"} \subseteq DOMAIN a
    BY <1>2 DEF Borrowed, Counted
  <2>2. b.object = Handle(a.object) /\ b.code = a.code
    BY <2>1
  <2>3. b.object # NullHandle /\ b.object[1] = a.object
    BY <2>2 DEF Handle, NullHandle
  <2>4. ObjectHolds(type, a.object, Another("ok", n, a.code), Another("refused", k, a.code))
    BY <1>2 DEF Counted
  <2> QED
    BY <2>2, <2>3, <2>4 DEF HandleHolds
<1> QED
  BY <1>1, <1>2

\* A borrowed handle that is read keeps its object.
LEMMA ReadBorrowed ==
    ASSUME NEW type, NEW o, NEW n, NEW k, HandleHolds(type, o, n, k), NEW a,
           o # NullHandle => IsReadOf(a, o[1]),
           NEW b, b = Borrowed(o, a)
    PROVE  HandleHolds(type, b.object, n, k)
<1>1. CASE o = NullHandle
  <2>1. b = [code |-> "invalid_handle", object |-> NullHandle, written |-> NullPointer]
    BY <1>1 DEF Borrowed, Failed, Answer
  <2> QED
    BY <1>1, <2>1
<1>2. CASE o # NullHandle
  <2>1. b = [a EXCEPT !.object = Handle(@)] /\ {"code", "object"} \subseteq DOMAIN a /\ a.object = o[1]
    BY <1>2 DEF Borrowed, IsReadOf
  <2>2. b.object = Handle(o[1])
    BY <2>1
  <2>3. b.object # NullHandle /\ b.object[1] = o[1]
    BY <2>2 DEF Handle, NullHandle
  <2> QED
    BY <1>2, <2>3 DEF HandleHolds
<1> QED
  BY <1>1, <1>2

LEMMA NoCalls == ASSUME NEW I PROVE <<>> \in Seq(Entries(I)) /\ \A g, code : Answered(g, code, <<>>) = 0
BY CallsOfNothing DEF Answered

\* What is logged of a call counts once, for its handle and its answer.
LEMMA OneCall ==
    ASSUME NEW h \in Handles, NEW I, NEW input \in I, NEW answered
    PROVE  /\ Logged(h, answered, input) \in Seq(Entries(I))
           /\ \A g : \A code \in LibraryAnswers :
                 Answered(g, code, Logged(h, answered, input)) = IF g = h /\ code = answered THEN 1 ELSE 0
<1> DEFINE name == <<h, answered>>
<1> DEFINE S == {<<name, input>>}
<1> DEFINE l == <<<<name, input>>>>
<1>1. CASE answered \notin LibraryAnswers
  <2>1. Logged(h, answered, input) = <<>>
    BY <1>1 DEF Logged
  <2> QED
    BY <1>1, <2>1, NoCalls
<1>2. CASE answered \in LibraryAnswers
  <2>1. Logged(h, answered, input) = l
    BY <1>2 DEF Logged
  <2>2. l \in Seq(Entries(I)) /\ l \in Seq(S) /\ Len(l) = 1 /\ \A e \in S : e[1] = name
    BY <1>2 DEF Entries
  <2> HIDE DEF S, l, name
  <2>3. ASSUME NEW m
        PROVE  CallsOf(m, l) = IF m = name THEN 1 ELSE 0
    <3>1. l \in Seq(S) /\ \A e \in S : e[1] = name
      BY <2>2
    <3>2. CallsOf(m, l) = IF m = name THEN Len(l) ELSE 0
      BY <3>1, CallsNamed
    <3> QED
      BY <2>2, <3>2
  <2>4. ASSUME NEW g, NEW code \in LibraryAnswers
        PROVE  Answered(g, code, l) = IF g = h /\ code = answered THEN 1 ELSE 0
    <3>1. <<g, code>> = name <=> g = h /\ code = answered
      BY DEF name
    <3> QED
      BY <2>3, <3>1 DEF Answered
  <2> QED
    BY <2>1, <2>2, <2>4
<1> QED
  BY <1>1, <1>2

LEMMA TypesAreHandleTypes ==
    ASSUME HandlesInv, stream.kind = "handles", NEW h \in Handles
    PROVE  stream.types[h] \in HandleTypes
<1>1. stream.types \in [Handles -> HandleTypes]
  BY LearningAssumption DEF HandlesInv
<1> QED
  BY <1>1

LEMMA CallsAreNumbers ==
    ASSUME NEW types, NEW I, NEW o, NEW l, HandlesHold(types, I, o, l), NEW h, NEW code
    PROVE  Answered(h, code, l) \in Nat
BY AnsweredConcat DEF HandlesHold

\* The goal of each step of the interface.
HandlesHoldNext == HandlesHold(stream.types, stream.inputs, object', log')

LEMMA CreateHolds ==
    ASSUME HandlesInv, stream.kind = "handles", CreateHandle
    PROVE  HandlesHoldNext
<1>1. PICK h \in Handles :
          object[h] = NullHandle /\ object' = [object EXCEPT ![h] = Handle(NewObject(stream.types[h]))]
  BY DEF CreateHandle
<1> DEFINE type == stream.types[h]
<1> DEFINE v == Handle(NewObject(type))
<1>2. log' = log
  BY DEF CreateHandle
<1>3. HandlesHold(stream.types, stream.inputs, object, log)
  BY DEF HandlesInv
<1>4. Answered(h, "ok", log) = 0 /\ Answered(h, "refused", log) = 0 /\ log \in Seq(Entries(stream.inputs))
  BY <1>1, <1>3 DEF HandlesHold, HandleHolds
<1>5. HandleHolds(type, v, 0, 0)
  <2>1. ObjectHolds(type, NewObject(type), 0, 0)
    BY TypesAreHandleTypes, NewObjectHolds
  <2>2. v # NullHandle /\ v[1] = NewObject(type)
    BY DEF Handle, NullHandle
  <2> QED
    BY <2>1, <2>2 DEF HandleHolds
<1>6. object' = [object EXCEPT ![h] = v]
  BY <1>1
<1> HIDE DEF v
<1> DEFINE none == <<>>
<1>7. none \in Seq(Entries(stream.inputs)) /\ \A g, code : Answered(g, code, none) = 0
  BY NoCalls
<1>8. log \o none = log
  BY <1>4
<1> HIDE DEF none
<1>9. HandleHolds(type, v, Answered(h, "ok", log) + Answered(h, "ok", none),
                  Answered(h, "refused", log) + Answered(h, "refused", none))
  <2>1. 0 + 0 = 0
    OBVIOUS
  <2> QED
    BY <1>4, <1>5, <1>7, <2>1
<1>10. none \in Seq(Entries(stream.inputs)) /\ \A g \in Handles \ {h} : NoneOf(g, none)
  BY <1>7 DEF NoneOf
<1>11. HandlesHold(stream.types, stream.inputs, [object EXCEPT ![h] = v], log \o none)
  BY <1>3, <1>9, <1>10, CalledHolds
<1> QED
  BY <1>2, <1>6, <1>8, <1>11 DEF HandlesHoldNext

\* What the calls that learn and that read do, without their guards.
LEMMA LearnCalls ==
    ASSUME LearnOnHandle
    PROVE  \E h \in Handles, input \in stream.inputs :
              LET a == Borrowed(object[h], LearnCall(stream.types[h], object[h][1], input[1], input[2]))
              IN  object' = [object EXCEPT ![h] = a.object] /\ log' = log \o Logged(h, a.code, input)
BY DEF LearnOnHandle, Called

LEMMA LearnHolds ==
    ASSUME HandlesInv, stream.kind = "handles", LearnOnHandle
    PROVE  HandlesHoldNext
<1>1. PICK h \in Handles, input \in stream.inputs :
          LET a == Borrowed(object[h], LearnCall(stream.types[h], object[h][1], input[1], input[2]))
          IN  object' = [object EXCEPT ![h] = a.object] /\ log' = log \o Logged(h, a.code, input)
  BY LearnCalls
<1> DEFINE type == stream.types[h]
<1> DEFINE a == LearnCall(type, object[h][1], input[1], input[2])
<1> DEFINE b == Borrowed(object[h], a)
<1> DEFINE n == Answered(h, "ok", log)
<1> DEFINE k == Answered(h, "refused", log)
<1> DEFINE entry == Logged(h, b.code, input)
<1>2. HandlesHold(stream.types, stream.inputs, object, log)
  BY DEF HandlesInv
<1>3. HandleHolds(type, object[h], n, k)
  BY <1>2 DEF HandlesHold
<1>4. n \in Nat /\ k \in Nat
  BY <1>2, CallsAreNumbers
<1>5. type \in HandleTypes
  BY TypesAreHandleTypes
<1>6. object' = [object EXCEPT ![h] = b.object] /\ log' = log \o entry
  BY <1>1
<1>7. object[h] # NullHandle => Counted(a, type, n, k)
  <2> HAVE object[h] # NullHandle
  <2>1. ObjectHolds(type, object[h][1], n, k)
    BY <1>3 DEF HandleHolds
  <2> HIDE DEF n, k, type
  <2> QED
    BY <1>5, <2>1, LearnCounted
<1>8. b = Borrowed(object[h], a)
  OBVIOUS
<1> HIDE DEF a, b, type, n, k
<1>9. HandleHolds(type, b.object, Another("ok", n, b.code), Another("refused", k, b.code))
  BY <1>3, <1>4, <1>7, <1>8, BorrowedHolds
<1>10. /\ entry \in Seq(Entries(stream.inputs))
       /\ \A g : \A code \in LibraryAnswers : Answered(g, code, entry) = IF g = h /\ code = b.code THEN 1 ELSE 0
  BY OneCall
<1> HIDE DEF entry
<1>11. \A g \in Handles \ {h} : NoneOf(g, entry)
  BY <1>10 DEF NoneOf
<1>12. /\ Answered(h, "ok", log) + Answered(h, "ok", entry) = Another("ok", n, b.code)
       /\ Answered(h, "refused", log) + Answered(h, "refused", entry) = Another("refused", k, b.code)
  BY <1>4, <1>10 DEF Another, LibraryAnswers, n, k
<1>13. HandlesHold(stream.types, stream.inputs, [object EXCEPT ![h] = b.object], log \o entry)
  BY <1>2, <1>9, <1>10, <1>11, <1>12, CalledHolds DEF type
<1> QED
  BY <1>6, <1>13 DEF HandlesHoldNext

\* The names of the accessors.
LEMMA CallNames ==
    ASSUME NEW type, NEW call \in Calls(type)
    PROVE  \/ call.name \in {"predict", "samples_seen"}
           \/ type \in {"linear", "logistic"} /\ call.name \in {"weights", "intercept"}
BY DEF Calls

LEMMA ReadCalls ==
    ASSUME ReadHandle
    PROVE  \E h \in Handles : \E call \in Calls(stream.types[h]) :
              /\ object' = [object EXCEPT ![h] =
                    Borrowed(object[h], ReadCall(stream.types[h], object[h][1], call)).object]
              /\ log' = log \o <<>>
BY DEF ReadHandle, Called

LEMMA ReadHolds ==
    ASSUME HandlesInv, stream.kind = "handles", ReadHandle
    PROVE  HandlesHoldNext
<1>1. PICK h \in Handles : \E call \in Calls(stream.types[h]) :
          /\ object' = [object EXCEPT ![h] =
                Borrowed(object[h], ReadCall(stream.types[h], object[h][1], call)).object]
          /\ log' = log \o <<>>
  BY ReadCalls
<1> DEFINE type == stream.types[h]
<1>0. PICK call \in Calls(type) :
          /\ object' = [object EXCEPT ![h] = Borrowed(object[h], ReadCall(type, object[h][1], call)).object]
          /\ log' = log \o <<>>
  BY <1>1
<1> DEFINE a == ReadCall(type, object[h][1], call)
<1> DEFINE b == Borrowed(object[h], a)
<1> DEFINE n == Answered(h, "ok", log)
<1> DEFINE k == Answered(h, "refused", log)
<1> DEFINE none == <<>>
<1>2. HandlesHold(stream.types, stream.inputs, object, log)
  BY DEF HandlesInv
<1>3. HandleHolds(type, object[h], n, k)
  BY <1>2 DEF HandlesHold
<1>4. n \in Nat /\ k \in Nat
  BY <1>2, CallsAreNumbers
<1>5. type \in HandleTypes
  BY TypesAreHandleTypes
<1>6. object' = [object EXCEPT ![h] = b.object] /\ log' = log \o none
  BY <1>0
<1>7. object[h] # NullHandle => IsReadOf(a, object[h][1])
  <2>1. \/ call.name \in {"predict", "samples_seen"}
        \/ type \in {"linear", "logistic"} /\ call.name \in {"weights", "intercept"}
    BY CallNames
  <2> HIDE DEF type
  <2> QED
    BY <1>5, <2>1, ReadReads
<1>8. b = Borrowed(object[h], a)
  OBVIOUS
<1> HIDE DEF a, b, type, n, k
<1>9. HandleHolds(type, b.object, n, k)
  BY <1>3, <1>7, <1>8, ReadBorrowed
<1>10. none \in Seq(Entries(stream.inputs)) /\ \A g, code : Answered(g, code, none) = 0
  BY NoCalls
<1> HIDE DEF none
<1>11. \A g \in Handles \ {h} : NoneOf(g, none)
  BY <1>10 DEF NoneOf
<1>12. /\ Answered(h, "ok", log) + Answered(h, "ok", none) = n
       /\ Answered(h, "refused", log) + Answered(h, "refused", none) = k
  BY <1>4, <1>10 DEF n, k
<1>13. HandlesHold(stream.types, stream.inputs, [object EXCEPT ![h] = b.object], log \o none)
  BY <1>2, <1>9, <1>10, <1>11, <1>12, CalledHolds DEF type
<1> QED
  BY <1>6, <1>13 DEF HandlesHoldNext

\* A copy is refused, or has the state of the object it was made from.
LEMMA CopiedAnswers ==
    ASSUME NEW type, NEW b, NEW capacity, NEW c, c = Copied(type, CopyString(b, 1, capacity))
    PROVE  \/ c.code # "ok" /\ c.object = NullHandle
           \/ c.code = "ok" /\ c.object = Handle(b)
<1> DEFINE a == CopyString(b, 1, capacity)
<1>1. \/ a = [code |-> "invalid_argument", object |-> b, written |-> NullPointer]
      \/ a = [code |-> "buffer_too_small", object |-> b, written |-> NullPointer]
      \/ a = [code |-> "ok", object |-> b, written |-> b]
  BY DEF CopyString, Failed, Answer
<1>2. c = Copied(type, a)
  OBVIOUS
<1> HIDE DEF a
<1>3. a.object = b /\ {"code", "object"} \subseteq DOMAIN a
  BY <1>1
<1>4. CASE a.code # "ok"
  <2>1. c = [code |-> a.code, object |-> NullHandle, written |-> NullPointer]
    BY <1>2, <1>4 DEF Copied, Failed, Answer
  <2> QED
    BY <1>4, <2>1
<1>5. CASE a.code = "ok"
  <2> DEFINE copy == FromJson(type, a.object)
  <2>1. copy = Handle(b) \/ copy = NullHandle
    BY <1>3 DEF FromJson
  <2>2. CASE copy = NullHandle
    <3>1. c = [code |-> "refused", object |-> NullHandle, written |-> NullPointer]
      BY <1>2, <1>5, <2>2 DEF Copied, Failed, Answer
    <3> QED
      BY <3>1
  <2>3. CASE copy # NullHandle
    <3>1. c = [a EXCEPT !.object = copy]
      BY <1>2, <1>5, <2>3 DEF Copied
    <3> HIDE DEF copy
    <3>2. c.object = copy /\ c.code = "ok"
      BY <1>3, <1>5, <3>1
    <3> QED
      BY <2>1, <2>3, <3>2
  <2> QED
    BY <2>2, <2>3
<1> QED
  BY <1>4, <1>5

\* A copy inherits the calls of the original under its own name.
LEMMA InheritedCalls ==
    ASSUME NEW I, log \in Seq(Entries(I)), NEW h, NEW copy \in Handles
    PROVE  /\ Inherited(h, copy) \in Seq(Entries(I))
           /\ \A g : \A code \in LibraryAnswers :
                 Answered(g, code, Inherited(h, copy)) = IF g = copy THEN Answered(h, code, log) ELSE 0
<1> DEFINE S == Entries(I)
<1> DEFINE kept(code) == EntriesOf({<<h, code>>}, log)
<1> DEFINE under(code) == Renamed(kept(code), <<copy, code>>)
<1>1. ASSUME NEW code \in LibraryAnswers
      PROVE  /\ under(code) \in Seq(S)
             /\ \A m : CallsOf(m, under(code)) = IF m = <<copy, code>> THEN Answered(h, code, log) ELSE 0
  <2>1. kept(code) \in Seq(S)
    <3> DEFINE names == {<<h, code>>}
    <3>1. log \in Seq(S)
      OBVIOUS
    <3> HIDE DEF S, names
    <3>2. EntriesOf(names, log) \in Seq(S)
      BY <3>1, EntriesType
    <3> QED
      BY <3>2 DEF names
  <2>2. Len(kept(code)) = Answered(h, code, log)
    BY DEF Answered, CallsOf
  <2> DEFINE k == kept(code)
  <2> DEFINE name == <<copy, code>>
  <2>3. {<<name, e[2]>> : e \in S} \subseteq S
    BY DEF Entries
  <2> HIDE DEF S, kept, k
  <2>4. /\ Renamed(k, name) \in Seq({<<name, e[2]>> : e \in S})
        /\ \A m : CallsOf(m, Renamed(k, name)) = IF m = name THEN Len(k) ELSE 0
    <3> HIDE DEF name
    <3> QED
      BY <2>1, RenamedCalls DEF k
  <2>5. Renamed(k, name) \in Seq(S)
    <3> HIDE DEF name
    <3> QED
      BY <2>3, <2>4
  <2> QED
    BY <2>2, <2>4, <2>5 DEF k
<1>2. "ok" \in LibraryAnswers /\ "refused" \in LibraryAnswers
  BY DEF LibraryAnswers
<1> DEFINE taken == under("ok")
<1> DEFINE refused == under("refused")
<1>3. Inherited(h, copy) = taken \o refused
  BY DEF Inherited
<1>4. taken \in Seq(S) /\ refused \in Seq(S)
  BY <1>1, <1>2
<1>5. \A m : /\ CallsOf(m, taken) = IF m = <<copy, "ok">> THEN Answered(h, "ok", log) ELSE 0
             /\ CallsOf(m, refused) = IF m = <<copy, "refused">> THEN Answered(h, "refused", log) ELSE 0
  BY <1>1, <1>2
<1> HIDE DEF taken, refused
<1>6. ASSUME NEW g, NEW code \in LibraryAnswers
      PROVE  Answered(g, code, taken \o refused) = IF g = copy THEN Answered(h, code, log) ELSE 0
  <2>1. Answered(g, code, taken \o refused) = Answered(g, code, taken) + Answered(g, code, refused)
    BY <1>4, AnsweredConcat
  <2>2. Answered(h, code, log) \in Nat
    BY AnsweredConcat
  <2>3. /\ Answered(g, code, taken) = IF g = copy /\ code = "ok" THEN Answered(h, code, log) ELSE 0
        /\ Answered(g, code, refused) = IF g = copy /\ code = "refused" THEN Answered(h, code, log) ELSE 0
    <3>1. /\ <<g, code>> = <<copy, "ok">> <=> g = copy /\ code = "ok"
          /\ <<g, code>> = <<copy, "refused">> <=> g = copy /\ code = "refused"
      OBVIOUS
    <3> QED
      BY <1>5, <3>1 DEF Answered
  <2> QED
    BY <2>1, <2>2, <2>3 DEF LibraryAnswers
<1> QED
  BY <1>3, <1>4, <1>6

LEMMA CopyCalls ==
    ASSUME CopyHandle
    PROVE  \E h, copy \in Handles, capacity \in {0, 1, 2} :
              /\ stream.types[copy] = stream.types[h] /\ object[copy] = NullHandle /\ object[h] # NullHandle
              /\ LET c == Copied(stream.types[h], CopyString(object[h][1], 1, capacity))
                 IN  /\ object' = [object EXCEPT ![copy] = c.object]
                     /\ log' = log \o (IF c.code = "ok" THEN Inherited(h, copy) ELSE <<>>)
BY DEF CopyHandle, Called

LEMMA CopyHolds ==
    ASSUME HandlesInv, stream.kind = "handles", CopyHandle
    PROVE  HandlesHoldNext
<1>1. PICK h \in Handles, copy \in Handles, capacity \in {0, 1, 2} :
          /\ stream.types[copy] = stream.types[h] /\ object[copy] = NullHandle /\ object[h] # NullHandle
          /\ LET c == Copied(stream.types[h], CopyString(object[h][1], 1, capacity))
             IN  /\ object' = [object EXCEPT ![copy] = c.object]
                 /\ log' = log \o (IF c.code = "ok" THEN Inherited(h, copy) ELSE <<>>)
  BY CopyCalls
<1> DEFINE type == stream.types[h]
<1> DEFINE c == Copied(type, CopyString(object[h][1], 1, capacity))
<1> DEFINE entries == IF c.code = "ok" THEN Inherited(h, copy) ELSE <<>>
<1> DEFINE n == Answered(h, "ok", log)
<1> DEFINE k == Answered(h, "refused", log)
<1>2. HandlesHold(stream.types, stream.inputs, object, log)
  BY DEF HandlesInv
<1>3. /\ log \in Seq(Entries(stream.inputs))
      /\ HandleHolds(type, object[h], n, k)
      /\ HandleHolds(type, object[copy], Answered(copy, "ok", log), Answered(copy, "refused", log))
  BY <1>1, <1>2 DEF HandlesHold
<1>4. /\ ObjectHolds(type, object[h][1], n, k) /\ n \in Nat /\ k \in Nat
      /\ Answered(copy, "ok", log) = 0 /\ Answered(copy, "refused", log) = 0
  BY <1>1, <1>2, <1>3, CallsAreNumbers DEF HandleHolds
<1>5. object' = [object EXCEPT ![copy] = c.object] /\ log' = log \o entries
  BY <1>1
<1>6. \/ c.code # "ok" /\ c.object = NullHandle
      \/ c.code = "ok" /\ c.object = Handle(object[h][1])
  <2>1. c = Copied(type, CopyString(object[h][1], 1, capacity))
    OBVIOUS
  <2> HIDE DEF c, type
  <2> QED
    BY <2>1, CopiedAnswers
<1>7. stream.types[copy] = type
  BY <1>1
<1> HIDE DEF c, type
<1>8. /\ Inherited(h, copy) \in Seq(Entries(stream.inputs))
      /\ \A g : \A code \in LibraryAnswers :
            Answered(g, code, Inherited(h, copy)) = IF g = copy THEN Answered(h, code, log) ELSE 0
  BY <1>3, InheritedCalls
<1>9. "ok" \in LibraryAnswers /\ "refused" \in LibraryAnswers
  BY DEF LibraryAnswers
<1>10. /\ entries \in Seq(Entries(stream.inputs))
       /\ \A g \in Handles \ {copy} : NoneOf(g, entries)
       /\ HandleHolds(type, c.object, Answered(copy, "ok", log) + Answered(copy, "ok", entries),
                      Answered(copy, "refused", log) + Answered(copy, "refused", entries))
  <2>1. CASE c.code # "ok" /\ c.object = NullHandle
    <3>1. entries = <<>>
      BY <2>1
    <3>2. entries \in Seq(Entries(stream.inputs)) /\ \A g, code : Answered(g, code, entries) = 0
      BY <3>1, NoCalls
    <3> QED
      BY <1>4, <2>1, <3>2 DEF HandleHolds, NoneOf
  <2>2. CASE c.code = "ok" /\ c.object = Handle(object[h][1])
    <3>1. entries = Inherited(h, copy)
      BY <2>2
    <3>2. c.object # NullHandle /\ c.object[1] = object[h][1]
      BY <2>2 DEF Handle, NullHandle
    <3>3. /\ Answered(copy, "ok", log) + Answered(copy, "ok", entries) = n
          /\ Answered(copy, "refused", log) + Answered(copy, "refused", entries) = k
      BY <1>4, <1>8, <1>9, <3>1
    <3>4. HandleHolds(type, c.object, n, k)
      BY <1>4, <3>2 DEF HandleHolds
    <3>5. \A g \in Handles \ {copy} : NoneOf(g, entries)
      BY <1>8, <3>1 DEF NoneOf
    <3> HIDE DEF entries, n, k
    <3> QED
      BY <1>8, <3>1, <3>3, <3>4, <3>5
  <2> QED
    BY <1>6, <2>1, <2>2
<1> HIDE DEF entries
<1>11. HandlesHold(stream.types, stream.inputs, [object EXCEPT ![copy] = c.object], log \o entries)
  BY <1>2, <1>7, <1>10, CalledHolds
<1> QED
  BY <1>5, <1>11 DEF HandlesHoldNext

LEMMA DestroyHolds ==
    ASSUME HandlesInv, stream.kind = "handles", DestroyHandle
    PROVE  HandlesHoldNext
<1> DEFINE Others(h) == (Handles \ {h}) \X LibraryAnswers
<1>1. PICK h \in Handles :
          object' = [object EXCEPT ![h] = NullHandle] /\ log' = EntriesOf(Others(h), log)
  BY DEF DestroyHandle
<1> DEFINE S == Entries(stream.inputs)
<1> DEFINE H == Others(h)
<1> DEFINE Holds(g, a, l) == HandleHolds(stream.types[g], a, Answered(g, "ok", l), Answered(g, "refused", l))
<1>2. HandlesHold(stream.types, stream.inputs, object, log)
  BY DEF HandlesInv
<1>3. /\ log \in Seq(S)
      /\ object = [g \in Handles |-> object[g]]
      /\ \A g \in Handles : Holds(g, object[g], log)
  BY <1>2 DEF HandlesHold
<1>4. /\ object' = [g \in Handles |-> object'[g]] /\ object'[h] = NullHandle
      /\ \A g \in Handles \ {h} : object'[g] = object[g]
  BY <1>1, <1>3
<1>5. log' = EntriesOf(H, log)
  BY <1>1
<1>6. \A g \in Handles, code \in LibraryAnswers : <<g, code>> \in H <=> g # h
  OBVIOUS
<1>7. log' \in Seq(S) /\ \A m : CallsOf(m, log') = IF m \in H THEN CallsOf(m, log) ELSE 0
  <2>1. log \in Seq(S)
    BY <1>3
  <2> HIDE DEF S, H
  <2>2. EntriesOf(H, log) \in Seq(S)
    BY <2>1, EntriesType
  <2>3. ASSUME NEW m
        PROVE  CallsOf(m, EntriesOf(H, log)) = IF m \in H THEN CallsOf(m, log) ELSE 0
    BY <2>1, CallsKept
  <2> QED
    BY <1>5, <2>2, <2>3
<1> HIDE DEF H
<1>8. ASSUME NEW g \in Handles, NEW code \in LibraryAnswers
      PROVE  Answered(g, code, log') = IF g = h THEN 0 ELSE Answered(g, code, log)
  BY <1>6, <1>7 DEF Answered
<1>9. "ok" \in LibraryAnswers /\ "refused" \in LibraryAnswers
  BY DEF LibraryAnswers
<1>10. \A g \in Handles : Holds(g, object'[g], log')
  <2>1. Holds(h, object'[h], log')
    BY <1>4, <1>8, <1>9 DEF HandleHolds
  <2>2. ASSUME NEW g \in Handles \ {h}
        PROVE  Holds(g, object'[g], log')
    <3>1. /\ Answered(g, "ok", log') = Answered(g, "ok", log)
          /\ Answered(g, "refused", log') = Answered(g, "refused", log)
      BY <1>8, <1>9
    <3> QED
      BY <1>3, <1>4, <3>1
  <2> QED
    BY <2>1, <2>2
<1> QED
  BY <1>4, <1>7, <1>10 DEF HandlesHoldNext, HandlesHold

LEMMA HandlesInit == LearningInit => HandlesInv
<1> SUFFICES ASSUME LearningInit
             PROVE  HandlesInv
  OBVIOUS
<1>1. stream \in Streams /\ object = New(stream.kind) /\ log = <<>>
  BY DEF LearningInit
<1>2. ASSUME stream.kind = "handles"
      PROVE  HandlesHold(stream.types, stream.inputs, object, log)
  <2>1. New("handles") = [h \in Handles |-> NullHandle]
    BY DEF New, Models, Transformers, Pipes, Players
  <2>2. object = [h \in Handles |-> NullHandle]
    BY <1>1, <1>2, <2>1
  <2>3. \A h, code : Answered(h, code, log) = 0
    BY <1>1, NoCalls
  <2>4. log \in Seq(Entries(stream.inputs))
    BY <1>1
  <2> QED
    BY <2>2, <2>3, <2>4 DEF HandlesHold, HandleHolds
<1> QED
  BY <1>1, <1>2 DEF HandlesInv

LEMMA HandlesNext == HandlesInv /\ [LearningNext]_vars => HandlesInv'
<1> SUFFICES ASSUME HandlesInv, [LearningNext]_vars
             PROVE  HandlesInv'
  OBVIOUS
<1>1. CASE UNCHANGED vars
  BY <1>1 DEF vars, HandlesInv
<1>2. CASE LearningNext
  <2>1. stream' = stream /\ (stream.kind = "handles" => HandleStep)
    BY <1>2, StepsByKind
  <2>2. ASSUME stream.kind = "handles"
        PROVE  HandlesHoldNext
    BY <2>1, <2>2, CreateHolds, LearnHolds, ReadHolds, CopyHolds, DestroyHolds DEF HandleStep
  <2> QED
    BY <2>1, <2>2 DEF HandlesInv, HandlesHoldNext
<1> QED
  BY <1>1, <1>2

\* What samples_seen writes.
LEMMA SamplesSeenOf ==
    ASSUME NEW h, stream.types[h] \in HandleTypes
    PROVE  LET type == stream.types[h]
               b    == object[h][1]
           IN  /\ type = "mean" => SamplesSeen(h) = b.count
               /\ type \in {"linear", "logistic"} => SamplesSeen(h) = b.samples
               /\ type = "scaler" => SamplesSeen(h) = b.counts[1]
               /\ type \in PipelineTypes => SamplesSeen(h) = b.transformer.counts[1]
<1> DEFINE type == stream.types[h]
<1> DEFINE b == object[h][1]
<1> DEFINE call == [name |-> "samples_seen", x |-> NullPointer, hasOut |-> TRUE, capacity |-> NullPointer]
<1> DEFINE a == ReadCall(type, b, call)
<1>1. SamplesSeen(h) = a.written /\ call.name = "samples_seen" /\ call.hasOut = TRUE
  BY DEF SamplesSeen
<1> HIDE DEF call
<1>2. \A value : Stored(b, call.hasOut, value).written = value
  BY <1>1 DEF Stored, Answer
<1>3. CASE type = "mean"
  <2>1. a = Stored(b, call.hasOut, b.count)
    BY <1>1, <1>3 DEF ReadCall, MeanRead
  <2> QED
    BY <1>1, <1>2, <1>3, <2>1 DEF PipelineTypes
<1>4. ASSUME NEW prediction
      PROVE  ModelRead(b, call, prediction) = Stored(b, call.hasOut, b.samples)
  BY <1>1 DEF ModelRead
<1>5. CASE type \in {"linear", "logistic"}
  <2>1. \E prediction : a = ModelRead(b, call, prediction)
    BY <1>5 DEF ReadCall, LinearRegressionRead, LogisticRegressionRead
  <2>2. a = Stored(b, call.hasOut, b.samples)
    BY <1>4, <2>1
  <2> QED
    BY <1>1, <1>2, <1>5, <2>2 DEF PipelineTypes
<1>6. CASE type = "scaler"
  <2>1. a = ScalerRead(b, call)
    BY <1>6 DEF ReadCall
  <2>2. ScalerRead(b, call) = Stored(b, call.hasOut, b.counts[1])
    BY <1>1 DEF ScalerRead
  <2> QED
    BY <1>1, <1>2, <1>6, <2>1, <2>2 DEF PipelineTypes
<1>7. CASE type \in PipelineTypes
  <2>1. a = PipelineRead(b, call)
    BY <1>7 DEF ReadCall, PipelineTypes
  <2>2. PipelineRead(b, call) = Stored(b, call.hasOut, b.transformer.counts[1])
    BY <1>1 DEF PipelineRead
  <2> QED
    BY <1>1, <1>2, <1>7, <2>1, <2>2 DEF PipelineTypes
<1> QED
  BY <1>3, <1>5, <1>6, <1>7 DEF HandleTypes, PipelineTypes

LEMMA HandlesFollow == HandlesInv => HandlesCountTheirOwnCalls
<1> SUFFICES ASSUME HandlesInv, stream.kind = "handles", NEW h \in Handles
             PROVE  LET n == Answered(h, "ok", log)
                        k == Answered(h, "refused", log)
                    IN  IF object[h] = NullHandle THEN n = 0 /\ k = 0
                        ELSE IF stream.types[h] \notin PipelineTypes THEN SamplesSeen(h) = n
                        ELSE /\ object[h][1].model.samples = n
                             /\ n <= SamplesSeen(h) /\ SamplesSeen(h) <= n + k
  BY DEF HandlesCountTheirOwnCalls, Answered, CallsOf
<1> DEFINE type == stream.types[h]
<1> DEFINE n == Answered(h, "ok", log)
<1> DEFINE k == Answered(h, "refused", log)
<1>1. HandleHolds(type, object[h], n, k)
  BY DEF HandlesInv, HandlesHold
<1>2. type \in HandleTypes
  BY TypesAreHandleTypes
<1> HIDE DEF n, k
<1>3. CASE object[h] = NullHandle
  BY <1>1, <1>3 DEF HandleHolds, n, k
<1>4. CASE object[h] # NullHandle
  <2> DEFINE b == object[h][1]
  <2> DEFINE seen == SamplesSeen(h)
  <2>1. ObjectHolds(type, b, n, k)
    BY <1>1, <1>4 DEF HandleHolds
  <2>2. /\ type = "mean" => seen = b.count
        /\ type \in {"linear", "logistic"} => seen = b.samples
        /\ type = "scaler" => seen = b.counts[1]
        /\ type \in PipelineTypes => seen = b.transformer.counts[1]
    BY <1>2, SamplesSeenOf
  <2> HIDE DEF type, b, seen
  <2>3. /\ type \notin PipelineTypes => seen = n
        /\ type \in PipelineTypes => b.model.samples = n /\ n <= seen /\ seen <= n + k
    <3>1. type \notin PipelineTypes => type \in {"mean", "linear", "logistic", "scaler"}
      BY <1>2 DEF HandleTypes, PipelineTypes
    <3>2. type \notin PipelineTypes => seen = n
      BY <2>1, <2>2, <3>1 DEF ObjectHolds
    <3>3. type \in PipelineTypes => b.model.samples = n /\ b.transformer.counts[1] \in n..(n + k)
      BY <2>1 DEF ObjectHolds
    <3> QED
      BY <2>2, <3>2, <3>3
  <2> QED
    BY <1>4, <2>3 DEF type, b, seen, n, k
<1> QED
  BY <1>3, <1>4

\* A handle reports the calls that named it and were answered with OK, those of the
\* object it was copied from included, and no other, whatever is created, copied,
\* refused and destroyed; that of a pipeline may count in addition what its scaler
\* took of refused calls on it, while its model has learned from the former alone.
THEOREM HandlesAreApart == LearningSpec => []HandlesCountTheirOwnCalls
<1> QED
  BY HandlesInit, HandlesNext, HandlesFollow, PTL DEF LearningSpec

-----------------------------------------------------------------------------
(* The ledger of a replay: maps from ids to what is filed under them.      *)

Filed(m) == {d \in DecisionIds : m[d] # NoDecision}

\* Every pending decision is under its own id and closes MaxDelay after it opened.
PendingHolds(p) ==
    /\ p \in [DecisionIds -> ReplayDecisionRecord \cup {NoDecision}]
    /\ \A d \in Filed(p) : p[d].id = d /\ p[d].expires = p[d].created + MaxDelay

\* Every completed one is under its own id and was answered within its window.
CompletedHolds(c) ==
    /\ c \in [DecisionIds -> ReplayTombstone \cup {NoDecision}]
    /\ \A d \in Filed(c) : c[d].decision.id = d /\ c[d].observed - c[d].decision.created \in 0..MaxDelay

WithAction(c, a) == {d \in Filed(c) : c[d].decision.action = a}

LEMMA FiledIsFinite ==
    ASSUME NEW m
    PROVE  /\ Filed(m) \subseteq DecisionIds
           /\ IsFiniteSet(Filed(m)) /\ Cardinality(Filed(m)) \in Nat
<1>1. Filed(m) \in SUBSET DecisionIds
  BY DEF Filed
<1>2. IsFiniteSet(Filed(m))
  BY <1>1, ReplayAssumption, FS_Subset
<1> QED
  BY <1>1, <1>2, FS_CardinalityType

LEMMA FiledWith ==
    ASSUME NEW S, NEW m \in [DecisionIds -> S], NEW d \in DecisionIds, NEW x, x # NoDecision
    PROVE  /\ Filed([m EXCEPT ![d] = x]) = Filed(m) \cup {d}
           /\ Cardinality(Filed([m EXCEPT ![d] = x])) =
                 IF d \in Filed(m) THEN Cardinality(Filed(m)) ELSE Cardinality(Filed(m)) + 1
<1>1. Filed([m EXCEPT ![d] = x]) = Filed(m) \cup {d}
  BY DEF Filed
<1>2. IsFiniteSet(Filed(m))
  BY FiledIsFinite
<1> QED
  BY <1>1, <1>2, FS_AddElement

LEMMA FiledWithout ==
    ASSUME NEW S, NEW m \in [DecisionIds -> S], NEW d \in Filed(m)
    PROVE  /\ Filed([m EXCEPT ![d] = NoDecision]) = Filed(m) \ {d}
           /\ Cardinality(Filed([m EXCEPT ![d] = NoDecision])) = Cardinality(Filed(m)) - 1
<1>1. Filed([m EXCEPT ![d] = NoDecision]) = Filed(m) \ {d}
  BY DEF Filed
<1>2. IsFiniteSet(Filed(m))
  BY FiledIsFinite
<1> QED
  BY <1>1, <1>2, FS_RemoveElement

LEMMA NothingIsFiled ==
    LET m == [d \in DecisionIds |-> NoDecision]
    IN  Filed(m) = {} /\ Cardinality(Filed(m)) = 0 /\ PendingHolds(m) /\ CompletedHolds(m)
<1> DEFINE m == [d \in DecisionIds |-> NoDecision]
<1>1. Filed(m) = {}
  BY DEF Filed
<1>2. m \in [DecisionIds -> ReplayDecisionRecord \cup {NoDecision}]
  OBVIOUS
<1>3. m \in [DecisionIds -> ReplayTombstone \cup {NoDecision}]
  OBVIOUS
<1> HIDE DEF m
<1>4. PendingHolds(m) /\ CompletedHolds(m)
  BY <1>1, <1>2, <1>3 DEF PendingHolds, CompletedHolds
<1>5. Cardinality(Filed(m)) = 0
  BY <1>1, FS_EmptySet
<1> QED
  BY <1>1, <1>4, <1>5 DEF m

\* What is filed is a record.
LEMMA FiledAreRecords ==
    ASSUME NEW p, PendingHolds(p), NEW d \in Filed(p)
    PROVE  p[d] \in ReplayDecisionRecord
BY DEF PendingHolds, Filed

LEMMA RecordsAreEntries ==
    /\ \A x \in ReplayDecisionRecord : x # NoDecision
    /\ \A x \in ReplayTombstone : x # NoDecision
BY ReplayAssumption

\* A decision is filed.
LEMMA PendingWith ==
    ASSUME NEW p, PendingHolds(p), NEW x \in ReplayDecisionRecord, x.expires = x.created + MaxDelay
    PROVE  PendingHolds([p EXCEPT ![x.id] = x])
<1> DEFINE q == [p EXCEPT ![x.id] = x]
<1>1. x.id \in DecisionIds
  BY DEF ReplayDecisionRecord
<1>2. p \in [DecisionIds -> ReplayDecisionRecord \cup {NoDecision}]
  BY DEF PendingHolds
<1>3. q \in [DecisionIds -> ReplayDecisionRecord \cup {NoDecision}]
  BY <1>1, <1>2
<1>4. ASSUME NEW d \in Filed(q)
      PROVE  q[d].id = d /\ q[d].expires = q[d].created + MaxDelay
  <2>1. CASE d = x.id
    <3>1. q[d] = x
      BY <1>1, <1>2, <2>1
    <3> QED
      BY <2>1, <3>1
  <2>2. CASE d # x.id
    <3>1. d \in DecisionIds /\ q[d] # NoDecision
      BY <1>4 DEF Filed
    <3>2. q[d] = p[d]
      BY <1>2, <2>2, <3>1
    <3>3. d \in Filed(p)
      BY <3>1, <3>2 DEF Filed
    <3> QED
      BY <3>2, <3>3 DEF PendingHolds
  <2> QED
    BY <2>1, <2>2
<1> QED
  BY <1>3, <1>4 DEF PendingHolds

\* Entries are taken away.
LEMMA PendingWithout ==
    ASSUME NEW p, PendingHolds(p), NEW over \in SUBSET Filed(p)
    PROVE  LET q == [d \in DecisionIds |-> IF d \in over THEN NoDecision ELSE p[d]]
           IN  /\ PendingHolds(q)
               /\ Filed(q) = Filed(p) \ over
               /\ Cardinality(over) \in Nat
               /\ Cardinality(Filed(q)) + Cardinality(over) = Cardinality(Filed(p))
<1> DEFINE q == [d \in DecisionIds |-> IF d \in over THEN NoDecision ELSE p[d]]
<1>1. p \in [DecisionIds -> ReplayDecisionRecord \cup {NoDecision}]
  BY DEF PendingHolds
<1>2. q \in [DecisionIds -> ReplayDecisionRecord \cup {NoDecision}]
  BY <1>1
<1>3. Filed(q) = Filed(p) \ over
  BY DEF Filed
<1>4. \A d \in Filed(q) : q[d] = p[d] /\ d \in Filed(p)
  BY <1>3 DEF Filed
<1>5. PendingHolds(q)
  <2> HIDE DEF q
  <2> QED
    BY <1>2, <1>4 DEF PendingHolds
<1>6. IsFiniteSet(Filed(p)) /\ IsFiniteSet(Filed(q)) /\ IsFiniteSet(over)
  BY FiledIsFinite, FS_Subset
<1> HIDE DEF q
<1>7. Filed(q) \cup over = Filed(p) /\ Filed(q) \cap over = {}
  BY <1>3
<1>8. Cardinality(Filed(p)) = Cardinality(Filed(q)) + Cardinality(over) - Cardinality({})
  BY <1>6, <1>7, FS_Union
<1>9. Cardinality(over) \in Nat /\ Cardinality(Filed(q)) \in Nat /\ Cardinality({}) = 0
  BY <1>6, FS_CardinalityType, FS_EmptySet
<1> QED
  BY <1>3, <1>5, <1>8, <1>9 DEF q

\* The pending decisions are still consistent when one of them has gone.
LEMMA PendingWithoutOne ==
    ASSUME NEW p, PendingHolds(p), NEW d \in Filed(p)
    PROVE  PendingHolds([p EXCEPT ![d] = NoDecision])
<1> DEFINE q == [p EXCEPT ![d] = NoDecision]
<1>1. p \in [DecisionIds -> ReplayDecisionRecord \cup {NoDecision}]
  BY DEF PendingHolds
<1>2. q \in [DecisionIds -> ReplayDecisionRecord \cup {NoDecision}]
  BY <1>1
<1>3. \A e \in Filed(q) : q[e] = p[e] /\ e \in Filed(p)
  BY <1>1 DEF Filed
<1> HIDE DEF q
<1>4. PendingHolds(q)
  BY <1>2, <1>3 DEF PendingHolds
<1> QED
  BY <1>4 DEF q

\* A tombstone is filed under an id that had none.
LEMMA CompletedWith ==
    ASSUME NEW c, CompletedHolds(c), NEW t \in ReplayTombstone, t.decision.id \notin Filed(c),
           t.observed - t.decision.created \in 0..MaxDelay
    PROVE  LET e == [c EXCEPT ![t.decision.id] = t]
           IN  /\ CompletedHolds(e)
               /\ Filed(e) = Filed(c) \cup {t.decision.id}
               /\ Cardinality(Filed(e)) = Cardinality(Filed(c)) + 1
               /\ \A a : Cardinality(WithAction(e, a)) =
                            Cardinality(WithAction(c, a)) + IF a = t.decision.action THEN 1 ELSE 0
<1> DEFINE i == t.decision.id
<1> DEFINE e == [c EXCEPT ![i] = t]
<1>1. i \in DecisionIds
  BY DEF ReplayTombstone, ReplayDecisionRecord
<1>2. c \in [DecisionIds -> ReplayTombstone \cup {NoDecision}] /\ t # NoDecision
  BY RecordsAreEntries DEF CompletedHolds
<1> HIDE DEF i
<1>3. e \in [DecisionIds -> ReplayTombstone \cup {NoDecision}]
  BY <1>1, <1>2
<1>4. /\ Filed(e) = Filed(c) \cup {i}
      /\ Cardinality(Filed(e)) = IF i \in Filed(c) THEN Cardinality(Filed(c)) ELSE Cardinality(Filed(c)) + 1
  BY <1>1, <1>2, FiledWith
<1>5. e[i] = t /\ \A d \in Filed(c) : e[d] = c[d]
  <2>1. i \notin Filed(c)
    BY DEF i
  <2> QED
    BY <1>1, <1>2, <2>1 DEF Filed
<1> HIDE DEF e
<1>6. CompletedHolds(e)
  <2>1. \A d \in Filed(c) : c[d].decision.id = d /\ c[d].observed - c[d].decision.created \in 0..MaxDelay
    BY DEF CompletedHolds
  <2>2. e[i].decision.id = i /\ e[i].observed - e[i].decision.created \in 0..MaxDelay
    BY <1>5 DEF i
  <2> QED
    BY <1>3, <1>4, <1>5, <2>1, <2>2 DEF CompletedHolds
<1>7. ASSUME NEW a
      PROVE  Cardinality(WithAction(e, a)) =
                Cardinality(WithAction(c, a)) + IF a = t.decision.action THEN 1 ELSE 0
  <2>1. WithAction(e, a) = IF a = t.decision.action THEN WithAction(c, a) \cup {i} ELSE WithAction(c, a)
    BY <1>4, <1>5 DEF WithAction
  <2>2. i \notin WithAction(c, a)
    BY DEF WithAction, i
  <2>3. WithAction(c, a) \in SUBSET Filed(c) /\ IsFiniteSet(Filed(c))
    BY FiledIsFinite DEF WithAction
  <2>4. IsFiniteSet(WithAction(c, a))
    BY <2>3, FS_Subset
  <2>5. Cardinality(WithAction(c, a) \cup {i}) = Cardinality(WithAction(c, a)) + 1
    BY <2>2, <2>4, FS_AddElement
  <2>6. Cardinality(WithAction(c, a)) \in Nat
    BY <2>4, FS_CardinalityType
  <2> HIDE DEF i
  <2>7. CASE a = t.decision.action
    BY <2>1, <2>5, <2>7
  <2>8. CASE a # t.decision.action
    BY <2>1, <2>6, <2>8
  <2> QED
    BY <2>7, <2>8
<1>8. Cardinality(Filed(e)) = Cardinality(Filed(c)) + 1
  BY <1>4 DEF i
<1> QED
  BY <1>4, <1>6, <1>7, <1>8 DEF e, i

-----------------------------------------------------------------------------
(* The state of a replay.                                                  *)

ReplayFields ==
    {"model", "generation", "pending", "completed", "reward", "regret", "baseline", "pulls",
     "latencies", "expired", "duplicates", "rejected", "transitions", "drifts", "missing", "processed"}

IsLinUcb(u) == {"matrices", "vectors", "samples"} \subseteq DOMAIN u /\ u.samples \in Nat

ReplayHolds(h) ==
    /\ ReplayFields \subseteq DOMAIN h
    /\ IsLinUcb(h.model)
    /\ PendingHolds(h.pending) /\ CompletedHolds(h.completed)
    /\ Filed(h.pending) \cap Filed(h.completed) = {}
    /\ h.pulls \in [Arms -> Nat]
    /\ \A a \in Arms : h.pulls[a] = Cardinality(WithAction(h.completed, a))
    /\ h.latencies \in Seq(Int) /\ Len(h.latencies) = Cardinality(Filed(h.completed))
    /\ h.missing \in Nat /\ h.expired \in Nat
    /\ h.missing <= Cardinality(Filed(h.completed)) + Cardinality(Filed(h.pending)) + h.expired
    /\ h.model.samples <= Cardinality(Filed(h.completed))

\* The fields that ReplayHolds is about, but for the model.
Accounts(h) == <<h.pending, h.completed, h.pulls, h.latencies, h.missing, h.expired>>

\* An event keeps the invariant, and counts no records.
Follows(g, h) == ReplayHolds(g) /\ g.processed = h.processed

LEMMA ReplayIdsAreFiled ==
    ASSUME NEW h
    PROVE  PendingIds(h) = Filed(h.pending) /\ CompletedIds(h) = Filed(h.completed)
BY DEF PendingIds, CompletedIds, Filed

LEMMA NewLinUcbHolds == IsLinUcb(NewLinUcb) /\ NewLinUcb.samples = 0
BY DEF IsLinUcb, NewLinUcb

\* What does not touch the accounts and keeps or resets the model.
LEMMA HoldsWithModel ==
    ASSUME NEW h, ReplayHolds(h), NEW g, ReplayFields \subseteq DOMAIN g,
           Accounts(g) = Accounts(h), g.processed = h.processed,
           g.model = h.model \/ g.model = NewLinUcb
    PROVE  Follows(g, h)
<1>1. /\ g.pending = h.pending /\ g.completed = h.completed /\ g.pulls = h.pulls
      /\ g.latencies = h.latencies /\ g.missing = h.missing /\ g.expired = h.expired
  BY DEF Accounts
<1>2. Cardinality(Filed(h.completed)) \in Nat
  BY FiledIsFinite
<1>3. IsLinUcb(g.model) /\ g.model.samples <= Cardinality(Filed(h.completed))
  BY <1>2, NewLinUcbHolds DEF ReplayHolds
<1>4. ReplayHolds(g)
  BY <1>1, <1>3 DEF ReplayHolds
<1> QED
  BY <1>4 DEF Follows

LEMMA RejectedHolds ==
    ASSUME NEW h, ReplayHolds(h)
    PROVE  Follows(Rejected(h).state, h)
<1> DEFINE g == [h EXCEPT !.rejected = h.rejected + 1]
<1>1. Rejected(h).state = g
  BY DEF Rejected, Done
<1>2. ReplayFields \subseteq DOMAIN h
  BY DEF ReplayHolds
<1>3. /\ ReplayFields \subseteq DOMAIN g /\ Accounts(g) = Accounts(h)
      /\ g.processed = h.processed /\ g.model = h.model
  BY <1>2 DEF ReplayFields, Accounts
<1> HIDE DEF g
<1> QED
  BY <1>1, <1>3, HoldsWithModel

LEMMA BroughtForwardHolds ==
    ASSUME NEW h, ReplayHolds(h), NEW r
    PROVE  Follows(BroughtForward(h, r), h)
<1> DEFINE later ==
        IF r.generation > h.generation
        THEN [h EXCEPT !.model = NewLinUcb, !.generation = r.generation, !.transitions = h.transitions + 1]
        ELSE h
<1> DEFINE g == [later EXCEPT !.model = NewLinUcb, !.drifts = later.drifts + 1]
<1>1. BroughtForward(h, r) = g \/ BroughtForward(h, r) = later
  BY DEF BroughtForward
<1>2. ReplayFields \subseteq DOMAIN h
  BY DEF ReplayHolds
<1>3. /\ ReplayFields \subseteq DOMAIN later /\ Accounts(later) = Accounts(h)
      /\ later.processed = h.processed /\ (later.model = h.model \/ later.model = NewLinUcb)
  BY <1>2 DEF ReplayFields, Accounts
<1> HIDE DEF later
<1>4. /\ ReplayFields \subseteq DOMAIN g /\ Accounts(g) = Accounts(later)
      /\ g.processed = later.processed /\ g.model = NewLinUcb
  BY <1>3 DEF ReplayFields, Accounts
<1> HIDE DEF g
<1>5. Follows(later, h)
  BY <1>3, HoldsWithModel
<1>6. Follows(g, h)
  BY <1>3, <1>4, HoldsWithModel
<1> QED
  BY <1>1, <1>5, <1>6

\* A decision that is registered is pending, and its outcome is missing or not.
LEMMA RegisteredHolds ==
    ASSUME NEW h, ReplayHolds(h), NEW r \in ReplayRecord, r.arm \in Arms
    PROVE  Follows(Registered(h, r), h)
<1> DEFINE x == DecisionOf(r)
<1> DEFINE pending == [h.pending EXCEPT ![r.id] = x]
<1> DEFINE missing == IF r.outcome = NoTime THEN h.missing + 1 ELSE h.missing
<1> DEFINE g == [h EXCEPT !.pending = pending, !.missing = missing]
<1>1. Filed(h.pending) = PendingIds(h) /\ Filed(h.completed) = CompletedIds(h)
  BY ReplayIdsAreFiled
<1>2. x \in ReplayDecisionRecord /\ x.id = r.id /\ x.expires = x.created + MaxDelay
  BY ReplayAssumption DEF DecisionOf, ReplayRecord, ReplayDecisionRecord
<1>3. ReplayFields \subseteq DOMAIN h
  BY DEF ReplayHolds
<1> HIDE DEF x
<1>4. Registered(h, r) = h \/ (Registered(h, r) = g /\ r.id \notin Filed(h.pending) \cup Filed(h.completed))
  BY <1>1, <1>3 DEF Registered, ReplayFields, x
<1>5. ASSUME r.id \notin Filed(h.pending) \cup Filed(h.completed)
      PROVE  Follows(g, h)
  <2>1. PendingHolds(h.pending)
    BY DEF ReplayHolds
  <2>2. PendingHolds(pending)
    BY <1>2, <2>1, PendingWith
  <2>3. /\ Filed(pending) = Filed(h.pending) \cup {r.id}
        /\ Cardinality(Filed(pending)) = Cardinality(Filed(h.pending)) + 1
    <3>1. h.pending \in [DecisionIds -> ReplayDecisionRecord \cup {NoDecision}]
      BY <2>1 DEF PendingHolds
    <3>2. r.id \in DecisionIds /\ x # NoDecision
      BY <1>2, RecordsAreEntries DEF ReplayRecord
    <3> QED
      BY <1>5, <3>1, <3>2, FiledWith
  <2>4. missing \in Nat /\ missing <= h.missing + 1
    BY DEF ReplayHolds
  <2> HIDE DEF pending, missing
  <2>5. /\ ReplayFields \subseteq DOMAIN g
        /\ g.pending = pending /\ g.missing = missing /\ g.completed = h.completed /\ g.pulls = h.pulls
        /\ g.latencies = h.latencies /\ g.expired = h.expired /\ g.model = h.model
        /\ g.processed = h.processed
    BY <1>3 DEF ReplayFields
  <2>6. Cardinality(Filed(h.pending)) \in Nat /\ Cardinality(Filed(h.completed)) \in Nat
    BY FiledIsFinite
  <2>7. missing <= Cardinality(Filed(h.completed)) + Cardinality(Filed(pending)) + h.expired
    BY <2>3, <2>4, <2>6 DEF ReplayHolds
  <2>8. Filed(pending) \cap Filed(h.completed) = {}
    BY <1>5, <2>3 DEF ReplayHolds
  <2> HIDE DEF g
  <2>9. ReplayHolds(g)
    BY <2>2, <2>4, <2>5, <2>7, <2>8 DEF ReplayHolds
  <2> QED
    BY <2>5, <2>9 DEF Follows
<1>6. Follows(h, h)
  BY DEF Follows
<1> HIDE DEF g
<1> QED
  BY <1>4, <1>5, <1>6

LEMMA ReplayDecisionHolds ==
    ASSUME NEW h, ReplayHolds(h), NEW r \in ReplayRecord, r.arm \in Arms
    PROVE  Follows(ReplayDecision(h, r).state, h)
<1> DEFINE next == BroughtForward(h, r)
<1>1. Follows(next, h)
  BY BroughtForwardHolds
<1>2. \/ ReplayDecision(h, r) = Rejected(h)
      \/ ReplayDecision(h, r) = Refused(h)
      \/ ReplayDecision(h, r) = Rejected(next)
      \/ ReplayDecision(h, r) = Done(Registered(next, r))
  BY DEF ReplayDecision
<1> HIDE DEF next
<1>3. ReplayHolds(next) /\ next.processed = h.processed
  BY <1>1 DEF Follows
<1>4. Follows(Rejected(h).state, h)
  BY RejectedHolds
<1>5. Follows(Refused(h).state, h)
  BY DEF Follows, Refused
<1>6. Follows(Rejected(next).state, h)
  <2>1. Follows(Rejected(next).state, next)
    BY <1>3, RejectedHolds
  <2> QED
    BY <1>3, <2>1 DEF Follows
<1>7. Follows(Done(Registered(next, r)).state, h)
  <2>1. Follows(Registered(next, r), next)
    BY <1>3, RegisteredHolds
  <2>2. Done(Registered(next, r)).state = Registered(next, r)
    BY DEF Done
  <2> QED
    BY <1>3, <2>1, <2>2 DEF Follows
<1> QED
  BY <1>2, <1>4, <1>5, <1>6, <1>7, Zenon

\* A late outcome clears every decision that has expired, and counts them.
LEMMA ExpiredHolds ==
    ASSUME NEW h, ReplayHolds(h), NEW now
    PROVE  Follows(Expired(h, now), h)
<1> DEFINE over == {d \in Filed(h.pending) : h.pending[d].expires < now}
<1> DEFINE pending == [d \in DecisionIds |-> IF d \in over THEN NoDecision ELSE h.pending[d]]
<1> DEFINE g == [h EXCEPT !.pending = pending, !.expired = h.expired + Cardinality(over)]
<1>1. ReplayFields \subseteq DOMAIN h /\ Filed(h.pending) = PendingIds(h)
  BY ReplayIdsAreFiled DEF ReplayHolds
<1>2. Expired(h, now) = g
  BY <1>1 DEF Expired, ReplayFields
<1>3. /\ PendingHolds(pending)
      /\ Filed(pending) = Filed(h.pending) \ over
      /\ Cardinality(over) \in Nat
      /\ Cardinality(Filed(pending)) + Cardinality(over) = Cardinality(Filed(h.pending))
  <2>1. PendingHolds(h.pending) /\ over \in SUBSET Filed(h.pending)
    BY DEF ReplayHolds
  <2> HIDE DEF over
  <2> QED
    BY <2>1, PendingWithout
<1> HIDE DEF pending, over
<1>4. /\ ReplayFields \subseteq DOMAIN g
      /\ g.pending = pending /\ g.expired = h.expired + Cardinality(over) /\ g.completed = h.completed
      /\ g.pulls = h.pulls /\ g.latencies = h.latencies /\ g.missing = h.missing /\ g.model = h.model
      /\ g.processed = h.processed
  BY <1>1 DEF ReplayFields
<1> HIDE DEF g
<1>5. /\ Cardinality(Filed(h.pending)) \in Nat /\ Cardinality(Filed(h.completed)) \in Nat
      /\ Cardinality(Filed(pending)) \in Nat
  BY FiledIsFinite
<1>6. g.expired \in Nat /\ g.missing <= Cardinality(Filed(h.completed)) + Cardinality(Filed(pending)) + g.expired
  <2> DEFINE over_n == Cardinality(over)
  <2> DEFINE done_n == Cardinality(Filed(h.completed))
  <2> DEFINE before_n == Cardinality(Filed(h.pending))
  <2> DEFINE after_n == Cardinality(Filed(pending))
  <2>1. h.missing \in Nat /\ h.expired \in Nat /\ h.missing <= done_n + before_n + h.expired
    BY Zenon DEF ReplayHolds
  <2>2. over_n \in Nat /\ done_n \in Nat /\ before_n \in Nat /\ after_n \in Nat /\ after_n + over_n = before_n
    BY <1>3, <1>5, Zenon
  <2>3. g.expired = h.expired + over_n /\ g.missing = h.missing
    BY <1>4, Zenon
  <2> HIDE DEF over_n, done_n, before_n, after_n
  <2>4. g.expired \in Nat /\ g.missing <= done_n + after_n + g.expired
    BY <2>1, <2>2, <2>3
  <2> QED
    BY <2>4, Zenon DEF done_n, after_n
<1>7. Filed(pending) \cap Filed(h.completed) = {}
  BY <1>3 DEF ReplayHolds
<1>8. ReplayHolds(g)
  BY <1>3, <1>4, <1>6, <1>7 DEF ReplayHolds
<1> QED
  BY <1>2, <1>4, <1>8 DEF Follows

\* A model that accepts a sample counts it.
LEMMA LinUpdateCounts ==
    ASSUME NEW u, IsLinUcb(u), NEW arm, NEW x, NEW reward, LinUpdate(u, arm, x, reward).ok
    PROVE  /\ IsLinUcb(LinUpdate(u, arm, x, reward).state)
           /\ LinUpdate(u, arm, x, reward).state.samples = u.samples + 1
<1> DEFINE A == [i \in Dims |-> [j \in Dims |-> FAdd(u.matrices[arm][i][j], FMul(x[i], x[j]))]]
<1> DEFINE b == NextVector(u.vectors[arm], x, reward)
<1> DEFINE ms == [u.matrices EXCEPT ![arm] = A]
<1> DEFINE vs == [u.vectors EXCEPT ![arm] = b]
<1> DEFINE next == [matrices |-> ms, vectors |-> vs, samples |-> u.samples + 1]
<1> DEFINE r == LinUpdate(u, arm, x, reward)
<1>1. r = Done(next) \/ r = Refused(u)
  BY Zenon DEF LinUpdate
<1> HIDE DEF ms, vs
<1>2. IsLinUcb(next) /\ next.samples = u.samples + 1
  BY DEF IsLinUcb
<1> HIDE DEF next
<1>3. r.ok
  OBVIOUS
<1> HIDE DEF r
<1>4. r.state = next
  BY <1>1, <1>3 DEF Done, Refused
<1> QED
  BY <1>2, <1>4 DEF r

\* An outcome is applied: the decision moves to the completed ones, its arm is
\* pulled and the model has learned from it, or nothing changes.
LEMMA CompletedFollows ==
    ASSUME NEW h, ReplayHolds(h), NEW r \in ReplayRecord, r.id \in Filed(h.pending),
           ~(r.outcome > h.pending[r.id].expires), ~Disagrees(r, h.pending[r.id])
    PROVE  Follows(Completed(h, r).state, h)
<1> DEFINE x == h.pending[r.id]
<1> DEFINE learned == LinUpdate(h.model, r.arm, x.context, r.reward)
<1> DEFINE t == [decision |-> x, observed |-> r.outcome, finite |-> TRUE, reward |-> r.reward]
<1> DEFINE pending == [h.pending EXCEPT ![r.id] = NoDecision]
<1> DEFINE completed == [h.completed EXCEPT ![r.id] = t]
<1> DEFINE pulls == [h.pulls EXCEPT ![r.arm] = h.pulls[r.arm] + 1]
<1> DEFINE latencies == Append(h.latencies, r.outcome - r.timestamp)
<1> DEFINE reward == FAdd(h.reward, r.reward)
<1> DEFINE baseline == FAdd(h.baseline, Baseline(r))
<1> DEFINE regret == FAdd(h.regret, Regret(r))
<1> DEFINE totals == [h EXCEPT !.reward = reward, !.baseline = baseline, !.regret = regret, !.pulls = pulls]
<1> DEFINE g == [totals EXCEPT !.model = learned.state, !.pending = pending, !.completed = completed,
                               !.latencies = latencies]
<1>1. ReplayFields \subseteq DOMAIN h
  BY DEF ReplayHolds
<1>2. /\ PendingHolds(h.pending) /\ CompletedHolds(h.completed)
      /\ Filed(h.pending) \cap Filed(h.completed) = {}
  BY DEF ReplayHolds
<1>3. x \in ReplayDecisionRecord /\ x.id = r.id /\ x.expires = x.created + MaxDelay
  BY <1>2, FiledAreRecords DEF PendingHolds
<1>4. Completed(h, r) = Refused(h) \/ (Completed(h, r) = Done(g) /\ learned.ok)
  <2> DEFINE counted == [h EXCEPT !.reward = reward, !.baseline = baseline, !.regret = regret,
                                  !.pulls[r.arm] = @ + 1]
  <2> DEFINE stored == [counted EXCEPT !.model = learned.state, !.pending[r.id] = NoDecision,
                                       !.completed[r.id] = t, !.latencies = Append(@, r.outcome - r.timestamp)]
  <2>1. Completed(h, r) = Refused(h) \/ (Completed(h, r) = Done(stored) /\ learned.ok)
    <3>1. counted = [h EXCEPT !.reward = FAdd(@, r.reward), !.baseline = FAdd(@, Baseline(r)),
                              !.regret = FAdd(@, Regret(r)), !.pulls[r.arm] = @ + 1]
      BY <1>1 DEF ReplayFields
    <3> HIDE DEF learned, counted
    <3> QED
      BY <3>1 DEF Completed, learned
  <2> HIDE DEF learned, reward, baseline, regret, t
  <2>2. counted = totals
    BY <1>1 DEF ReplayFields
  <2>3. /\ "pulls" \in DOMAIN totals /\ "model" \in DOMAIN totals /\ "pending" \in DOMAIN totals
        /\ "completed" \in DOMAIN totals /\ "latencies" \in DOMAIN totals
        /\ totals.pending = h.pending /\ totals.completed = h.completed /\ totals.latencies = h.latencies
    BY <1>1 DEF ReplayFields
  <2> HIDE DEF totals, counted
  <2>4. stored = g
    BY <2>2, <2>3
  <2> QED
    BY <2>1, <2>4
<1> HIDE DEF learned, reward, baseline, regret
<1>5. CASE learned.ok
  <2>1. IsLinUcb(learned.state) /\ learned.state.samples = h.model.samples + 1
    BY <1>5, LinUpdateCounts DEF learned, ReplayHolds
  <2>2. /\ r.outcome >= x.created /\ r.outcome <= x.expires /\ r.arm = x.action
        /\ r.outcome \in Int /\ x.created \in Nat /\ x.expires \in Nat /\ r.arm \in Arms
    BY <1>3 DEF Disagrees, ReplayRecord, ReplayDecisionRecord, NoTime
  <2>3. t \in ReplayTombstone /\ t.decision = x /\ t.observed = r.outcome
    BY <1>3, <2>2 DEF ReplayTombstone, ReplayRecord
  <2>4. t.observed - t.decision.created \in 0..MaxDelay
    BY <1>3, <2>2, <2>3, ReplayAssumption
  <2>5. t.decision.id = r.id /\ t.decision.action = r.arm
    BY <1>3, <2>2, <2>3
  <2> HIDE DEF t, x
  <2>6. r.id \notin Filed(h.completed)
    BY <1>2
  <2>7. /\ CompletedHolds(completed)
        /\ Filed(completed) = Filed(h.completed) \cup {r.id}
        /\ Cardinality(Filed(completed)) = Cardinality(Filed(h.completed)) + 1
        /\ \A a : Cardinality(WithAction(completed, a)) =
                    Cardinality(WithAction(h.completed, a)) + IF a = r.arm THEN 1 ELSE 0
    BY <1>2, <2>3, <2>4, <2>5, <2>6, CompletedWith
  <2>8. /\ PendingHolds(pending)
        /\ Filed(pending) = Filed(h.pending) \ {r.id}
        /\ Cardinality(Filed(pending)) = Cardinality(Filed(h.pending)) - 1
    <3>1. h.pending \in [DecisionIds -> ReplayDecisionRecord \cup {NoDecision}]
      BY <1>2 DEF PendingHolds
    <3>2. pending = [d \in DecisionIds |-> IF d \in {r.id} THEN NoDecision ELSE h.pending[d]]
      BY <3>1
    <3>3. {r.id} \in SUBSET Filed(h.pending)
      OBVIOUS
    <3>4. pending = [h.pending EXCEPT ![r.id] = NoDecision] /\ r.id \in Filed(h.pending)
      BY <3>3
    <3> HIDE DEF pending
    <3>5. PendingHolds(pending)
      <4>1. PendingHolds(h.pending)
        BY <1>2, Zenon
      <4>2. PendingHolds([h.pending EXCEPT ![r.id] = NoDecision])
        BY <3>4, <4>1, PendingWithoutOne
      <4> QED
        BY <3>4, <4>2, Zenon
    <3>6. /\ Filed([h.pending EXCEPT ![r.id] = NoDecision]) = Filed(h.pending) \ {r.id}
          /\ Cardinality(Filed([h.pending EXCEPT ![r.id] = NoDecision])) = Cardinality(Filed(h.pending)) - 1
      BY <3>1, <3>4, FiledWithout, Zenon
    <3> QED
      BY <3>4, <3>5, <3>6, Zenon
  <2>9. latencies \in Seq(Int) /\ Len(latencies) = Cardinality(Filed(completed))
    <3>1. h.latencies \in Seq(Int) /\ Len(h.latencies) = Cardinality(Filed(h.completed))
      BY DEF ReplayHolds
    <3>2. r.outcome - r.timestamp \in Int
      BY <2>2 DEF ReplayRecord
    <3>3. latencies \in Seq(Int) /\ Len(latencies) = Len(h.latencies) + 1
      BY <3>1, <3>2
    <3> QED
      BY <2>7, <3>1, <3>3
  <2>10. pulls \in [Arms -> Nat] /\ \A a \in Arms : pulls[a] = Cardinality(WithAction(completed, a))
    <3>1. h.pulls \in [Arms -> Nat] /\ \A a \in Arms : h.pulls[a] = Cardinality(WithAction(h.completed, a))
      BY DEF ReplayHolds
    <3>2. \A a \in Arms : pulls[a] = h.pulls[a] + IF a = r.arm THEN 1 ELSE 0
      BY <3>1
    <3> HIDE DEF completed
    <3> QED
      BY <2>2, <2>7, <3>1, <3>2
  <2> HIDE DEF pending, completed, pulls, latencies
  <2>11. /\ ReplayFields \subseteq DOMAIN totals
         /\ totals.pulls = pulls /\ totals.missing = h.missing /\ totals.expired = h.expired
         /\ totals.processed = h.processed
    BY <1>1 DEF ReplayFields
  <2> HIDE DEF totals
  <2>12. /\ ReplayFields \subseteq DOMAIN g
         /\ g.model = learned.state /\ g.pending = pending /\ g.completed = completed
         /\ g.pulls = pulls /\ g.latencies = latencies /\ g.missing = h.missing /\ g.expired = h.expired
         /\ g.processed = h.processed
    BY <2>11 DEF ReplayFields
  <2> HIDE DEF g
  <2>13. Filed(pending) \cap Filed(completed) = {}
    BY <1>2, <2>7, <2>8
  <2>14. /\ Cardinality(Filed(h.pending)) \in Nat /\ Cardinality(Filed(h.completed)) \in Nat
    BY FiledIsFinite
  <2>15. /\ h.missing \in Nat /\ h.expired \in Nat /\ h.model.samples \in Nat
         /\ h.missing <= Cardinality(Filed(h.completed)) + Cardinality(Filed(h.pending)) + h.expired
         /\ h.model.samples <= Cardinality(Filed(h.completed))
    BY DEF ReplayHolds, IsLinUcb
  <2>16. /\ h.missing <= Cardinality(Filed(completed)) + Cardinality(Filed(pending)) + h.expired
         /\ learned.state.samples <= Cardinality(Filed(completed))
    BY <2>1, <2>7, <2>8, <2>14, <2>15
  <2>17. ReplayHolds(g)
    BY <2>1, <2>7, <2>8, <2>9, <2>10, <2>12, <2>13, <2>15, <2>16 DEF ReplayHolds
  <2>18. Follows(g, h)
    BY <2>12, <2>17 DEF Follows
  <2> QED
    BY <1>4, <2>18 DEF Done, Refused, Follows
<1>6. CASE ~learned.ok
  BY <1>4, <1>6 DEF Refused, Follows
<1> QED
  BY <1>5, <1>6

LEMMA ReplayOutcomeHolds ==
    ASSUME NEW h, ReplayHolds(h), NEW r \in ReplayRecord
    PROVE  Follows(ReplayOutcome(h, r).state, h)
<1> DEFINE twice == [h EXCEPT !.duplicates = h.duplicates + 1]
<1>1. PendingIds(h) = Filed(h.pending) /\ ReplayFields \subseteq DOMAIN h
  BY ReplayIdsAreFiled DEF ReplayHolds
<1>2. \/ ReplayOutcome(h, r) = Rejected(h)
      \/ ReplayOutcome(h, r) = Done(twice)
      \/ ReplayOutcome(h, r) = Done(Expired(h, r.outcome))
      \/ /\ ReplayOutcome(h, r) = Completed(h, r)
         /\ r.id \in Filed(h.pending)
         /\ ~(r.outcome > h.pending[r.id].expires) /\ ~Disagrees(r, h.pending[r.id])
  BY <1>1 DEF ReplayOutcome
<1>3. Follows(Rejected(h).state, h)
  BY RejectedHolds
<1>4. Follows(Done(twice).state, h)
  <2>1. /\ ReplayFields \subseteq DOMAIN twice /\ Accounts(twice) = Accounts(h)
        /\ twice.processed = h.processed /\ twice.model = h.model
    BY <1>1 DEF ReplayFields, Accounts
  <2> HIDE DEF twice
  <2> QED
    BY <2>1, HoldsWithModel DEF Done
<1>5. Follows(Done(Expired(h, r.outcome)).state, h)
  BY ExpiredHolds DEF Done
<1> HIDE DEF twice
<1> QED
  BY <1>2, <1>3, <1>4, <1>5, CompletedFollows

-----------------------------------------------------------------------------
(* The events of a chunk. They are ordered by time, decisions before       *)
(* outcomes and then by position: as many come before the n-th as n - 1.   *)

Before(e, f) ==
    \/ e[1] < f[1]
    \/ e[1] = f[1] /\ (e[2] < f[2] \/ (e[2] = f[2] /\ e[3] < f[3]))

\* The place of an element among others is taken once and every place is.
LEMMA RanksAreTaken ==
    ASSUME NEW A \in SUBSET (Int \X Int \X Int), IsFiniteSet(A), NEW n \in 1..Cardinality(A)
    PROVE  \E e \in A : Cardinality({f \in A : Before(f, e)}) = n - 1
<1> DEFINE below(e) == {f \in A : Before(f, e)}
<1> DEFINE rank == [e \in A |-> Cardinality(below(e)) + 1]
<1> DEFINE places == 1..Cardinality(A)
<1>1. Cardinality(A) \in Nat
  BY FS_CardinalityType
<1>2. ASSUME NEW e \in A
      PROVE  /\ IsFiniteSet(below(e)) /\ Cardinality(below(e)) \in Nat
             /\ Cardinality(below(e)) < Cardinality(A)
  <2>1. below(e) \in SUBSET A /\ e \notin below(e)
    BY DEF Before
  <2>2. below(e) # A
    BY <2>1
  <2> HIDE DEF below
  <2>3. IsFiniteSet(below(e)) /\ Cardinality(below(e)) <= Cardinality(A) /\ Cardinality(below(e)) # Cardinality(A)
    BY <2>1, <2>2, FS_Subset
  <2>4. Cardinality(below(e)) \in Nat
    BY <2>3, FS_CardinalityType
  <2> QED
    BY <1>1, <2>3, <2>4
<1>3. ASSUME NEW e \in A, NEW f \in A, Before(e, f)
      PROVE  Cardinality(below(e)) # Cardinality(below(f))
  <2>1. \A g \in A : Before(g, e) => Before(g, f)
    BY <1>3 DEF Before
  <2>2. ~Before(e, e)
    BY DEF Before
  <2>3. below(e) \in SUBSET below(f) /\ below(e) # below(f)
    BY <1>3, <2>1, <2>2
  <2>4. IsFiniteSet(below(f))
    BY <1>2
  <2> HIDE DEF below
  <2> QED
    BY <2>3, <2>4, FS_Subset
<1>4. rank \in Injection(A, places)
  <2>1. rank \in [A -> places]
    <3> HIDE DEF below
    <3> QED
      BY <1>1, <1>2
  <2>2. ASSUME NEW e \in A, NEW f \in A, rank[e] = rank[f]
        PROVE  e = f
    <3>1. Cardinality(below(e)) = Cardinality(below(f))
      <4> HIDE DEF below
      <4> QED
        BY <1>2, <2>2
    <3>2. ~Before(e, f) /\ ~Before(f, e)
      <4> HIDE DEF below
      <4> QED
        BY <1>3, <3>1
    <3>3. e \in Int \X Int \X Int /\ f \in Int \X Int \X Int
      OBVIOUS
    <3>4. e[1] = f[1] /\ e[2] = f[2] /\ e[3] = f[3]
      BY <3>2, <3>3 DEF Before
    <3> QED
      BY <3>3, <3>4
  <2> HIDE DEF rank, places
  <2> QED
    BY <2>1, <2>2, Zenon DEF Injection, IsInjective
<1>5. IsFiniteSet(places) /\ Cardinality(places) = Cardinality(A)
  BY <1>1, FS_Interval
<1>6. rank \in Surjection(A, places)
  <2> HIDE DEF rank, places
  <2> QED
    BY <1>4, <1>5, FS_Injection
<1>7. n \in places
  OBVIOUS
<1>8. PICK e \in A : rank[e] = n
  <2> HIDE DEF rank, places
  <2> QED
    BY <1>6, <1>7 DEF Surjection
<1>9. Cardinality(below(e)) \in Nat
  BY <1>2
<1>10. Cardinality(below(e)) + 1 = n
  <2> HIDE DEF below
  <2> QED
    BY <1>8
<1> HIDE DEF below
<1>11. Cardinality(below(e)) = n - 1
  BY <1>9, <1>10
<1> QED
  BY <1>11 DEF below

\* An event names a record of its chunk; outcomes have a time.
EventOf(e, records) == e[2] \in {0, 1} /\ e[3] \in DOMAIN records

LEMMA EventsAreOfRecords ==
    ASSUME NEW records \in Seq(ReplayRecord)
    PROVE  /\ Len(Events(records)) \in Nat
           /\ \A n \in 1..Len(Events(records)) : EventOf(Events(records)[n], records)
<1> DEFINE decisions == {<<records[i].timestamp, 0, i>> : i \in DOMAIN records}
<1> DEFINE answered == {j \in DOMAIN records : records[j].outcome # NoTime}
<1> DEFINE outcomes == {<<records[i].outcome, 1, i>> : i \in answered}
<1> DEFINE all == decisions \cup outcomes
<1> DEFINE rank(e) == Cardinality({f \in all : Before(f, e)})
<1> DEFINE events == [n \in 1..Cardinality(all) |-> CHOOSE e \in all : rank(e) = n - 1]
<1>1. Events(records) = events
  BY DEF Events, Before
<1>2. \A i \in DOMAIN records : records[i] \in ReplayRecord /\ i \in Nat
  OBVIOUS
<1>3. \A i \in DOMAIN records : records[i].timestamp \in Int /\ records[i].outcome \in Int
  <2>1. ASSUME NEW r \in ReplayRecord
        PROVE  r.timestamp \in Int /\ r.outcome \in Int
    BY DEF ReplayRecord, NoTime
  <2> QED
    BY <1>2, <2>1
<1>4. all \in SUBSET (Int \X Int \X Int)
  BY <1>2, <1>3
<1>5. \A e \in all : EventOf(e, records)
  BY DEF EventOf
<1>6. IsFiniteSet(all)
  <2>1. IsFiniteSet(DOMAIN records)
    BY FS_Interval
  <2> DEFINE toDecision == [i \in DOMAIN records |-> <<records[i].timestamp, 0, i>>]
  <2> DEFINE toOutcome == [i \in answered |-> <<records[i].outcome, 1, i>>]
  <2>2. toDecision \in Surjection(DOMAIN records, decisions)
    BY DEF Surjection
  <2>3. toOutcome \in Surjection(answered, outcomes)
    BY DEF Surjection
  <2>4. IsFiniteSet(answered)
    BY <2>1, FS_Subset
  <2> HIDE DEF toDecision, toOutcome, decisions, outcomes, answered
  <2>5. IsFiniteSet(decisions) /\ IsFiniteSet(outcomes)
    BY <2>1, <2>2, <2>3, <2>4, FS_Surjection
  <2> QED
    BY <2>5, FS_Union
<1> HIDE DEF all
<1>7. Cardinality(all) \in Nat
  BY <1>6, FS_CardinalityType
<1>8. Len(events) = Cardinality(all)
  BY <1>7
<1>9. ASSUME NEW n \in 1..Cardinality(all)
      PROVE  EventOf(events[n], records)
  <2>1. \E e \in all : rank(e) = n - 1
    BY <1>4, <1>6, RanksAreTaken
  <2>2. events[n] \in all
    <3> HIDE DEF rank
    <3> QED
      BY <2>1
  <2> HIDE DEF events
  <2> QED
    BY <1>5, <2>2
<1> HIDE DEF events
<1> QED
  BY <1>1, <1>7, <1>8, <1>9

\* The recursion of Replayed.
Replaying(f, h, records, n) ==
    f = [i \in 0..n |->
            IF i = 0 THEN Done(h)
            ELSE IF ~f[i - 1].ok THEN f[i - 1]
            ELSE ReplayEvent(f[i - 1].state, records[Events(records)[i][3]], Events(records)[i][2])]

LEMMA ReplayingExtends ==
    ASSUME NEW h, NEW records, NEW n \in Nat, NEW f, Replaying(f, h, records, n)
    PROVE  \E g : Replaying(g, h, records, n + 1)
<1> DEFINE next(r, i) ==
        IF ~r.ok THEN r ELSE ReplayEvent(r.state, records[Events(records)[i][3]], Events(records)[i][2])
<1> DEFINE last == next(f[n], n + 1)
<1> DEFINE g == [i \in 0..(n + 1) |-> IF i = n + 1 THEN last ELSE f[i]]
<1>1. \A i \in 0..n : f[i] = IF i = 0 THEN Done(h) ELSE next(f[i - 1], i)
  BY DEF Replaying
<1>2. \A i \in 0..n : g[i] = f[i]
  OBVIOUS
<1>3. g[n + 1] = last
  OBVIOUS
<1>4. DOMAIN g = 0..(n + 1) /\ g = [i \in 0..(n + 1) |-> g[i]]
  OBVIOUS
<1> HIDE DEF g
<1>5. ASSUME NEW i \in 0..(n + 1)
      PROVE  g[i] = IF i = 0 THEN Done(h) ELSE next(g[i - 1], i)
  <2> HIDE DEF next
  <2>1. CASE i = n + 1
    BY <1>2, <1>3, <2>1
  <2>2. CASE i \in 1..n
    <3>1. g[i] = f[i] /\ g[i - 1] = f[i - 1]
      BY <1>2, <2>2
    <3> QED
      BY <1>1, <2>2, <3>1
  <2>3. CASE i = 0
    BY <1>1, <1>2, <2>3
  <2> QED
    BY <2>1, <2>2, <2>3
<1>6. Replaying(g, h, records, n + 1)
  BY <1>4, <1>5 DEF Replaying
<1> QED
  BY <1>6

LEMMA ReplayingExists ==
    ASSUME NEW h, NEW records, NEW n \in Nat
    PROVE  \E f : Replaying(f, h, records, n)
<1> DEFINE Solvable(k) == \E f : Replaying(f, h, records, k)
<1> DEFINE T == {k \in Nat : Solvable(k)}
<1>1. Solvable(0)
  <2>1. Replaying([i \in 0..0 |-> Done(h)], h, records, 0)
    BY DEF Replaying
  <2> QED
    BY <2>1
<1>2. ASSUME NEW k \in Nat, Solvable(k)
      PROVE  Solvable(k + 1)
  BY <1>2, ReplayingExtends
<1> HIDE DEF Solvable
<1>3. 0 \in T /\ \A k \in T : k + 1 \in T
  BY <1>1, <1>2
<1>4. T \in SUBSET Nat
  OBVIOUS
<1>5. T = Nat
  <2> HIDE DEF T
  <2> QED
    BY <1>3, <1>4, Induction
<1> QED
  BY <1>5 DEF Solvable

\* A chunk of valid records keeps the invariant, whether it is replayed to its end
\* or stops at an error.
LEMMA ReplayedHolds ==
    ASSUME NEW h, ReplayHolds(h), NEW records \in Seq(ReplayRecord),
           \A i \in DOMAIN records : records[i].arm \in Arms
    PROVE  Follows(Replayed(h, records).state, h)
<1> DEFINE n == Len(Events(records))
<1> DEFINE f == CHOOSE g : Replaying(g, h, records, n)
<1>1. n \in Nat /\ \A i \in 1..n : EventOf(Events(records)[i], records)
  BY EventsAreOfRecords
<1>2. Replayed(h, records) = f[n]
  BY DEF Replayed, Replaying
<1>3. Replaying(f, h, records, n)
  <2> HIDE DEF n
  <2> QED
    BY <1>1, ReplayingExists
<1> HIDE DEF f, n
<1> DEFINE T == {k \in Nat : k <= n => Follows(f[k].state, h)}
<1>4. 0 \in T
  <2>1. f[0] = Done(h)
    BY <1>1, <1>3 DEF Replaying
  <2> QED
    BY <2>1 DEF Done, Follows
<1>5. ASSUME NEW k \in Nat, k + 1 <= n, Follows(f[k].state, h)
      PROVE  Follows(f[k + 1].state, h)
  <2> DEFINE i == k + 1
  <2> DEFINE e == Events(records)[i]
  <2> DEFINE next == ReplayEvent(f[k].state, records[e[3]], e[2])
  <2>1. i \in 1..n /\ i \in 0..n /\ i # 0 /\ i - 1 = k
    BY <1>1, <1>5
  <2> HIDE DEF i
  <2>2. f[i] = f[k] \/ f[i] = next
    BY <1>3, <2>1 DEF Replaying
  <2>3. EventOf(e, records)
    BY <1>1, <2>1
  <2> HIDE DEF e
  <2>4. records[e[3]] \in ReplayRecord /\ records[e[3]].arm \in Arms
    BY <2>3 DEF EventOf
  <2>5. ReplayHolds(f[k].state) /\ f[k].state.processed = h.processed
    BY <1>5 DEF Follows
  <2>6. /\ Follows(ReplayDecision(f[k].state, records[e[3]]).state, f[k].state)
        /\ Follows(ReplayOutcome(f[k].state, records[e[3]]).state, f[k].state)
    BY <2>4, <2>5, ReplayDecisionHolds, ReplayOutcomeHolds
  <2>7. Follows(next.state, f[k].state)
    BY <2>6 DEF ReplayEvent
  <2> HIDE DEF next
  <2>8. Follows(next.state, h)
    BY <2>5, <2>7 DEF Follows
  <2>9. Follows(f[i].state, h)
    BY <1>5, <2>2, <2>8
  <2> QED
    BY <2>9 DEF i
<1>6. \A k \in T : k + 1 \in T
  <2> TAKE k \in T
  <2>1. k \in Nat /\ (k <= n => Follows(f[k].state, h))
    OBVIOUS
  <2>2. k + 1 <= n => Follows(f[k + 1].state, h)
    BY <1>1, <1>5, <2>1
  <2> QED
    BY <2>1, <2>2
<1>7. T \in SUBSET Nat
  OBVIOUS
<1>8. T = Nat
  <2> HIDE DEF T
  <2> QED
    BY <1>4, <1>6, <1>7, Induction
<1>9. Follows(f[n].state, h)
  BY <1>1, <1>8
<1> QED
  BY <1>2, <1>9

-----------------------------------------------------------------------------
(* Chunks.                                                                 *)

LEMMA NewReplayHolds == ReplayHolds(NewReplay) /\ NewReplay.processed = 0
<1> DEFINE none == [d \in DecisionIds |-> NoDecision]
<1> DEFINE pulls == [a \in Arms |-> 0]
<1>1. /\ Filed(none) = {} /\ Cardinality(Filed(none)) = 0
      /\ PendingHolds(none) /\ CompletedHolds(none)
  BY NothingIsFiled
<1>2. \A a : WithAction(none, a) = {}
  <2> HIDE DEF none
  <2> QED
    BY <1>1 DEF WithAction
<1>3. \A a \in Arms : pulls[a] = Cardinality(WithAction(none, a))
  <2>1. Cardinality({}) = 0
    BY FS_EmptySet
  <2> HIDE DEF none
  <2> QED
    BY <1>2, <2>1
<1>4. pulls \in [Arms -> Nat]
  OBVIOUS
<1>5. /\ ReplayFields \subseteq DOMAIN NewReplay
      /\ NewReplay.model = NewLinUcb /\ NewReplay.pending = none /\ NewReplay.completed = none
      /\ NewReplay.pulls = pulls /\ NewReplay.latencies = <<>> /\ NewReplay.missing = 0
      /\ NewReplay.expired = 0 /\ NewReplay.processed = 0
  BY DEF NewReplay, ReplayFields
<1> HIDE DEF none, pulls
<1>6. <<>> \in Seq(Int) /\ Len(<<>>) = 0
  OBVIOUS
<1> DEFINE h == NewReplay
<1> HIDE DEF h
<1>7. /\ ReplayFields \subseteq DOMAIN h
      /\ h.model = NewLinUcb /\ h.pending = none /\ h.completed = none
      /\ h.pulls = pulls /\ h.latencies = <<>> /\ h.missing = 0 /\ h.expired = 0 /\ h.processed = 0
  BY <1>5 DEF h
<1>8. IsLinUcb(h.model) /\ h.model.samples = 0
  BY <1>7, NewLinUcbHolds
<1>9. h.latencies \in Seq(Int) /\ Len(h.latencies) = Cardinality(Filed(h.completed))
  BY <1>1, <1>6, <1>7
<1>10. ReplayHolds(h)
  BY <1>1, <1>3, <1>4, <1>7, <1>8, <1>9 DEF ReplayHolds
<1> QED
  BY <1>7, <1>10 DEF h

\* A chunk is counted if it is taken, and leaves nothing behind if it is not.
LEMMA ReplayKeeps ==
    ASSUME NEW h, ReplayHolds(h), h.processed \in Nat, NEW records \in Seq(ReplayRecord),
           NEW r, r = Replay(h, records)
    PROVE  /\ ReplayHolds(r.state)
           /\ r.state.processed = IF r.ok THEN h.processed + Len(records) ELSE h.processed
<1> DEFINE counted == [h EXCEPT !.processed = h.processed + Len(records)]
<1> DEFINE next == Replayed(counted, records)
<1>1. ReplayFields \subseteq DOMAIN h
  BY DEF ReplayHolds
<1>2. \/ r = Refused(h)
      \/ r = Kept(h, next) /\ \A i \in DOMAIN records : RecordIsValid(records[i])
  BY <1>1 DEF Replay, ReplayFields
<1>3. /\ ReplayFields \subseteq DOMAIN counted /\ Accounts(counted) = Accounts(h)
      /\ counted.model = h.model /\ counted.processed = h.processed + Len(records)
  BY <1>1 DEF ReplayFields, Accounts
<1> HIDE DEF counted
<1>4. ReplayHolds(counted)
  BY <1>3 DEF ReplayHolds, Accounts
<1>5. CASE r = Refused(h)
  BY <1>5 DEF Refused
<1>6. CASE r = Kept(h, next) /\ \A i \in DOMAIN records : RecordIsValid(records[i])
  <2>1. \A i \in DOMAIN records : records[i].arm \in Arms
    BY <1>6 DEF RecordIsValid
  <2>2. Follows(next.state, counted)
    BY <1>4, <2>1, ReplayedHolds
  <2> HIDE DEF next
  <2>3. (r = next /\ next.ok) \/ r = Refused(h)
    BY <1>6 DEF Kept
  <2> QED
    BY <1>3, <1>5, <2>2, <2>3 DEF Follows
<1> QED
  BY <1>2, <1>5, <1>6

-----------------------------------------------------------------------------
(* The records of a log.                                                   *)

Summed(f, l) == f = [n \in 0..Len(l) |-> IF n = 0 THEN 0 ELSE f[n - 1] + Len(l[n])]

LEMMA SummedExists ==
    ASSUME NEW S, NEW l \in Seq(Seq(S))
    PROVE  \E f \in [0..Len(l) -> Nat] : Summed(f, l)
<1> DEFINE n == Len(l)
<1> DEFINE F == [p \in Nat \X (1..n) |-> p[1] + Len(l[p[2]])]
<1>1. n \in Nat /\ \A i \in 1..n : Len(l[i]) \in Nat
  <2>1. \A i \in 1..n : l[i] \in Seq(S)
    OBVIOUS
  <2> QED
    BY <2>1
<1>2. F \in [Nat \X (1..n) -> Nat]
  <2> HIDE DEF n
  <2> QED
    BY <1>1
<1>3. \A v \in Nat, i \in 1..n : F[v, i] = v + Len(l[i])
  <2> HIDE DEF n
  <2> QED
    OBVIOUS
<1> HIDE DEF F
<1>4. PICK f \in [0..n -> Nat] : Recursion(f, 0, F, n)
  <2> HIDE DEF n
  <2> QED
    BY <1>1, <1>2, RecursionExists
<1>5. ASSUME NEW i \in 0..n
      PROVE  f[i] = IF i = 0 THEN 0 ELSE f[i - 1] + Len(l[i])
  <2> HIDE DEF n
  <2>1. f[i] = IF i = 0 THEN 0 ELSE F[f[i - 1], i]
    BY <1>4 DEF Recursion
  <2>2. CASE i = 0
    BY <2>1, <2>2
  <2>3. CASE i \in 1..n
    <3>1. f[i - 1] \in Nat /\ i # 0
      BY <1>1, <1>4, <2>3
    <3> QED
      BY <1>3, <2>1, <2>3, <3>1
  <2> QED
    BY <1>1, <2>2, <2>3
<1>6. Summed(f, l)
  BY <1>4, <1>5 DEF Summed
<1> QED
  BY <1>4, <1>6

LEMMA SummedAgree ==
    ASSUME NEW l, NEW m, Len(l) \in Nat, Len(m) \in Nat, Len(l) <= Len(m), NEW f, NEW g,
           Summed(f, l), Summed(g, m), \A i \in 1..Len(l) : m[i] = l[i]
    PROVE  \A k \in 0..Len(l) : f[k] = g[k]
<1> DEFINE T == {k \in Nat : k <= Len(l) => f[k] = g[k]}
<1>1. 0 \in T
  <2>1. 0 \in 0..Len(l) /\ 0 \in 0..Len(m)
    OBVIOUS
  <2>2. f[0] = 0 /\ g[0] = 0
    BY <2>1 DEF Summed
  <2> QED
    BY <2>2
<1>2. ASSUME NEW k \in Nat, k + 1 <= Len(l), f[k] = g[k]
      PROVE  f[k + 1] = g[k + 1]
  <2> DEFINE n == k + 1
  <2>1. n \in 0..Len(l) /\ n \in 0..Len(m) /\ n # 0 /\ n - 1 = k /\ m[n] = l[n]
    BY <1>2
  <2> HIDE DEF n
  <2>2. f[n] = f[n - 1] + Len(l[n]) /\ g[n] = g[n - 1] + Len(m[n])
    BY <2>1 DEF Summed
  <2>3. f[n] = g[n]
    BY <1>2, <2>1, <2>2
  <2> QED
    BY <2>3 DEF n
<1>3. \A k \in T : k + 1 \in T
  BY <1>2
<1>4. T \in SUBSET Nat
  OBVIOUS
<1>5. T = Nat
  <2> HIDE DEF T
  <2> QED
    BY <1>1, <1>3, <1>4, Induction
<1> QED
  BY <1>5

LEMMA RecordsAre ==
    ASSUME NEW l, Len(l) \in Nat, NEW g, Summed(g, l)
    PROVE  RecordsIn(l) = g[Len(l)]
<1> DEFINE f == CHOOSE h : Summed(h, l)
<1>1. RecordsIn(l) = f[Len(l)]
  BY DEF RecordsIn, Summed
<1>2. Summed(f, l)
  OBVIOUS
<1> HIDE DEF f
<1>3. \A k \in 0..Len(l) : f[k] = g[k]
  BY <1>2, SummedAgree
<1> QED
  BY <1>1, <1>3

LEMMA RecordsAppend ==
    ASSUME NEW S, NEW l \in Seq(Seq(S)), NEW c \in Seq(S)
    PROVE  /\ RecordsIn(l) \in Nat
           /\ RecordsIn(Append(l, c)) = RecordsIn(l) + Len(c)
<1> DEFINE m == Append(l, c)
<1>1. m \in Seq(Seq(S)) /\ Len(m) = Len(l) + 1 /\ m[Len(m)] = c /\ \A i \in 1..Len(l) : m[i] = l[i]
  OBVIOUS
<1> HIDE DEF m
<1>2. Len(l) \in Nat /\ Len(m) \in Nat
  BY <1>1
<1>3. PICK f \in [0..Len(l) -> Nat] : Summed(f, l)
  BY SummedExists
<1>4. PICK g \in [0..Len(m) -> Nat] : Summed(g, m)
  BY <1>1, SummedExists
<1>5. RecordsIn(l) = f[Len(l)] /\ RecordsIn(m) = g[Len(m)]
  BY <1>2, <1>3, <1>4, RecordsAre
<1>6. f[Len(l)] = g[Len(l)]
  <2>1. Len(l) <= Len(m) /\ Summed(f, l) /\ Summed(g, m)
    BY <1>1, <1>2, <1>3, <1>4
  <2>2. \A k \in 0..Len(l) : f[k] = g[k]
    BY <1>1, <1>2, <2>1, SummedAgree
  <2> QED
    BY <1>2, <2>2
<1>7. g[Len(m)] = g[Len(m) - 1] + Len(m[Len(m)])
  BY <1>1, <1>2, <1>4 DEF Summed
<1>8. Len(l) \in 0..Len(l) /\ Len(m) - 1 = Len(l)
  BY <1>1, <1>2
<1>9. f[Len(l)] \in Nat
  BY <1>3, <1>8
<1> QED
  BY <1>1, <1>5, <1>6, <1>7, <1>8, <1>9 DEF m

LEMMA NoRecords == RecordsIn(<<>>) = 0
<1> DEFINE f == [n \in 0..0 |-> 0]
<1>1. Summed(f, <<>>)
  BY DEF Summed
<1>2. f[0] = 0 /\ Len(<<>>) = 0
  OBVIOUS
<1> HIDE DEF f
<1> QED
  BY <1>1, <1>2, RecordsAre

-----------------------------------------------------------------------------
(* The invariant and what it implies.                                      *)

ReplayInv ==
    stream.kind = "replay" =>
        /\ stream.inputs \subseteq Seq(ReplayRecord)
        /\ log \in Seq(Seq(ReplayRecord))
        /\ ReplayHolds(object)
        /\ object.processed = RecordsIn(log)

LEMMA ReplayInit == LearningInit => ReplayInv
<1> SUFFICES ASSUME LearningInit, stream.kind = "replay"
             PROVE  /\ stream.inputs \subseteq Seq(ReplayRecord)
                    /\ log \in Seq(Seq(ReplayRecord))
                    /\ ReplayHolds(object)
                    /\ object.processed = RecordsIn(log)
  BY DEF ReplayInv
<1>1. stream \in Streams /\ object = New("replay") /\ log = <<>>
  BY DEF LearningInit
<1>2. New("replay") = NewReplay
  BY DEF New, Models, Transformers, Pipes, Players
<1>3. stream.inputs \subseteq Seq(ReplayRecord)
  BY <1>1, LearningAssumption
<1> QED
  BY <1>1, <1>2, <1>3, NewReplayHolds, NoRecords

LEMMA ReplaysByKind ==
    ASSUME LearningNext, stream.kind = "replay"
    PROVE  ReplayChunk /\ stream' = stream
<1>1. stream.kind \notin Models \cup Transformers \cup Pipes \cup Players \cup {"handles"}
  BY DEF Models, Transformers, Pipes, Players
<1>2. ~Learn /\ ~Fit /\ ~LearnThrough /\ ~Play
  BY <1>1, Zenon DEF Learn, Fit, LearnThrough, Play, MayFeed
<1>3. ~CreateHandle /\ ~LearnOnHandle /\ ~CopyHandle
  BY <1>1, Zenon DEF CreateHandle, LearnOnHandle, CopyHandle, MayFeed
<1>4. ~ReadHandle /\ ~DestroyHandle
  BY DEF ReadHandle, DestroyHandle
<1>5. ReplayChunk
  BY <1>2, <1>3, <1>4, Zenon DEF LearningNext
<1> QED
  BY <1>5, Zenon DEF ReplayChunk, Took

LEMMA ReplayNext == ReplayInv /\ [LearningNext]_vars => ReplayInv'
<1> SUFFICES ASSUME ReplayInv, [LearningNext]_vars, stream'.kind = "replay"
             PROVE  /\ stream'.inputs \subseteq Seq(ReplayRecord)
                    /\ log' \in Seq(Seq(ReplayRecord))
                    /\ ReplayHolds(object')
                    /\ object'.processed = RecordsIn(log')
  BY DEF ReplayInv
<1>1. CASE UNCHANGED vars
  BY <1>1 DEF vars, ReplayInv
<1>2. CASE LearningNext
  <2>0. stream' = stream
    BY <1>2, StepsByKind
  <2>1. ReplayChunk /\ stream.kind = "replay"
    BY <1>2, <2>0, ReplaysByKind
  <2>2. /\ stream.inputs \subseteq Seq(ReplayRecord)
        /\ log \in Seq(Seq(ReplayRecord))
        /\ ReplayHolds(object)
        /\ object.processed = RecordsIn(log)
    BY <2>1 DEF ReplayInv
  <2>3. PICK input \in stream.inputs : Took(Replay(object, input), input)
    BY <2>1 DEF ReplayChunk
  <2> DEFINE r == Replay(object, input)
  <2>4. object' = r.state /\ log' = IF r.ok THEN Append(log, input) ELSE log
    BY <2>3 DEF Took
  <2>5. input \in Seq(ReplayRecord)
    BY <2>2
  <2>6. RecordsIn(log) \in Nat /\ RecordsIn(Append(log, input)) = RecordsIn(log) + Len(input)
    BY <2>2, <2>5, RecordsAppend
  <2>7. r = Replay(object, input)
    OBVIOUS
  <2> HIDE DEF r
  <2>8. /\ ReplayHolds(r.state)
        /\ r.state.processed = IF r.ok THEN object.processed + Len(input) ELSE object.processed
    BY <2>2, <2>5, <2>6, <2>7, ReplayKeeps
  <2>9. Append(log, input) \in Seq(Seq(ReplayRecord))
    BY <2>2, <2>5
  <2> QED
    BY <2>0, <2>2, <2>4, <2>6, <2>8, <2>9
<1> QED
  BY <1>1, <1>2

\* Tombstones are of different decisions, so there are as many of them as ids.
LEMMA TombstonesAre ==
    ASSUME NEW c, CompletedHolds(c), NEW D \in SUBSET Filed(c)
    PROVE  Cardinality({c[d] : d \in D}) = Cardinality(D)
<1> DEFINE T == {c[d] : d \in D}
<1> DEFINE f == [d \in D |-> c[d]]
<1>1. IsFiniteSet(D)
  BY FiledIsFinite, FS_Subset
<1>2. f \in [D -> T] /\ \A t \in T : \E d \in D : f[d] = t
  OBVIOUS
<1>3. ASSUME NEW d \in D, NEW e \in D, f[d] = f[e]
      PROVE  d = e
  <2>1. c[d].decision.id = d /\ c[e].decision.id = e
    BY DEF CompletedHolds
  <2> QED
    BY <1>3, <2>1
<1> HIDE DEF f, T
<1>4. f \in Bijection(D, T)
  BY <1>2, <1>3, Zenon DEF Bijection, Injection, Surjection, IsInjective
<1>5. Cardinality(T) = Cardinality(D)
  BY <1>1, <1>4, FS_Bijection DEF ExistsBijection
<1> QED
  BY <1>5 DEF T

LEMMA ReplayFollows == ReplayInv => ReplayAddsUp
<1> SUFFICES ASSUME ReplayInv, stream.kind = "replay"
             PROVE  ReplayAddsUp
  BY DEF ReplayAddsUp
<1> DEFINE c == object.completed
<1> DEFINE done == {c[d] : d \in Filed(c)}
<1>1. ReplayHolds(object) /\ object.processed = RecordsIn(log)
  BY DEF ReplayInv
<1>2. PendingIds(object) = Filed(object.pending) /\ CompletedIds(object) = Filed(c)
  BY ReplayIdsAreFiled
<1>3. CompletedHolds(c)
  BY <1>1 DEF ReplayHolds
<1> HIDE DEF c
<1>4. Cardinality(done) = Cardinality(Filed(c))
  BY <1>3, TombstonesAre
<1>5. ASSUME NEW a \in Arms
      PROVE  object.pulls[a] = Cardinality({t \in done : t.decision.action = a})
  <2>1. {t \in done : t.decision.action = a} = {c[d] : d \in WithAction(c, a)}
    BY DEF WithAction
  <2>2. WithAction(c, a) \in SUBSET Filed(c)
    BY DEF WithAction
  <2>3. Cardinality({c[d] : d \in WithAction(c, a)}) = Cardinality(WithAction(c, a))
    BY <1>3, <2>2, TombstonesAre
  <2>4. object.pulls[a] = Cardinality(WithAction(c, a))
    BY <1>1 DEF ReplayHolds, c
  <2> QED
    BY <2>1, <2>3, <2>4
<1>6. \A t \in done : t.observed - t.decision.created \in 0..MaxDelay
  BY <1>3 DEF CompletedHolds
<1>7. done = {object.completed[d] : d \in CompletedIds(object)}
  BY <1>2 DEF c
<1> HIDE DEF done
<1>8. /\ Len(object.latencies) = Cardinality(done)
      /\ object.missing <= Cardinality(done) + Cardinality(PendingIds(object)) + object.expired
      /\ object.model.samples <= Cardinality(done)
      /\ CompletedIds(object) \cap PendingIds(object) = {}
  BY <1>1, <1>2, <1>4 DEF ReplayHolds, c
<1> QED
  BY <1>1, <1>5, <1>6, <1>7, <1>8 DEF ReplayAddsUp

\* What a replay reports adds up with what its ledger holds, whatever chunks were
\* refused in the middle, and whatever records were rejected, duplicated or late.
THEOREM ReplaysAddUp == LearningSpec => []ReplayAddsUp
<1> QED
  BY ReplayInit, ReplayNext, ReplayFollows, PTL DEF LearningSpec

-----------------------------------------------------------------------------
(* Saved models. What a linear model keeps: finite parameters, and sums of *)
(* squares that are finite and not negative.                               *)

OptimizerHolds(o) ==
    /\ {"kind", "samples", "squares", "interceptSquares"} \subseteq DOMAIN o
    /\ o.kind \in {"sgd", "adagrad"}
    /\ o.squares = [i \in Features |-> o.squares[i]]
    /\ \A i \in Features : FiniteFloat(o.squares[i]) /\ o.squares[i] >= 0
    /\ FiniteFloat(o.interceptSquares) /\ o.interceptSquares >= 0

ParametersHold(p) ==
    /\ p.weights = [i \in Features |-> p.weights[i]]
    /\ \A i \in Features : FiniteFloat(p.weights[i])
    /\ FiniteFloat(p.intercept)

LinearHolds(m) ==
    /\ {"weights", "intercept", "optimizer", "samples"} \subseteq DOMAIN m
    /\ ParametersHold(m) /\ OptimizerHolds(m.optimizer)

LEMMA LinearAccepted == \A m : LinearHolds(m) => LinearIsValid(m)
BY DEF LinearHolds, ParametersHold, OptimizerHolds, LinearIsValid, AreFinite, AllFinite,
       OptimizerIsValid, FiniteFloat

LEMMA NewLinearHolds == \A kind \in {"sgd", "adagrad"} : LinearHolds(NewLinear(kind))
BY ZeroIsFinite DEF LinearHolds, ParametersHold, OptimizerHolds, NewLinear, NewOptimizer

LEMMA FeaturesAre == Features = 1..FeatureCount /\ FeatureCount \in Nat
BY FeatureAssumption DEF Features

\* A vector of the caller that passed the check of its features.
LEMMA VectorFeatures ==
    ASSUME NEW x \in Vectors, FeaturesAreValid(x)
    PROVE  \A i \in Features : x[i] \in Floats /\ IsFinite(x[i])
BY FeaturesAre DEF Vectors, FeaturesAreValid, AllFinite

\* A prediction is a number, or NaN for an error.
LEMMA DotIsFloat ==
    ASSUME NEW m, ParametersHold(m), NEW x, \A i \in Features : x[i] \in Floats
    PROVE  Dot(m, x) \in Floats /\ (IsFinite(Dot(m, x)) \/ Dot(m, x) = NaN)
<1> DEFINE t == [i \in Features |-> FMul(m.weights[i], x[i])]
<1>1. \A i \in Features : FMul(m.weights[i], x[i]) \in Floats
  BY ProductIsFloat DEF ParametersHold, FiniteFloat
<1>2. DOMAIN t = 1..FeatureCount /\ FeatureCount \in Nat /\ \A i \in 1..FeatureCount : t[i] \in Floats
  BY <1>1, FeaturesAre
<1> HIDE DEF t
<1>3. CheckedSum(t) \in Floats
  BY <1>2, CheckedSumIsFloat
<1>4. FAdd(CheckedSum(t), m.intercept) \in Floats
  BY <1>3, SumIsFloat DEF ParametersHold, FiniteFloat
<1>5. Dot(m, x) = OrNaN(FAdd(CheckedSum(t), m.intercept))
  BY DEF Dot, t
<1> QED
  BY <1>4, <1>5, InfinitiesAreFloats DEF OrNaN

\* The sums of squares after a step, if they are finite.
LEMMA AccumulatedHolds ==
    ASSUME NEW o, OptimizerHolds(o), NEW g, NEW gradient \in Floats, IsFinite(gradient),
           \A i \in Features : g[i] \in Floats /\ IsFinite(g[i]),
           NEW next, next = Accumulated(o, g, gradient)
    PROVE  /\ DOMAIN next = DOMAIN o /\ next.kind = o.kind /\ next.samples = o.samples
           /\ next.squares = [i \in Features |-> next.squares[i]]
           /\ \A i \in Features : next.squares[i] \in Floats
           /\ next.interceptSquares \in Floats
           /\ \A i \in Features : IsFinite(next.squares[i]) => next.squares[i] >= 0
           /\ IsFinite(next.interceptSquares) => next.interceptSquares >= 0
<1> DEFINE grown(a, b) == FAdd(a, FMul(b, b))
<1>1. ASSUME NEW a, FiniteFloat(a), a >= 0, NEW b \in Floats, IsFinite(b)
      PROVE  grown(a, b) \in Floats /\ (IsFinite(grown(a, b)) => grown(a, b) >= 0)
  <2>1. a \in Floats /\ FMul(b, b) \in Floats /\ FMul(b, b) >= 0
    BY <1>1, ProductIsFloat, SquareSign DEF FiniteFloat
  <2> QED
    BY <1>1, <2>1, SumIsFloat, FiniteSum, SumSign
<1> DEFINE squares == [i \in Features |-> grown(o.squares[i], g[i])]
<1> DEFINE s == grown(o.interceptSquares, gradient)
<1>2. next = [o EXCEPT !.squares = squares, !.interceptSquares = s]
  BY DEF Accumulated
<1>3. \A i \in Features : grown(o.squares[i], g[i]) \in Floats
                          /\ (IsFinite(grown(o.squares[i], g[i])) => grown(o.squares[i], g[i]) >= 0)
  BY <1>1 DEF OptimizerHolds
<1>4. s \in Floats /\ (IsFinite(s) => s >= 0)
  BY <1>1 DEF OptimizerHolds
<1>5. squares = [i \in Features |-> squares[i]]
      /\ \A i \in Features : squares[i] \in Floats /\ (IsFinite(squares[i]) => squares[i] >= 0)
  BY <1>3
<1> HIDE DEF squares, s
<1>6. /\ DOMAIN next = DOMAIN o /\ next.kind = o.kind /\ next.samples = o.samples
      /\ next.squares = squares /\ next.interceptSquares = s
  BY <1>2 DEF OptimizerHolds
<1> QED
  BY <1>4, <1>5, <1>6

LEMMA StepIsFloat ==
    ASSUME NEW o, NEW squares \in Floats
    PROVE  Step(o, squares) \in Floats
<1>1. Rate \in Floats /\ Epsilon \in Floats
  BY LinearAssumption
<1>2. FAdd(squares, Epsilon) \in Int /\ Rate \in Int
  BY <1>1, SumIsFloat, FiniteFloats
<1>3. FSqrt(FAdd(squares, Epsilon)) \in Int
  BY <1>2, RootHolds
<1>4. FDiv(Rate, FSqrt(FAdd(squares, Epsilon))) \in Floats
  BY <1>2, <1>3, QuotientOfIntegers
<1> QED
  BY <1>1, <1>4 DEF Step

\* The parameters after a step are numbers, or not finite.
LEMMA MovedAreFloats ==
    ASSUME NEW o, NEW p, ParametersHold(p), NEW g, NEW gradient \in Floats,
           \A i \in Features : g[i] \in Floats /\ o.squares[i] \in Floats,
           o.interceptSquares \in Floats
    PROVE  LET q == Moved(o, p, g, gradient)
           IN  /\ q.weights = [i \in Features |-> q.weights[i]]
               /\ \A i \in Features : q.weights[i] \in Floats
               /\ q.intercept \in Floats
<1> DEFINE weight(i) == FSub(p.weights[i],
                             FMul(Step(o, o.squares[i]), FAdd(g[i], FMul(Ridge, p.weights[i]))))
<1> DEFINE intercept == FSub(p.intercept, FMul(Step(o, o.interceptSquares), gradient))
<1>1. Ridge \in Floats
  BY LinearAssumption
<1>2. ASSUME NEW i \in Features
      PROVE  weight(i) \in Floats
  <2>1. p.weights[i] \in Floats /\ g[i] \in Floats /\ Step(o, o.squares[i]) \in Floats
    BY StepIsFloat DEF ParametersHold, FiniteFloat
  <2>2. FAdd(g[i], FMul(Ridge, p.weights[i])) \in Floats
    BY <1>1, <2>1, ProductIsFloat, SumIsFloat
  <2> QED
    BY <2>1, <2>2, ProductIsFloat, DifferenceIsFloat
<1>3. intercept \in Floats
  <2>1. p.intercept \in Floats /\ Step(o, o.interceptSquares) \in Floats
    BY StepIsFloat DEF ParametersHold, FiniteFloat
  <2> QED
    BY <2>1, ProductIsFloat, DifferenceIsFloat
<1> DEFINE weights == [i \in Features |-> weight(i)]
<1>4. Moved(o, p, g, gradient) = [weights |-> weights, intercept |-> intercept]
  BY DEF Moved
<1>5. weights = [i \in Features |-> weights[i]] /\ \A i \in Features : weights[i] \in Floats
  BY <1>2
<1> HIDE DEF weights, intercept
<1> QED
  BY <1>3, <1>4, <1>5

\* An optimiser hands out finite parameters, or refuses.
LEMMA OptimizerSteps ==
    ASSUME NEW o, OptimizerHolds(o), NEW p, ParametersHold(p), NEW g, NEW gradient \in Floats,
           DOMAIN g = Features, \A i \in Features : g[i] \in Floats
    PROVE  LET r == OptimizerStep(o, p, g, gradient)
           IN  r.ok => ParametersHold(r.parameters) /\ OptimizerHolds(r.optimizer)
<1> DEFINE next == Accumulated(o, g, gradient)
<1> DEFINE q == Moved(next, p, g, gradient)
<1> DEFINE r == OptimizerStep(o, p, g, gradient)
<1> DEFINE u == [(IF o.kind = "sgd" THEN o ELSE next) EXCEPT !.samples = @ + 1]
<1> SUFFICES ASSUME r.ok
             PROVE  ParametersHold(r.parameters) /\ OptimizerHolds(r.optimizer)
  OBVIOUS
<1>1. /\ AllFinite(g) /\ IsFinite(gradient)
      /\ AreFinite(q)
      /\ o.kind = "adagrad" => AllFinite(next.squares) /\ IsFinite(next.interceptSquares)
      /\ r = [ok |-> TRUE, parameters |-> q, optimizer |-> u]
  BY DEF OptimizerStep, StepTaken
<1>2. /\ DOMAIN next = DOMAIN o /\ next.kind = o.kind
      /\ next.squares = [i \in Features |-> next.squares[i]]
      /\ \A i \in Features : next.squares[i] \in Floats
      /\ next.interceptSquares \in Floats
      /\ \A i \in Features : IsFinite(next.squares[i]) => next.squares[i] >= 0
      /\ IsFinite(next.interceptSquares) => next.interceptSquares >= 0
  <2>1. \A i \in Features : g[i] \in Floats /\ IsFinite(g[i])
    BY <1>1 DEF AllFinite
  <2> QED
    BY <1>1, <2>1, AccumulatedHolds
<1> HIDE DEF next
<1>3. /\ q.weights = [i \in Features |-> q.weights[i]]
      /\ \A i \in Features : q.weights[i] \in Floats
      /\ q.intercept \in Floats
  BY <1>2, MovedAreFloats
<1> HIDE DEF q, r
<1>4. ParametersHold(q)
  BY <1>1, <1>3 DEF ParametersHold, AreFinite, AllFinite, FiniteFloat
<1>5. OptimizerHolds(u)
  <2> DEFINE base == IF o.kind = "sgd" THEN o ELSE next
  <2>1. OptimizerHolds(next) \/ o.kind = "sgd"
    <3> SUFFICES ASSUME o.kind # "sgd"
                 PROVE  OptimizerHolds(next)
      OBVIOUS
    <3>1. \A i \in Features : IsFinite(next.squares[i])
      BY <1>1, <1>2 DEF AllFinite, OptimizerHolds
    <3> QED
      BY <1>1, <1>2, <3>1 DEF OptimizerHolds, FiniteFloat
  <2>2. OptimizerHolds(base)
    BY <2>1
  <2> HIDE DEF base
  <2> DEFINE b == base
  <2>3. OptimizerHolds([b EXCEPT !.samples = b.samples + 1])
    BY <2>2 DEF OptimizerHolds
  <2>4. u = [b EXCEPT !.samples = b.samples + 1]
    BY DEF base
  <2> QED
    BY <2>3, <2>4
<1> QED
  BY <1>1, <1>4, <1>5

\* A step of a linear model keeps it, taken or refused.
LEMMA DescendHolds ==
    ASSUME NEW m, LinearHolds(m), NEW x, \A i \in Features : x[i] \in Floats,
           NEW gradient \in Floats
    PROVE  LinearHolds(Descend(m, x, gradient).state)
<1> DEFINE o == m.optimizer
<1> DEFINE p == [weights |-> m.weights, intercept |-> m.intercept]
<1> DEFINE g == [i \in Features |-> FMul(gradient, x[i])]
<1> DEFINE stepped == OptimizerStep(o, p, g, gradient)
<1> DEFINE d == Descend(m, x, gradient)
<1> DEFINE next == [m EXCEPT !.weights = stepped.parameters.weights,
                             !.intercept = stepped.parameters.intercept,
                             !.optimizer = stepped.optimizer, !.samples = @ + 1]
<1>1. d = IF stepped.ok THEN Done(next) ELSE Refused(m)
  BY DEF Descend, Adopted
<1>2. ParametersHold(p) /\ OptimizerHolds(o)
  BY DEF LinearHolds, ParametersHold
<1>3. DOMAIN g = Features /\ \A i \in Features : g[i] \in Floats
  BY ProductIsFloat
<1> HIDE DEF o, p, g
<1>4. stepped.ok => ParametersHold(stepped.parameters) /\ OptimizerHolds(stepped.optimizer)
  BY <1>2, <1>3, OptimizerSteps
<1>5. /\ DOMAIN next = DOMAIN m /\ next.weights = stepped.parameters.weights
      /\ next.intercept = stepped.parameters.intercept /\ next.optimizer = stepped.optimizer
  <2> HIDE DEF stepped
  <2> QED
    BY DEF LinearHolds
<1> HIDE DEF d, next, stepped
<1>6. stepped.ok => LinearHolds(next)
  BY <1>4, <1>5 DEF LinearHolds, ParametersHold
<1>7. LinearHolds(d.state)
  BY <1>1, <1>6 DEF Done, Refused
<1> QED
  BY <1>7 DEF d

LEMMA LinearLearnHolds ==
    ASSUME NEW m, LinearHolds(m), NEW loss, NEW x \in Vectors, NEW target \in Floats,
           NEW weight \in Floats
    PROVE  LinearHolds(LinearLearn(loss, m, x, target, weight).state)
<1> DEFINE r == LinearLearn(loss, m, x, target, weight)
<1> DEFINE gradient == FMul(Gradient(loss, Dot(m, x), target), weight)
<1>1. r = Refused(m) \/ r = Done(m) \/ (FeaturesAreValid(x) /\ r = Descend(m, x, gradient))
  BY Zenon DEF LinearLearn
<1>2. ASSUME FeaturesAreValid(x)
      PROVE  LinearHolds(Descend(m, x, gradient).state)
  <2>1. \A i \in Features : x[i] \in Floats
    BY <1>2, VectorFeatures
  <2>2. ParametersHold(m)
    BY DEF LinearHolds
  <2>3. Dot(m, x) \in Floats
    BY <2>1, <2>2, DotIsFloat
  <2>4. FSub(Dot(m, x), target) \in Floats
    BY <2>3, DifferenceIsFloat
  <2>5. HuberDelta \in Floats /\ -HuberDelta \in Floats
    BY LinearAssumption, NegativeIsFloat
  <2>6. Gradient(loss, Dot(m, x), target) \in Floats
    BY <2>4, <2>5, Zenon DEF Gradient
  <2>7. gradient \in Floats
    BY <2>6, ProductIsFloat
  <2> HIDE DEF gradient
  <2> QED
    BY <2>1, <2>7, DescendHolds
<1> HIDE DEF r, gradient
<1>3. LinearHolds(r.state)
  BY <1>1, <1>2 DEF Done, Refused
<1> QED
  BY <1>3 DEF r

LEMMA LogisticLearnHolds ==
    ASSUME NEW m, LinearHolds(m), NEW x \in Vectors, NEW target, NEW weight \in Floats
    PROVE  LinearHolds(LogisticLearn(m, x, target, weight).state)
<1> DEFINE r == LogisticLearn(m, x, target, weight)
<1> DEFINE gradient == FMul(LogitGradient(Sigmoid(Dot(m, x)), target), weight)
<1>1. r = Refused(m) \/ r = Done(m) \/ (FeaturesAreValid(x) /\ r = Descend(m, x, gradient))
  BY Zenon DEF LogisticLearn
<1>2. ASSUME FeaturesAreValid(x)
      PROVE  LinearHolds(Descend(m, x, gradient).state)
  <2>1. \A i \in Features : x[i] \in Floats
    BY <1>2, VectorFeatures
  <2>2. ParametersHold(m)
    BY DEF LinearHolds
  <2>3. Dot(m, x) \in Floats /\ (IsFinite(Dot(m, x)) \/ Dot(m, x) = NaN)
    BY <2>1, <2>2, DotIsFloat
  <2>4. Sigmoid(Dot(m, x)) \in Floats
    <3> DEFINE z == Dot(m, x)
    <3> HIDE DEF z
    <3>1. z \in Int /\ (IsFinite(z) \/ z = NaN)
      BY <2>3, FiniteFloats DEF z
    <3>2. Largest \in Nat
      BY FormatAssumption
    <3>3. IsFinite(z) => z \in (-Largest)..Largest
      BY <3>1, <3>2 DEF IsFinite
    <3>4. Sigmoid(z) \in Floats
      BY <3>1, <3>3, LinearAssumption, InfinitiesAreFloats
    <3> QED
      BY <3>4 DEF z
  <2>5. (IF target THEN Unit ELSE 0) \in Floats
    BY ConstantsAreFloats
  <2>6. LogitGradient(Sigmoid(Dot(m, x)), target) \in Floats
    BY <2>4, <2>5, DifferenceIsFloat DEF LogitGradient
  <2>7. gradient \in Floats
    BY <2>6, ProductIsFloat
  <2> HIDE DEF gradient
  <2> QED
    BY <2>1, <2>7, DescendHolds
<1> HIDE DEF r, gradient
<1>3. LinearHolds(r.state)
  BY <1>1, <1>2 DEF Done, Refused
<1> QED
  BY <1>3 DEF r

-----------------------------------------------------------------------------
(* What the transformers keep.                                             *)

\* The statistics of a feature, as a Welford variance.
VarianceAt(s, i) == [count |-> s.counts[i], mean |-> s.means[i], m2 |-> s.m2s[i]]

ScalerHolds(s) ==
    /\ DOMAIN s.counts = Features /\ DOMAIN s.means = Features /\ DOMAIN s.m2s = Features
    /\ \A i \in Features : VarianceHolds(VarianceAt(s, i)) /\ s.counts[i] = s.counts[1]

LEMMA ScalerAccepted == \A s : ScalerHolds(s) => ScalerIsValid(s)
<1> SUFFICES ASSUME NEW s, ScalerHolds(s)
             PROVE  ScalerIsValid(s)
  OBVIOUS
<1>1. \A i \in Features : /\ IsFinite(s.means[i]) /\ IsFinite(s.m2s[i]) /\ s.m2s[i] >= 0
                          /\ s.counts[i] = s.counts[1] /\ s.counts[i] \in Nat
                          /\ s.counts[i] = 0 => s.means[i] = 0
                          /\ s.counts[i] <= 1 => s.m2s[i] = 0
  BY DEF ScalerHolds, VarianceHolds, VarianceAt, FiniteFloat
<1> QED
  BY <1>1 DEF ScalerIsValid, ScalerHolds, AllFinite

LEMMA NewScalerHolds == ScalerHolds(NewScaler)
<1> DEFINE z == PerFeature(0)
<1>1. DOMAIN z = Features /\ \A i \in Features : z[i] = 0
  BY DEF PerFeature
<1> HIDE DEF z
<1>2. NewScaler.counts = z /\ NewScaler.means = z /\ NewScaler.m2s = z
  BY DEF NewScaler, z
<1>3. \A i \in Features : VarianceAt(NewScaler, i) = NewVariance
  BY <1>1, <1>2 DEF VarianceAt, NewVariance
<1> QED
  BY <1>1, <1>2, <1>3, NewVarianceHolds, OneIsAFeature DEF ScalerHolds

\* A scaler takes a sample into the variance of every feature, or into none.
LEMMA ScalerUpdateHolds ==
    ASSUME NEW s, ScalerHolds(s), NEW x \in Vectors
    PROVE  ScalerHolds(ScalerUpdate(s, x).state)
<1> DEFINE r == ScalerUpdate(s, x)
<1> DEFINE delta(i) == FSub(x[i], s.means[i])
<1> DEFINE mean(i) == FAdd(s.means[i], FDiv(delta(i), OfInt(s.counts[i] + 1)))
<1> DEFINE after(i) == FSub(x[i], mean(i))
<1> DEFINE m2(i) == FAdd(s.m2s[i], FMul(delta(i), after(i)))
<1> DEFINE next == [counts |-> [i \in Features |-> s.counts[i] + 1],
                    means |-> [i \in Features |-> mean(i)], m2s |-> [i \in Features |-> m2(i)]]
<1> DEFINE moved(i) == [count |-> s.counts[i] + 1, mean |-> mean(i), m2 |-> m2(i)]
<1> DEFINE Fine == /\ FeaturesAreValid(x)
                   /\ \A i \in Features : /\ CanCount(s.counts[i])
                                          /\ \A y \in {delta(i), mean(i), after(i), m2(i)} : IsFinite(y)
<1>1. r = Refused(s) \/ (Fine /\ r = Done(next))
  BY Zenon DEF ScalerUpdate
<1>2. ASSUME Fine, NEW i \in Features
      PROVE  VarianceHolds(moved(i))
  <2> DEFINE d == VarianceAt(s, i)
  <2> DEFINE y == x[i]
  <2>1. y \in Floats /\ IsFinite(y)
    BY <1>2, VectorFeatures
  <2>2. VarianceHolds(d)
    BY DEF ScalerHolds
  <2>3. d.count = s.counts[i] /\ d.mean = s.means[i] /\ d.m2 = s.m2s[i]
    BY DEF VarianceAt
  <2> HIDE DEF d
  <2>4. NextMean(d, y) = mean(i)
    BY <2>3 DEF NextMean
  <2>5. VarianceUpdate(d, y) = Done(moved(i))
    <3>1. /\ IsFinite(y) /\ CanCount(d.count)
          /\ \A z \in {FSub(y, d.mean), NextMean(d, y), FSub(y, NextMean(d, y)),
                       FAdd(d.m2, FMul(FSub(y, d.mean), FSub(y, NextMean(d, y))))} : IsFinite(z)
      BY <1>2, <2>1, <2>3, <2>4, Zenon
    <3>2. VarianceUpdate(d, y) =
             Done([count |-> d.count + 1, mean |-> NextMean(d, y),
                   m2 |-> FAdd(d.m2, FMul(FSub(y, d.mean), FSub(y, NextMean(d, y))))])
      BY <3>1, Zenon DEF VarianceUpdate
    <3> QED
      BY <2>3, <2>4, <3>2, Zenon
  <2> HIDE DEF y, moved
  <2>6. VarianceUpdate(d, y).ok /\ VarianceUpdate(d, y).state = moved(i)
    BY <2>5 DEF Done
  <2> QED
    BY <2>1, <2>2, <2>6, VarianceTakes
<1>3. \A i \in Features : s.counts[i] = s.counts[1]
  BY DEF ScalerHolds
<1>4. ASSUME Fine
      PROVE  ScalerHolds(next)
  <2>1. \A i \in Features : VarianceHolds(moved(i))
    BY <1>2, <1>4
  <2>2. \A i \in Features : VarianceAt(next, i) = moved(i)
    <3> HIDE DEF mean, m2
    <3> QED
      BY DEF VarianceAt
  <2>3. DOMAIN next.counts = Features /\ DOMAIN next.means = Features /\ DOMAIN next.m2s = Features
    OBVIOUS
  <2>4. \A i \in Features : next.counts[i] = s.counts[i] + 1
    OBVIOUS
  <2> HIDE DEF next, moved
  <2> QED
    BY <1>3, <2>1, <2>2, <2>3, <2>4, OneIsAFeature DEF ScalerHolds
<1> HIDE DEF r, next, Fine
<1>5. ScalerHolds(r.state)
  BY <1>1, <1>4 DEF Done, Refused
<1> QED
  BY <1>5 DEF r

\* A scale is a whole number, and what a scaler makes of a vector is one.
LEMMA ScalerTransforms ==
    ASSUME NEW s, ScalerHolds(s), NEW x \in Vectors, ScalerTransform(s, x).ok
    PROVE  ScalerTransform(s, x).values \in Vectors
<1> DEFINE t == ScalerTransform(s, x)
<1> DEFINE scaled(i) == FDiv(FSub(x[i], IF WithMean THEN s.means[i] ELSE 0), Scale(s, i))
<1> DEFINE values == [i \in Features |-> scaled(i)]
<1>1. t = (IF FeaturesAreValid(x) /\ AllFinite(values) THEN Transformed(values) ELSE NotTransformed)
  BY Zenon DEF ScalerTransform
<1>2. ASSUME NEW i \in Features, FeaturesAreValid(x)
      PROVE  scaled(i) \in Floats
  <2>1. s.means[i] \in Floats /\ s.m2s[i] \in Floats /\ s.counts[i] \in Nat
    BY DEF ScalerHolds, VarianceHolds, VarianceAt, FiniteFloat
  <2>2. x[i] \in Floats
    BY <1>2, VectorFeatures
  <2>3. FSub(x[i], IF WithMean THEN s.means[i] ELSE 0) \in Floats
    <3>1. (IF WithMean THEN s.means[i] ELSE 0) \in Floats
      BY <2>1, ConstantsAreFloats
    <3> QED
      BY <2>2, <3>1, DifferenceIsFloat
  <2>4. Scale(s, i) \in Int
    <3> DEFINE variance == FDiv(s.m2s[i], OfInt(s.counts[i]))
    <3>1. OfInt(s.counts[i]) \in Floats
      BY <2>1, CountBounds
    <3>2. variance \in Floats
      BY <2>1, <3>1, QuotientIsFloat
    <3>3. variance \in Int
      BY <3>2, FiniteFloats
    <3>4. FSqrt(variance) \in Int /\ Unit \in Int
      BY <3>3, RootHolds, FormatAssumption
    <3> QED
      BY <3>4, Zenon DEF Scale
  <2>5. FSub(x[i], IF WithMean THEN s.means[i] ELSE 0) \in Int
    BY <2>3, FiniteFloats
  <2> QED
    BY <2>4, <2>5, QuotientOfIntegers
<1>3. FeaturesAreValid(x) => values \in Vectors
  <2> SUFFICES ASSUME FeaturesAreValid(x)
               PROVE  values \in Vectors
    OBVIOUS
  <2>1. \A i \in Features : scaled(i) \in Floats
    BY <1>2
  <2> HIDE DEF scaled
  <2> QED
    BY <2>1, FeaturesAre DEF Vectors
<1>4. Transformed(values).values = values /\ ~NotTransformed.ok
  BY DEF Transformed, NotTransformed
<1> HIDE DEF values
<1>5. t.ok => t.values \in Vectors
  BY <1>1, <1>3, <1>4
<1> QED
  BY <1>5

\* What an imputer keeps: finite means, and how many values each is of.
FiniteNumbers == {v \in Floats : IsFinite(v)}

ImputerStates ==
    [counts : [Features -> Nat], means : [Features -> FiniteNumbers], samples : Nat]

LEMMA NewImputerHolds == NewMeanImputer \in ImputerStates
<1>1. 0 \in FiniteNumbers
  BY ConstantsAreFloats DEF FiniteNumbers
<1> QED
  BY <1>1 DEF NewMeanImputer, PerFeature, ImputerStates

LEMMA ImputingHolds ==
    ASSUME NEW x, NEW i \in Features, x[i] \in Floats, NEW r, r.state \in ImputerStates
    PROVE  Imputing(x, r, i).state \in ImputerStates
<1> DEFINE next == Imputing(x, r, i)
<1> DEFINE s == r.state
<1> DEFINE counted == [s EXCEPT !.counts[i] = @ + 1]
<1> DEFINE delta == FSub(x[i], s.means[i])
<1> DEFINE mean == FAdd(s.means[i], FDiv(delta, OfInt(s.counts[i] + 1)))
<1> DEFINE taken == [counted EXCEPT !.means[i] = mean]
<1>1. \/ next = r
      \/ next = Refused(s)
      \/ next = Refused(counted)
      \/ IsFinite(mean) /\ next = Done(taken)
  BY Zenon DEF Imputing, TakeIntoMean
<1>2. s.means[i] \in Floats /\ s.counts[i] + 1 \in Nat
  BY DEF ImputerStates, FiniteNumbers
<1>3. mean \in Floats
  <2>1. delta \in Floats
    BY <1>2, DifferenceIsFloat
  <2>2. OfInt(s.counts[i] + 1) \in Floats
    BY <1>2, CountBounds
  <2> QED
    BY <1>2, <2>1, <2>2, QuotientIsFloat, SumIsFloat
<1> HIDE DEF next, mean
<1>4. counted \in ImputerStates
  BY <1>2 DEF ImputerStates
<1>5. IsFinite(mean) => taken \in ImputerStates
  <2>1. IsFinite(mean) => mean \in FiniteNumbers
    BY <1>3 DEF FiniteNumbers
  <2> HIDE DEF counted
  <2> QED
    BY <1>4, <2>1 DEF ImputerStates
<1> HIDE DEF counted, taken
<1>6. next.state \in ImputerStates
  BY <1>1, <1>4, <1>5 DEF Done, Refused
<1> QED
  BY <1>6 DEF next

LEMMA ImputerUpdateHolds ==
    ASSUME NEW s \in ImputerStates, NEW x \in Vectors
    PROVE  MeanImputerUpdate(s, x).state \in ImputerStates
<1> DEFINE r == MeanImputerUpdate(s, x)
<1> DEFINE after == CHOOSE f : Imputation(f, s, x, FeatureCount)
<1> DEFINE taken == after[FeatureCount]
<1> DEFINE counted == [taken.state EXCEPT !.samples = @ + 1]
<1>1. \/ r = Refused(s)
      \/ Len(x) = FeatureCount /\ (r = Refused(taken.state) \/ r = Done(counted))
  BY Zenon DEF MeanImputerUpdate, ImputerUpdate, Imputation, Imputing
<1>2. FeatureCount \in Nat
  BY FeatureAssumption
<1>3. Imputation(after, s, x, FeatureCount)
  BY <1>2, ImputationExists
<1> HIDE DEF after
<1> DEFINE state == [k \in 0..FeatureCount |-> after[k].state]
<1>4. ASSUME Len(x) = FeatureCount
      PROVE  taken.state \in ImputerStates
  <2>1. state[0] \in ImputerStates
    <3>1. after[0] = Done(s)
      BY <1>2, <1>3 DEF Imputation
    <3> QED
      BY <1>2, <3>1 DEF Done
  <2>2. ASSUME NEW k \in 1..FeatureCount, state[k - 1] \in ImputerStates
        PROVE  state[k] \in ImputerStates
    <3>1. k \in 0..FeatureCount /\ k - 1 \in 0..FeatureCount /\ k \in Features /\ k # 0
      BY <1>2 DEF Features
    <3>2. after[k] = Imputing(x, after[k - 1], k)
      BY <1>3, <3>1 DEF Imputation
    <3>3. x[k] \in Floats
      BY <1>4, <3>1 DEF Vectors, Features
    <3>4. after[k - 1].state \in ImputerStates
      BY <2>2, <3>1
    <3> QED
      BY <3>1, <3>2, <3>3, <3>4, ImputingHolds
  <2> HIDE DEF state
  <2>3. \A k \in 0..FeatureCount : state[k] \in ImputerStates
    BY <1>2, <2>1, <2>2, RecursionStays
  <2> QED
    BY <1>2, <2>3 DEF state
<1> HIDE DEF r, taken
<1>5. Len(x) = FeatureCount => counted \in ImputerStates
  <2> DEFINE v == taken.state
  <2>1. counted = [v EXCEPT !.samples = v.samples + 1]
    OBVIOUS
  <2> HIDE DEF v, counted
  <2>2. v \in ImputerStates => [v EXCEPT !.samples = v.samples + 1] \in ImputerStates
    BY DEF ImputerStates
  <2> QED
    BY <1>4, <2>1, <2>2 DEF v
<1> HIDE DEF counted
<1>6. r.state \in ImputerStates
  BY <1>1, <1>4, <1>5 DEF Done, Refused
<1> QED
  BY <1>6 DEF r

LEMMA ImputerTransforms ==
    ASSUME NEW s \in ImputerStates, NEW x \in Vectors, MeanImputerTransform(s, x).ok
    PROVE  MeanImputerTransform(s, x).values \in Vectors
<1> DEFINE t == MeanImputerTransform(s, x)
<1> DEFINE fill(i) == IF s.counts[i] = 0 THEN 0 ELSE s.means[i]
<1> DEFINE values == [i \in Features |-> IF x[i] = NaN THEN fill(i) ELSE x[i]]
<1>1. t = (IF Len(x) = FeatureCount /\ \A i \in Features : IsUsable(x[i])
           THEN Transformed(values) ELSE NotTransformed)
  BY Zenon DEF MeanImputerTransform, Imputed
<1>2. \A i \in Features : fill(i) \in Floats
  BY ConstantsAreFloats DEF ImputerStates, FiniteNumbers
<1>3. ASSUME Len(x) = FeatureCount
      PROVE  values \in Vectors
  <2>1. \A i \in Features : x[i] \in Floats
    BY <1>3, FeaturesAre DEF Vectors
  <2> HIDE DEF fill
  <2> QED
    BY <1>2, <2>1, FeaturesAre DEF Vectors
<1>4. Transformed(values).values = values /\ ~NotTransformed.ok
  BY DEF Transformed, NotTransformed
<1> HIDE DEF values
<1>5. t.ok => t.values \in Vectors
  BY <1>1, <1>3, <1>4
<1> QED
  BY <1>5

LEMMA ImputerAccepted == \A s \in ImputerStates : MeanImputerIsValid(s)
BY DEF ImputerStates, FiniteNumbers, MeanImputerIsValid, AllFinite

\* The last values of the features, none before the first.
KeptValues == {v \in Floats : v = NoValue \/ IsFinite(v)}

FillStates == [last : [Features -> KeptValues], samples : Nat]

FillResults == [ok : BOOLEAN, state : FillStates]

\* One feature after the other.
Filling(x, r, i) ==
    IF ~r.ok \/ x[i] = NaN THEN r
    ELSE IF ~IsFinite(x[i]) THEN Refused(r.state)
    ELSE Done([r.state EXCEPT !.last[i] = x[i]])

Filled(f, s, x, n) == f = [i \in 0..n |-> IF i = 0 THEN Done(s) ELSE Filling(x, f[i - 1], i)]

LEMMA FillAccepted == \A s \in FillStates : ForwardFillIsValid(s)
BY DEF FillStates, KeptValues, ForwardFillIsValid

LEMMA NewFillHolds == NewForwardFill \in FillStates
<1>1. NoValue \in KeptValues
  BY InfinitiesAreFloats DEF KeptValues
<1> QED
  BY <1>1 DEF NewForwardFill, PerFeature, FillStates

LEMMA FillingHolds ==
    ASSUME NEW x, NEW i \in Features, x[i] \in Floats, NEW r \in FillResults
    PROVE  Filling(x, r, i) \in FillResults
<1> DEFINE s == r.state
<1> DEFINE taken == [s EXCEPT !.last[i] = x[i]]
<1>1. s \in FillStates /\ r.ok \in BOOLEAN
  BY DEF FillResults
<1>2. IsFinite(x[i]) => taken \in FillStates
  <2>1. IsFinite(x[i]) => x[i] \in KeptValues
    BY DEF KeptValues
  <2> HIDE DEF s
  <2> QED
    BY <1>1, <2>1 DEF FillStates
<1>3. \/ Filling(x, r, i) = r
      \/ Filling(x, r, i) = Refused(s)
      \/ IsFinite(x[i]) /\ Filling(x, r, i) = Done(taken)
  BY Zenon DEF Filling
<1> HIDE DEF s, taken
<1>4. Refused(s) \in FillResults
  BY <1>1 DEF FillResults, Refused
<1>5. IsFinite(x[i]) => Done(taken) \in FillResults
  BY <1>2 DEF FillResults, Done
<1> QED
  BY <1>3, <1>4, <1>5, Zenon

LEMMA FillingExists ==
    ASSUME NEW s \in FillStates, NEW x \in Vectors, Len(x) = FeatureCount
    PROVE  \E f : Filled(f, s, x, FeatureCount)
<1> DEFINE n == FeatureCount
<1>1. n \in Nat /\ Features = 1..n
  BY FeaturesAre
<1>2. Done(s) \in FillResults
  BY DEF Done, FillResults
<1>3. \A u \in FillResults, i \in 1..n : Filling(x, u, i) \in FillResults
  <2>1. \A i \in 1..n : x[i] \in Floats
    BY <1>1 DEF Vectors
  <2> QED
    BY <1>1, <2>1, FillingHolds
<1> DEFINE F == [p \in FillResults \X (1..n) |-> Filling(x, p[1], p[2])]
<1>4. F \in [FillResults \X (1..n) -> FillResults]
      /\ \A u \in FillResults, i \in 1..n : F[u, i] = Filling(x, u, i)
  BY <1>3
<1> HIDE DEF F, n
<1>5. PICK g \in [0..n -> FillResults] : Recursion(g, Done(s), F, n)
  BY <1>1, <1>2, <1>4, RecursionExists
<1>6. g = [i \in 0..n |-> IF i = 0 THEN Done(s) ELSE F[g[i - 1], i]]
  BY <1>5 DEF Recursion
<1>7. \A i \in 0..n : (IF i = 0 THEN Done(s) ELSE F[g[i - 1], i])
                        = IF i = 0 THEN Done(s) ELSE Filling(x, g[i - 1], i)
  <2> SUFFICES ASSUME NEW i \in 0..n, i # 0
               PROVE  F[g[i - 1], i] = Filling(x, g[i - 1], i)
    OBVIOUS
  <2>1. i - 1 \in 0..n /\ i \in 1..n
    BY <1>1
  <2> QED
    BY <1>4, <1>5, <2>1
<1>8. [i \in 0..n |-> IF i = 0 THEN Done(s) ELSE F[g[i - 1], i]]
        = [i \in 0..n |-> IF i = 0 THEN Done(s) ELSE Filling(x, g[i - 1], i)]
  BY <1>7, Zenon
<1>9. g = [i \in 0..n |-> IF i = 0 THEN Done(s) ELSE Filling(x, g[i - 1], i)]
  BY <1>6, <1>8, Zenon
<1>10. Filled(g, s, x, FeatureCount)
  BY <1>9, Zenon DEF Filled, n
<1> QED
  BY <1>10, Zenon

LEMMA FillUpdateHolds ==
    ASSUME NEW s \in FillStates, NEW x \in Vectors
    PROVE  ForwardFillUpdate(s, x).state \in FillStates
<1> DEFINE n == FeatureCount
<1> DEFINE r == ForwardFillUpdate(s, x)
<1> DEFINE after == CHOOSE f : Filled(f, s, x, n)
<1> DEFINE taken == after[n]
<1> DEFINE v == taken.state
<1> DEFINE counted == [v EXCEPT !.samples = v.samples + 1]
<1>1. \/ r = Refused(s)
      \/ Len(x) = n /\ (r = Refused(v) \/ r = Done(counted))
  BY Zenon DEF ForwardFillUpdate, ImputerUpdate, Filled, Filling
<1>2. n \in Nat /\ Features = 1..n
  BY FeaturesAre
<1>3. ASSUME Len(x) = n
      PROVE  v \in FillStates
  <2>1. Done(s) \in FillResults
    BY DEF Done, FillResults
  <2>2. \A u \in FillResults, i \in 1..n : Filling(x, u, i) \in FillResults
    <3>1. \A i \in 1..n : x[i] \in Floats
      BY <1>2, <1>3 DEF Vectors
    <3> QED
      BY <1>2, <3>1, FillingHolds
  <2>6. Filled(after, s, x, n)
    BY <1>3, FillingExists
  <2> HIDE DEF n
  <2> HIDE DEF after
  <2>7. after[0] \in FillResults
    BY <1>2, <2>1, <2>6 DEF Filled
  <2>8. ASSUME NEW k \in 1..n, after[k - 1] \in FillResults
        PROVE  after[k] \in FillResults
    <3>1. k \in 0..n /\ k # 0
      BY <1>2
    <3>2. after[k] = Filling(x, after[k - 1], k)
      BY <2>6, <3>1 DEF Filled
    <3> QED
      BY <2>2, <2>8, <3>2
  <2>9. \A k \in 0..n : after[k] \in FillResults
    BY <1>2, <2>7, <2>8, RecursionStays
  <2>10. after[n] \in FillResults
    BY <1>2, <2>9
  <2> QED
    BY <2>10 DEF FillResults
<1> HIDE DEF r, v
<1>4. Len(x) = n => counted \in FillStates
  BY <1>3 DEF FillStates
<1> HIDE DEF counted
<1>5. r.state \in FillStates
  BY <1>1, <1>3, <1>4 DEF Done, Refused
<1> QED
  BY <1>5 DEF r

-----------------------------------------------------------------------------
(* The categories of the encoders stay in ascending order.                 *)

Ascending == {c \in Seq(Int) : \A i, j \in 1..Len(c) : i < j => c[i] < c[j]}

EncoderStates == [categories : Ascending, samples : Nat]

LEMMA EncoderAccepted == \A s \in EncoderStates : EncoderIsValid(s)
<1> SUFFICES ASSUME NEW s \in EncoderStates
             PROVE  EncoderIsValid(s)
  OBVIOUS
<1> DEFINE c == s.categories
<1>1. c \in Seq(Int) /\ \A i, j \in 1..Len(c) : i < j => c[i] < c[j]
  BY DEF EncoderStates, Ascending
<1> HIDE DEF c
<1>2. \A i \in 1..(Len(c) - 1) : i \in 1..Len(c) /\ i + 1 \in 1..Len(c) /\ i < i + 1
  BY <1>1
<1>3. \A i \in 1..(Len(c) - 1) : c[i] < c[i + 1]
  BY <1>1, <1>2
<1> QED
  BY <1>3 DEF EncoderIsValid, c

LEMMA NewEncoderHolds == NewEncoder \in EncoderStates
BY DEF NewEncoder, EncoderStates, Ascending

\* The smaller categories are in front, and no other.
LEMMA SmallerCategories ==
    ASSUME NEW c \in Ascending, NEW v \in Int
    PROVE  \E m \in 0..Len(c) : /\ Cardinality({i \in DOMAIN c : c[i] < v}) = m
                                /\ \A i \in 1..m : c[i] < v
                                /\ \A i \in (m + 1)..Len(c) : c[i] >= v
<1> DEFINE n == Len(c)
<1> DEFINE L == {i \in 1..n : c[i] < v}
<1>1. n \in Nat /\ DOMAIN c = 1..n /\ (\A i \in 1..n : c[i] \in Int)
      /\ \A i, j \in 1..n : i < j => c[i] < c[j]
  BY DEF Ascending
<1>2. PICK m \in 0..n : L = 1..m
  <2>1. CASE L = {}
    <3>1. L = 1..0 /\ 0 \in 0..n
      BY <1>1, <2>1
    <3> QED
      BY <3>1
  <2>2. CASE L # {}
    <3> HIDE DEF n
    <3>1. L \subseteq 0..n
      BY <1>1
    <3> HIDE DEF L
    <3>2. PICK k \in L : \A i \in L : k >= i
      BY <1>1, <2>2, <3>1, GreatestOf
    <3> USE DEF L
    <3>3. k \in 1..n /\ c[k] < v
      BY <3>2
    <3>4. \A i \in 1..k : i \in 1..n /\ (i = k \/ i < k)
      BY <1>1, <3>3
    <3>5. \A i \in 1..k : c[i] \in Int /\ c[k] \in Int /\ (c[i] < c[k] \/ c[i] = c[k])
      BY <1>1, <3>3, <3>4
    <3>6. \A i \in 1..k : i \in L
      BY <3>3, <3>4, <3>5
    <3>7. \A i \in L : i \in 1..k
      BY <1>1, <3>2, <3>3
    <3>8. L = 1..k /\ k \in 0..n
      BY <1>1, <3>3, <3>6, <3>7
    <3> QED
      BY <3>8
  <2> QED
    BY <2>1, <2>2
<1>3. Cardinality({i \in DOMAIN c : c[i] < v}) = m
  <2>1. {i \in DOMAIN c : c[i] < v} = 1..m
    BY <1>1, <1>2
  <2>2. Cardinality(1..m) = m
    <3>1. m \in Int /\ 1 \in Int /\ 0 <= m
      BY <1>1
    <3> QED
      BY <3>1, FS_Interval
  <2> QED
    BY <2>1, <2>2, Zenon
<1>4. \A i \in 1..m : c[i] < v
  BY <1>2
<1>5. \A i \in (m + 1)..n : i \in 1..n /\ i \notin 1..m
  BY <1>1
<1>6. \A i \in (m + 1)..n : c[i] >= v
  BY <1>1, <1>2, <1>5
<1> QED
  BY <1>3, <1>4, <1>6

LEMMA FittedAscends ==
    ASSUME NEW c \in Ascending, NEW v \in Int
    PROVE  Fitted(c, v) \in Ascending /\ ToSet(Fitted(c, v)) = ToSet(c) \cup {v}
<1>1. CASE Contains(c, v)
  <2>1. Fitted(c, v) = c
    BY <1>1 DEF Fitted
  <2>2. v \in ToSet(c)
    BY <1>1 DEF Contains, ToSet
  <2> QED
    BY <2>1, <2>2
<1>2. CASE ~Contains(c, v)
  <2> DEFINE n == Len(c)
  <2>1. n \in Nat /\ c \in Seq(Int) /\ (\A i \in 1..n : c[i] \in Int)
        /\ \A i, j \in 1..n : i < j => c[i] < c[j]
    BY DEF Ascending
  <2>2. PICK m \in 0..n : /\ Cardinality({i \in DOMAIN c : c[i] < v}) = m
                          /\ \A i \in 1..m : c[i] < v
                          /\ \A i \in (m + 1)..n : c[i] >= v
    BY SmallerCategories
  <2> DEFINE d == SubSeq(c, 1, m) \o <<v>> \o SubSeq(c, m + 1, n)
  <2>3. Fitted(c, v) = d
    <3>1. Fitted(c, v) = InsertAt(c, m + 1, v)
      BY <1>2, <2>2 DEF Fitted
    <3>2. (m + 1) - 1 = m
      OBVIOUS
    <3> QED
      BY <3>1, <3>2 DEF InsertAt
  <2>4. /\ d \in Seq(Int) /\ Len(d) = n + 1
        /\ \A i \in 1..m : d[i] = c[i]
        /\ d[m + 1] = v
        /\ \A i \in (m + 2)..(n + 1) : d[i] = c[i - 1]
    <3> DEFINE a == SubSeq(c, 1, m)
    <3> DEFINE b == SubSeq(c, m + 1, n)
    <3>1. a \in Seq(Int) /\ Len(a) = m /\ \A i \in 1..m : a[i] = c[i]
      BY <2>1
    <3>2. b \in Seq(Int) /\ Len(b) = n - m /\ \A i \in 1..(n - m) : b[i] = c[m + i]
      BY <2>1
    <3> HIDE DEF a, b, n
    <3>3. d = (a \o <<v>>) \o b
      BY DEF a, b, n
    <3> DEFINE e == a \o <<v>>
    <3>4. e \in Seq(Int) /\ Len(e) = m + 1 /\ (\A i \in 1..m : e[i] = c[i]) /\ e[m + 1] = v
      BY <3>1
    <3>9. d = e \o b
      BY <3>3
    <3> HIDE DEF e, d
    <3>5. d \in Seq(Int) /\ Len(d) = n + 1 /\ (\A i \in 1..(m + 1) : d[i] = e[i])
          /\ \A i \in (m + 2)..(n + 1) : d[i] = b[i - (m + 1)]
      <4>1. /\ d \in Seq(Int) /\ Len(d) = Len(e) + Len(b)
            /\ \A i \in 1..Len(e) : d[i] = e[i]
            /\ \A i \in (Len(e) + 1)..(Len(e) + Len(b)) : d[i] = b[i - Len(e)]
        <5>1. /\ d \in Seq(Int) /\ Len(d) = Len(e) + Len(b)
              /\ \A i \in 1..(Len(e) + Len(b)) : d[i] = IF i <= Len(e) THEN e[i] ELSE b[i - Len(e)]
          BY <3>2, <3>4, <3>9, ConcatProperties
        <5>2. Len(e) \in Nat /\ Len(b) \in Nat
          BY <3>2, <3>4
        <5> QED
          BY <5>1, <5>2
      <4>2. Len(e) + Len(b) = n + 1 /\ Len(e) + 1 = m + 2
        BY <2>1, <3>2, <3>4
      <4> QED
        BY <3>4, <4>1, <4>2
    <3>6. \A i \in (m + 2)..(n + 1) : i - (m + 1) \in 1..(n - m) /\ m + (i - (m + 1)) = i - 1
      BY <2>1
    <3>7. \A i \in 1..m : i \in 1..(m + 1)
      OBVIOUS
    <3>8. m + 1 \in 1..(m + 1)
      OBVIOUS
    <3> QED
      BY <3>2, <3>4, <3>5, <3>6, <3>7, <3>8
  <2>5. \A i \in (m + 1)..n : c[i] > v
    <3>1. \A i \in 1..n : c[i] # v
      BY <1>2 DEF Contains
    <3>2. \A i \in (m + 1)..n : i \in 1..n
      BY <2>1
    <3> QED
      BY <2>1, <2>2, <3>1, <3>2
  <2> HIDE DEF d, n
  <2>6. ASSUME NEW i \in 1..(n + 1), NEW j \in 1..(n + 1), i < j
        PROVE  d[i] < d[j]
    <3>1. CASE i <= m /\ j <= m
      <4>1. i \in 1..m /\ j \in 1..m /\ i \in 1..n /\ j \in 1..n
        BY <2>1, <3>1
      <4> QED
        BY <2>1, <2>4, <2>6, <4>1
    <3>2. CASE i <= m /\ j = m + 1
      <4>1. i \in 1..m
        BY <3>2
      <4> QED
        BY <2>2, <2>4, <3>2, <4>1
    <3>3. CASE i <= m /\ j > m + 1
      <4>1. i \in 1..m /\ j \in (m + 2)..(n + 1) /\ i \in 1..n /\ j - 1 \in 1..n /\ i < j - 1
        BY <2>1, <3>3
      <4> QED
        BY <2>1, <2>4, <4>1
    <3>4. CASE i = m + 1
      <4>1. j \in (m + 2)..(n + 1) /\ j - 1 \in (m + 1)..n
        BY <2>1, <2>6, <3>4
      <4>2. d[i] = v /\ d[j] = c[j - 1] /\ c[j - 1] > v /\ j - 1 \in 1..n
        BY <2>1, <2>4, <2>5, <3>4, <4>1
      <4> QED
        BY <2>1, <4>2
    <3>5. CASE i > m + 1
      <4>1. /\ i \in (m + 2)..(n + 1) /\ j \in (m + 2)..(n + 1)
            /\ i - 1 \in 1..n /\ j - 1 \in 1..n /\ i - 1 < j - 1
        BY <2>1, <2>6, <3>5
      <4> QED
        BY <2>1, <2>4, <4>1
    <3> QED
      BY <2>1, <2>6, <3>1, <3>2, <3>3, <3>4, <3>5
  <2>7. d \in Ascending
    BY <2>4, <2>6 DEF Ascending
  <2>8. ToSet(d) = ToSet(c) \cup {v}
    <3>1. DOMAIN d = 1..(n + 1) /\ DOMAIN c = 1..n
      BY <2>1, <2>4 DEF n
    <3>2. ASSUME NEW i \in 1..(n + 1)
          PROVE  d[i] = v \/ \E j \in 1..n : d[i] = c[j]
      <4>1. i \in 1..m \/ i = m + 1 \/ i \in (m + 2)..(n + 1)
        BY <2>1
      <4>2. i \in 1..m => i \in 1..n
        BY <2>1
      <4>3. i \in (m + 2)..(n + 1) => i - 1 \in 1..n
        BY <2>1
      <4> QED
        BY <2>4, <4>1, <4>2, <4>3
    <3>3. ASSUME NEW j \in 1..n
          PROVE  \E i \in 1..(n + 1) : d[i] = c[j]
      <4>1. CASE j \in 1..m
        <5>1. j \in 1..(n + 1) /\ d[j] = c[j]
          BY <2>1, <2>4, <4>1
        <5> QED
          BY <5>1
      <4>2. CASE j \notin 1..m
        <5>1. j + 1 \in (m + 2)..(n + 1) /\ (j + 1) - 1 = j /\ j + 1 \in 1..(n + 1)
          BY <2>1, <4>2
        <5>2. d[j + 1] = c[j]
          BY <2>4, <5>1
        <5> QED
          BY <5>1, <5>2
      <4> QED
        BY <4>1, <4>2
    <3>4. m + 1 \in 1..(n + 1) /\ d[m + 1] = v
      BY <2>1, <2>4
    <3> QED
      BY <3>1, <3>2, <3>3, <3>4 DEF ToSet
  <2> QED
    BY <2>3, <2>7, <2>8
<1> QED
  BY <1>1, <1>2

Fitting(f, c, values) ==
    f = [n \in 0..Len(values) |-> IF n = 0 THEN c ELSE Fitted(f[n - 1], values[n])]

LEMMA AllFittedAscend ==
    ASSUME NEW c \in Ascending, NEW values \in Seq(Int)
    PROVE  AllFitted(c, values) \in Ascending /\ ToSet(AllFitted(c, values)) = ToSet(c) \cup ToSet(values)
<1> DEFINE n == Len(values)
<1> DEFINE f == CHOOSE g : Fitting(g, c, values)
<1>1. AllFitted(c, values) = f[n]
  BY DEF AllFitted, Fitting
<1>2. n \in Nat /\ \A k \in 1..n : values[k] \in Int
  OBVIOUS
<1>3. \A d \in Ascending, k \in 1..n : Fitted(d, values[k]) \in Ascending
  BY <1>2, FittedAscends
<1>4. \E g : Fitting(g, c, values)
  <2> DEFINE F == [p \in Ascending \X (1..n) |-> Fitted(p[1], values[p[2]])]
  <2>1. F \in [Ascending \X (1..n) -> Ascending]
        /\ \A d \in Ascending, k \in 1..n : F[d, k] = Fitted(d, values[k])
    BY <1>3
  <2> HIDE DEF F, n
  <2>2. PICK g \in [0..n -> Ascending] : Recursion(g, c, F, n)
    BY <1>2, <2>1, RecursionExists
  <2>3. g = [k \in 0..n |-> IF k = 0 THEN c ELSE F[g[k - 1], k]]
    BY <2>2 DEF Recursion
  <2>4. \A k \in 0..n : (IF k = 0 THEN c ELSE F[g[k - 1], k])
                          = IF k = 0 THEN c ELSE Fitted(g[k - 1], values[k])
    <3> SUFFICES ASSUME NEW k \in 0..n, k # 0
                 PROVE  F[g[k - 1], k] = Fitted(g[k - 1], values[k])
      OBVIOUS
    <3>1. k - 1 \in 0..n /\ k \in 1..n
      BY <1>2
    <3> QED
      BY <2>1, <3>1
  <2>5. Fitting(g, c, values)
    BY <2>3, <2>4 DEF Fitting, n
  <2> QED
    BY <2>5
<1>5. Fitting(f, c, values)
  BY <1>4
<1> HIDE DEF f
<1> DEFINE Taken(k) == {values[j] : j \in 1..k}
<1> DEFINE V == {p \in (0..n) \X Ascending : ToSet(p[2]) = ToSet(c) \cup Taken(p[1])}
<1> DEFINE g == [k \in 0..n |-> <<k, f[k]>>]
<1>6. g[0] \in V
  <2>1. f[0] = c /\ 0 \in 0..n
    BY <1>2, <1>5 DEF Fitting
  <2>2. Taken(0) = {}
    OBVIOUS
  <2> QED
    BY <2>1, <2>2
<1>7. ASSUME NEW k \in 1..n, g[k - 1] \in V
      PROVE  g[k] \in V
  <2>1. k \in 0..n /\ k # 0 /\ k - 1 \in 0..n
    BY <1>2
  <2>2. f[k] = Fitted(f[k - 1], values[k])
    BY <1>5, <2>1 DEF Fitting
  <2>3. f[k - 1] \in Ascending /\ ToSet(f[k - 1]) = ToSet(c) \cup Taken(k - 1)
    BY <1>7, <2>1
  <2>4. f[k] \in Ascending /\ ToSet(f[k]) = ToSet(f[k - 1]) \cup {values[k]}
    <3> DEFINE d == f[k - 1]
    <3> DEFINE v == values[k]
    <3>1. d \in Ascending /\ v \in Int /\ f[k] = Fitted(d, v)
      BY <1>2, <2>2, <2>3
    <3> HIDE DEF d, v
    <3>2. Fitted(d, v) \in Ascending /\ ToSet(Fitted(d, v)) = ToSet(d) \cup {v}
      BY <3>1, FittedAscends
    <3> QED
      BY <3>1, <3>2 DEF d, v
  <2>5. Taken(k) = Taken(k - 1) \cup {values[k]}
    <3>1. 1..k = (1..(k - 1)) \cup {k}
      BY <1>2
    <3> QED
      BY <3>1
  <2> HIDE DEF Taken
  <2> QED
    BY <2>1, <2>3, <2>4, <2>5
<1>8. \A k \in 0..n : g[k] \in V
  <2> HIDE DEF n, g, V
  <2> QED
    BY <1>2, <1>6, <1>7, RecursionStays
<1>9. f[n] \in Ascending /\ ToSet(f[n]) = ToSet(c) \cup Taken(n)
  <2>1. n \in 0..n
    BY <1>2
  <2>2. <<n, f[n]>> \in V
    <3>1. g[n] \in V
      BY <1>8, <2>1
    <3>2. g[n] = <<n, f[n]>>
      BY <2>1
    <3> HIDE DEF g, V
    <3> QED
      BY <3>1, <3>2
  <2> QED
    BY <2>2
<1>10. Taken(n) = ToSet(values)
  BY <1>2 DEF ToSet
<1> QED
  BY <1>1, <1>9, <1>10

LEMMA EncoderUpdatesHold ==
    ASSUME NEW s \in EncoderStates, NEW values \in Seq(Int)
    PROVE  OrdinalUpdate(s, values).state \in EncoderStates
           /\ OneHotUpdate(s, values).state \in EncoderStates
<1> DEFINE o == OrdinalUpdate(s, values)
<1> DEFINE h == OneHotUpdate(s, values)
<1> DEFINE c == AllFitted(s.categories, values)
<1> DEFINE fitted == [s EXCEPT !.categories = c]
<1> DEFINE counted == [fitted EXCEPT !.samples = @ + 1]
<1> DEFINE wrapped == [categories |-> c, samples |-> (s.samples + 1) % (MaxCount + 1)]
<1>1. s.categories \in Ascending /\ s.samples \in Nat
  BY DEF EncoderStates
<1>2. o = Refused(s) \/ o = Refused(fitted) \/ o = Done(counted)
  BY Zenon DEF OrdinalUpdate
<1>3. h = Refused(s) \/ h = Done(wrapped)
  BY Zenon DEF OneHotUpdate
<1>4. c \in Ascending
  BY <1>1, AllFittedAscend
<1> HIDE DEF o, h, c
<1>5. fitted \in EncoderStates
  BY <1>4 DEF EncoderStates
<1>6. counted \in EncoderStates
  <2> HIDE DEF fitted
  <2> QED
    BY <1>5 DEF EncoderStates
<1>7. wrapped \in EncoderStates
  <2>1. (s.samples + 1) % (MaxCount + 1) \in Nat
    BY <1>1, FormatAssumption
  <2> QED
    BY <1>4, <2>1 DEF EncoderStates
<1> HIDE DEF fitted, counted, wrapped
<1>8. o.state \in EncoderStates
  BY <1>2, <1>5, <1>6 DEF Done, Refused
<1>9. h.state \in EncoderStates
  BY <1>3, <1>7 DEF Done, Refused
<1> QED
  BY <1>8, <1>9 DEF o, h

-----------------------------------------------------------------------------
(* The classes of naive Bayes models and the sample count.                 *)

ClassesHold(m) ==
    /\ {"classes", "samples"} \subseteq DOMAIN m
    /\ DOMAIN m.classes = BOOLEAN
    /\ \A c \in BOOLEAN : "count" \in DOMAIN m.classes[c] /\ m.classes[c].count \in Nat
    /\ ClassesMatchSamples(m)

\* What learn leaves of the classes.
LearnedClass(r, m, class, stats) ==
    /\ ClassesHold(r.state)
    /\ \/ r.state = m
       \/ /\ \A c \in BOOLEAN \ {class} : r.state.classes[c] = m.classes[c]
          /\ r.state.classes[class] = [stats EXCEPT !.count = @ + 1]

LEMMA LearnedHolds ==
    ASSUME NEW m, ClassesHold(m), NEW class \in BOOLEAN,
           NEW stats, DOMAIN stats = DOMAIN m.classes[class], stats.count = m.classes[class].count
    PROVE  LearnedClass(Learned(m, class, stats), m, class, stats)
<1> DEFINE r == Learned(m, class, stats)
<1> DEFINE counted == [stats EXCEPT !.count = @ + 1]
<1> DEFINE classes == [m.classes EXCEPT ![class] = counted]
<1> DEFINE next == [m EXCEPT !.classes = classes, !.samples = @ + 1]
<1>1. r = Refused(m) \/ (CanCount(m.samples) /\ r = Done(next))
  BY Zenon DEF Learned
<1>2. /\ m.classes[FALSE].count \in Nat /\ m.classes[TRUE].count \in Nat
      /\ m.samples = m.classes[FALSE].count + m.classes[TRUE].count
      /\ "count" \in DOMAIN stats
  BY DEF ClassesHold, ClassesMatchSamples, ClassTotal
<1>3. DOMAIN counted = DOMAIN stats /\ counted.count = m.classes[class].count + 1
  BY <1>2
<1> HIDE DEF r, counted
<1>4. /\ DOMAIN classes = BOOLEAN /\ classes[class] = counted
      /\ \A c \in BOOLEAN \ {class} : classes[c] = m.classes[c]
  BY DEF ClassesHold
<1> HIDE DEF classes
<1>5. DOMAIN next = DOMAIN m /\ next.classes = classes /\ next.samples = m.samples + 1
  BY DEF ClassesHold
<1> HIDE DEF next
<1>6. classes[FALSE].count + classes[TRUE].count = m.samples + 1
      /\ classes[FALSE].count \in Nat /\ classes[TRUE].count \in Nat
  <2> DEFINE a == m.classes[FALSE].count
  <2> DEFINE b == m.classes[TRUE].count
  <2> DEFINE k == classes[FALSE].count
  <2> DEFINE l == classes[TRUE].count
  <2>1. (k = a + 1 /\ l = b) \/ (k = a /\ l = b + 1)
    <3>1. CASE class = TRUE
      <4>1. classes[FALSE] = m.classes[FALSE]
        BY <1>4, <3>1, Zenon
      <4>2. classes[TRUE].count = m.classes[TRUE].count + 1
        BY <1>3, <1>4, <3>1, Zenon
      <4> QED
        BY <4>1, <4>2, Zenon
    <3>2. CASE class = FALSE
      <4>1. classes[TRUE] = m.classes[TRUE]
        BY <1>4, <3>2, Zenon
      <4>2. classes[FALSE].count = m.classes[FALSE].count + 1
        BY <1>3, <1>4, <3>2, Zenon
      <4> QED
        BY <4>1, <4>2, Zenon
    <3> QED
      BY <3>1, <3>2
  <2>2. a \in Nat /\ b \in Nat /\ m.samples = a + b
    BY <1>2, Zenon
  <2> HIDE DEF a, b, k, l
  <2>3. k + l = m.samples + 1 /\ k \in Nat /\ l \in Nat
    BY <2>1, <2>2
  <2> QED
    BY <2>3, Zenon DEF k, l
<1>7. CanCount(m.samples) => ClassesHold(next)
  <2> SUFFICES ASSUME CanCount(m.samples)
               PROVE  ClassesHold(next)
    OBVIOUS
  <2>1. m.samples + 1 <= MaxCount
    <3>1. m.samples \in Nat
      <4> DEFINE a == m.classes[FALSE].count
      <4> DEFINE b == m.classes[TRUE].count
      <4>1. a \in Nat /\ b \in Nat /\ m.samples = a + b
        BY <1>2, Zenon
      <4> HIDE DEF a, b
      <4> QED
        BY <4>1
    <3> QED
      BY <3>1, FormatAssumption DEF CanCount
  <2>2. ClassesMatchSamples(next)
    BY <1>5, <1>6, <2>1 DEF ClassesMatchSamples, ClassTotal
  <2>3. \A c \in BOOLEAN : "count" \in DOMAIN classes[c]
    BY <1>2, <1>3, <1>4 DEF ClassesHold
  <2>4. \A c \in BOOLEAN : classes[c].count \in Nat
    BY <1>6
  <2> QED
    BY <1>4, <1>5, <2>2, <2>3, <2>4 DEF ClassesHold
<1>8. CASE r = Refused(m)
  BY <1>8 DEF Refused, LearnedClass, r
<1>9. CASE CanCount(m.samples) /\ r = Done(next)
  <2>1. r.state = next
    BY <1>9 DEF Done
  <2> QED
    BY <1>4, <1>5, <1>7, <1>9, <2>1 DEF LearnedClass, r, counted
<1> QED
  BY <1>1, <1>8, <1>9

GaussianHolds(m) ==
    /\ ClassesHold(m)
    /\ \A c \in BOOLEAN : "features" \in DOMAIN m.classes[c]
    /\ \A c \in BOOLEAN, i \in Features :
          VarianceHolds(m.classes[c].features[i]) /\ m.classes[c].features[i].count = m.classes[c].count

LEMMA GaussianAccepted == \A m : GaussianHolds(m) => GaussianIsValid(m)
<1> SUFFICES ASSUME NEW m, GaussianHolds(m)
             PROVE  GaussianIsValid(m)
  OBVIOUS
<1>1. ASSUME NEW c \in BOOLEAN, NEW i \in Features
      PROVE  LET s == m.classes[c].features[i]
                 n == m.classes[c].count
             IN  /\ s.count = n /\ VarianceIsValid(s)
                 /\ n = 0 => s.mean = 0
                 /\ n <= 1 => s.m2 = 0
  BY DEF GaussianHolds, VarianceHolds, VarianceIsValid, FiniteFloat
<1> QED
  BY <1>1 DEF GaussianHolds, ClassesHold, GaussianIsValid

LEMMA NewGaussianHolds == GaussianHolds(NewGaussian)
<1> DEFINE stats == [count |-> 0, features |-> [i \in Features |-> NewVariance]]
<1>1. NewGaussian.samples = 0 /\ {"classes", "samples"} \subseteq DOMAIN NewGaussian
      /\ DOMAIN NewGaussian.classes = BOOLEAN
      /\ \A c \in BOOLEAN : NewGaussian.classes[c] = stats
  BY DEF NewGaussian, PerClass
<1>2. stats.count = 0 /\ {"count", "features"} \subseteq DOMAIN stats
      /\ \A i \in Features : stats.features[i] = NewVariance
  OBVIOUS
<1> HIDE DEF stats
<1>3. NewVariance.count = 0 /\ VarianceHolds(NewVariance)
  BY NewVarianceHolds DEF NewVariance
<1>4. ClassesHold(NewGaussian)
  <2>1. NewGaussian.classes[FALSE].count = 0 /\ NewGaussian.classes[TRUE].count = 0
    BY <1>1, <1>2, Zenon
  <2>2. ClassTotal(NewGaussian) = 0
    BY <2>1 DEF ClassTotal
  <2>3. \A c \in BOOLEAN : "count" \in DOMAIN NewGaussian.classes[c] /\ NewGaussian.classes[c].count \in Nat
    BY <1>1, <1>2
  <2> QED
    BY <1>1, <2>2, <2>3, FormatAssumption DEF ClassesHold, ClassesMatchSamples
<1> QED
  BY <1>1, <1>2, <1>3, <1>4 DEF GaussianHolds

LEMMA GaussianLearnHolds ==
    ASSUME NEW m, GaussianHolds(m), NEW x \in Vectors, NEW class \in BOOLEAN
    PROVE  GaussianHolds(GaussianLearn(m, x, class).state)
<1> DEFINE r == GaussianLearn(m, x, class)
<1> DEFINE old == m.classes[class]
<1> DEFINE next == [i \in Features |-> VarianceUpdate(old.features[i], x[i])]
<1> DEFINE features == [i \in Features |-> next[i].state]
<1> DEFINE stats == [old EXCEPT !.features = features]
<1> DEFINE Fine == FeaturesAreValid(x) /\ \A i \in Features : next[i].ok
<1>1. r = Refused(m) \/ (Fine /\ r = Learned(m, class, stats))
  BY Zenon DEF GaussianLearn
<1>2. ASSUME Fine, NEW i \in Features
      PROVE  VarianceHolds(features[i]) /\ features[i].count = old.count + 1
  <2> DEFINE d == old.features[i]
  <2>1. VarianceHolds(d) /\ d.count = old.count
    BY DEF GaussianHolds
  <2>2. features[i] = VarianceUpdate(d, x[i]).state /\ VarianceUpdate(d, x[i]).ok
    BY <1>2
  <2>3. x[i] \in Floats
    BY <1>2, VectorFeatures
  <2> HIDE DEF d, features
  <2> QED
    BY <2>1, <2>2, <2>3, VarianceTakes
<1>3. ClassesHold(m) /\ {"count", "features"} \subseteq DOMAIN old
  BY DEF GaussianHolds, ClassesHold
<1> HIDE DEF r, features, Fine
<1>4. DOMAIN stats = DOMAIN old /\ stats.count = old.count /\ stats.features = features
  <2> HIDE DEF old
  <2> QED
    BY <1>3
<1>5. [stats EXCEPT !.count = @ + 1].count = old.count + 1
      /\ [stats EXCEPT !.count = @ + 1].features = features
      /\ "features" \in DOMAIN [stats EXCEPT !.count = @ + 1]
  <2> HIDE DEF old, stats
  <2> QED
    BY <1>3, <1>4
<1> HIDE DEF stats
<1>6. LearnedClass(Learned(m, class, stats), m, class, stats)
  BY <1>3, <1>4, LearnedHolds
<1>7. ASSUME Fine, r = Learned(m, class, stats)
      PROVE  GaussianHolds(r.state)
  <2>1. CASE r.state = m
    BY <2>1
  <2>2. CASE r.state # m
    <3> DEFINE s == r.state
    <3>1. ClassesHold(s) /\ (\A c \in BOOLEAN \ {class} : s.classes[c] = m.classes[c])
          /\ s.classes[class] = [stats EXCEPT !.count = @ + 1]
      BY <1>6, <1>7, <2>2 DEF LearnedClass
    <3> HIDE DEF s, old
    <3>2. ASSUME NEW c \in BOOLEAN
          PROVE  "features" \in DOMAIN s.classes[c]
                 /\ \A i \in Features : VarianceHolds(s.classes[c].features[i])
                                        /\ s.classes[c].features[i].count = s.classes[c].count
      <4>1. CASE c = class
        BY <1>2, <1>5, <1>7, <3>1, <4>1
      <4>2. CASE c # class
        BY <3>1, <4>2 DEF GaussianHolds
      <4> QED
        BY <4>1, <4>2
    <3>3. GaussianHolds(s)
      BY <3>1, <3>2 DEF GaussianHolds
    <3> QED
      BY <3>3 DEF s
  <2> QED
    BY <2>1, <2>2
<1>8. GaussianHolds(r.state)
  BY <1>1, <1>7 DEF Refused
<1> QED
  BY <1>8 DEF r

BernoulliHolds(m) ==
    /\ ClassesHold(m)
    /\ \A c \in BOOLEAN : "on" \in DOMAIN m.classes[c]
    /\ \A c \in BOOLEAN, i \in Features :
          m.classes[c].on[i] \in Nat /\ m.classes[c].on[i] <= m.classes[c].count

LEMMA BernoulliAccepted == \A m : BernoulliHolds(m) => BernoulliIsValid(m)
BY DEF BernoulliHolds, ClassesHold, BernoulliIsValid

LEMMA NewBernoulliHolds == BernoulliHolds(NewBernoulli)
<1> DEFINE stats == [count |-> 0, on |-> [i \in Features |-> 0]]
<1>1. NewBernoulli.samples = 0 /\ {"classes", "samples"} \subseteq DOMAIN NewBernoulli
      /\ DOMAIN NewBernoulli.classes = BOOLEAN
      /\ \A c \in BOOLEAN : NewBernoulli.classes[c] = stats
  BY DEF NewBernoulli, PerClass
<1>2. stats.count = 0 /\ {"count", "on"} \subseteq DOMAIN stats
      /\ \A i \in Features : stats.on[i] = 0
  OBVIOUS
<1> HIDE DEF stats
<1>4. ClassesHold(NewBernoulli)
  <2>1. NewBernoulli.classes[FALSE].count = 0 /\ NewBernoulli.classes[TRUE].count = 0
    BY <1>1, <1>2, Zenon
  <2>2. ClassTotal(NewBernoulli) = 0
    BY <2>1 DEF ClassTotal
  <2>3. \A c \in BOOLEAN : "count" \in DOMAIN NewBernoulli.classes[c] /\ NewBernoulli.classes[c].count \in Nat
    BY <1>1, <1>2
  <2> QED
    BY <1>1, <2>2, <2>3, FormatAssumption DEF ClassesHold, ClassesMatchSamples
<1> QED
  BY <1>1, <1>2, <1>4 DEF BernoulliHolds

LEMMA BernoulliLearnHolds ==
    ASSUME NEW m, BernoulliHolds(m), NEW x, NEW class \in BOOLEAN
    PROVE  BernoulliHolds(BernoulliLearn(m, x, class).state)
<1> DEFINE r == BernoulliLearn(m, x, class)
<1> DEFINE old == m.classes[class]
<1> DEFINE next == [i \in Features |-> IF IsOn(x[i]) THEN old.on[i] + 1 ELSE old.on[i]]
<1> DEFINE stats == [old EXCEPT !.on = next]
<1>1. r = Refused(m) \/ r = Learned(m, class, stats)
  BY Zenon DEF BernoulliLearn
<1>2. ClassesHold(m) /\ {"count", "on"} \subseteq DOMAIN old /\ old.count \in Nat
  BY DEF BernoulliHolds, ClassesHold
<1>3. \A i \in Features : next[i] \in Nat /\ next[i] <= old.count + 1
  BY <1>2 DEF BernoulliHolds
<1> HIDE DEF r, next
<1>4. DOMAIN stats = DOMAIN old /\ stats.count = old.count /\ stats.on = next
  <2> HIDE DEF old
  <2> QED
    BY <1>2
<1>5. [stats EXCEPT !.count = @ + 1].count = old.count + 1
      /\ [stats EXCEPT !.count = @ + 1].on = next
      /\ "on" \in DOMAIN [stats EXCEPT !.count = @ + 1]
  <2> HIDE DEF old, stats
  <2> QED
    BY <1>2, <1>4
<1> HIDE DEF stats
<1>6. LearnedClass(Learned(m, class, stats), m, class, stats)
  BY <1>2, <1>4, LearnedHolds
<1>7. ASSUME r = Learned(m, class, stats)
      PROVE  BernoulliHolds(r.state)
  <2>1. CASE r.state = m
    BY <2>1
  <2>2. CASE r.state # m
    <3> DEFINE s == r.state
    <3>1. ClassesHold(s) /\ (\A c \in BOOLEAN \ {class} : s.classes[c] = m.classes[c])
          /\ s.classes[class] = [stats EXCEPT !.count = @ + 1]
      BY <1>6, <1>7, <2>2 DEF LearnedClass
    <3> HIDE DEF s, old
    <3>2. ASSUME NEW c \in BOOLEAN
          PROVE  "on" \in DOMAIN s.classes[c]
                 /\ \A i \in Features : s.classes[c].on[i] \in Nat
                                        /\ s.classes[c].on[i] <= s.classes[c].count
      <4>1. CASE c = class
        BY <1>3, <1>5, <3>1, <4>1
      <4>2. CASE c # class
        BY <3>1, <4>2 DEF BernoulliHolds
      <4> QED
        BY <4>1, <4>2
    <3>3. BernoulliHolds(s)
      BY <3>1, <3>2 DEF BernoulliHolds
    <3> QED
      BY <3>3 DEF s
  <2> QED
    BY <2>1, <2>2
<1>8. BernoulliHolds(r.state)
  BY <1>1, <1>7 DEF Refused
<1> QED
  BY <1>8 DEF r

-----------------------------------------------------------------------------
(* The parts of a pipeline keep what they keep alone.                      *)

TransformerHolds(kind, t) == IF kind = "scaler" THEN ScalerHolds(t) ELSE t \in ImputerStates

PartsHold(p) ==
    /\ {"task", "kind", "transformer", "model"} \subseteq DOMAIN p
    /\ TransformerHolds(p.kind, p.transformer)
    /\ LinearHolds(p.model)

LEMMA PartsAccepted == \A p : PartsHold(p) => PipelineIsValid(p)
BY ScalerAccepted, ImputerAccepted, LinearAccepted
   DEF PartsHold, TransformerHolds, PipelineIsValid, TransformerIsValid

LEMMA NewPartsHold ==
    ASSUME NEW task, NEW kind
    PROVE  PartsHold(NewPipeline(task, kind)) /\ NewPipeline(task, kind).task = task
<1> DEFINE p == NewPipeline(task, kind)
<1>1. /\ {"task", "kind", "transformer", "model"} \subseteq DOMAIN p
      /\ p.task = task /\ p.kind = kind /\ p.transformer = NewTransformer(kind)
      /\ p.model = NewLinear("sgd")
  BY DEF NewPipeline
<1> HIDE DEF p
<1>2. TransformerHolds(kind, NewTransformer(kind))
  BY NewScalerHolds, NewImputerHolds DEF TransformerHolds, NewTransformer
<1>3. LinearHolds(NewLinear("sgd"))
  BY NewLinearHolds
<1>4. PartsHold(p)
  BY <1>1, <1>2, <1>3 DEF PartsHold
<1> QED
  BY <1>1, <1>4 DEF p

LEMMA TransformersHold ==
    ASSUME NEW kind, NEW t, TransformerHolds(kind, t), NEW x \in Vectors
    PROVE  /\ TransformerHolds(kind, TransformerUpdate(kind, t, x).state)
           /\ TransformerTransform(kind, t, x).ok => TransformerTransform(kind, t, x).values \in Vectors
<1>1. CASE kind = "scaler"
  <2>1. ScalerHolds(t)
    BY <1>1 DEF TransformerHolds
  <2>2. ScalerHolds(ScalerUpdate(t, x).state)
        /\ (ScalerTransform(t, x).ok => ScalerTransform(t, x).values \in Vectors)
    BY <2>1, ScalerUpdateHolds, ScalerTransforms
  <2> QED
    BY <1>1, <2>2, Zenon DEF TransformerHolds, TransformerUpdate, TransformerTransform
<1>2. CASE kind # "scaler"
  <2>1. t \in ImputerStates
    BY <1>2 DEF TransformerHolds
  <2>2. MeanImputerUpdate(t, x).state \in ImputerStates
        /\ (MeanImputerTransform(t, x).ok => MeanImputerTransform(t, x).values \in Vectors)
    BY <2>1, ImputerUpdateHolds, ImputerTransforms
  <2> QED
    BY <1>2, <2>2, Zenon DEF TransformerHolds, TransformerUpdate, TransformerTransform
<1> QED
  BY <1>1, <1>2

\* A target for a pipeline of its task.
Suits(p, target) == p.task = "regression" => target \in Floats

LEMMA ModelLearnHolds ==
    ASSUME NEW p, LinearHolds(p.model), NEW x \in Vectors, NEW target, Suits(p, target),
           NEW weight \in Floats
    PROVE  LinearHolds(ModelLearn(p, x, target, weight).state)
<1>1. CASE p.task = "regression"
  <2>1. target \in Floats
    BY <1>1 DEF Suits
  <2>2. LinearHolds(LinearLearn("squared", p.model, x, target, weight).state)
    BY <2>1, LinearLearnHolds
  <2> QED
    BY <1>1, <2>2, Zenon DEF ModelLearn
<1>2. CASE p.task # "regression"
  <2>1. LinearHolds(LogisticLearn(p.model, x, target, weight).state)
    BY LogisticLearnHolds
  <2> QED
    BY <1>2, <2>1, Zenon DEF ModelLearn
<1> QED
  BY <1>1, <1>2

\* What a call may leave of a pipeline.
PartsKept(r, p) == PartsHold(r.state) /\ r.state.task = p.task

LEMMA StagesHold ==
    ASSUME NEW p, PartsHold(p), NEW x \in Vectors, NEW target, Suits(p, target),
           NEW weight \in Floats
    PROVE  PartsKept(Stages(p, x, target, weight), p)
<1> DEFINE u == TransformerUpdate(p.kind, p.transformer, x)
<1> DEFINE q == [p EXCEPT !.transformer = u.state]
<1> DEFINE r == Stages(p, x, target, weight)
<1>1. {"task", "kind", "transformer", "model"} \subseteq DOMAIN p
      /\ TransformerHolds(p.kind, p.transformer) /\ LinearHolds(p.model)
  BY DEF PartsHold
<1>2. /\ DOMAIN q = DOMAIN p /\ q.transformer = u.state /\ q.model = p.model
      /\ q.task = p.task /\ q.kind = p.kind
  BY <1>1
<1> DEFINE out == TransformerTransform(q.kind, q.transformer, x)
<1> DEFINE l == ModelLearn(q, out.values, target, weight)
<1> DEFINE n == [q EXCEPT !.model = l.state]
<1>3. \/ r.state = q
      \/ out.ok /\ r.state = n
  <2> DEFINE w == WithTransformer(p, u)
  <2>1. w.ok = u.ok /\ w.state = q
    BY DEF WithTransformer
  <2>2. r = IF w.ok THEN TeachModel(w.state, TransformerTransform(w.state.kind, w.state.transformer, x),
                                    target, weight) ELSE w
    BY DEF Stages, ThenModel
  <2>3. TeachModel(q, out, target, weight) = IF out.ok THEN WithModel(q, l) ELSE Refused(q)
    BY DEF TeachModel
  <2>4. WithModel(q, l).state = n /\ Refused(q).state = q
    BY DEF WithModel, Refused
  <2> HIDE DEF w, q, l, out, n, u, r
  <2>5. w.ok => r = TeachModel(q, out, target, weight)
    BY <2>1, <2>2 DEF out
  <2> QED
    BY <2>1, <2>2, <2>3, <2>4, <2>5
<1>4. DOMAIN n = DOMAIN p /\ n.model = l.state /\ n.transformer = u.state
      /\ n.task = p.task /\ n.kind = p.kind
  <2> HIDE DEF q, l, u
  <2> QED
    BY <1>1, <1>2
<1>5. TransformerHolds(p.kind, u.state)
  BY <1>1, TransformersHold
<1> HIDE DEF u, q, n, r
<1>6. PartsHold(q) /\ Suits(q, target)
  BY <1>1, <1>2, <1>5 DEF PartsHold, Suits
<1>7. out.ok => LinearHolds(l.state)
  <2> SUFFICES ASSUME out.ok
               PROVE  LinearHolds(l.state)
    OBVIOUS
  <2>1. TransformerHolds(q.kind, q.transformer) /\ LinearHolds(q.model)
    BY <1>6 DEF PartsHold
  <2>2. out.values \in Vectors
    BY <2>1, TransformersHold
  <2> HIDE DEF out
  <2> QED
    BY <1>6, <2>1, <2>2, ModelLearnHolds
<1> HIDE DEF out, l
<1>8. out.ok => PartsHold(n)
  BY <1>1, <1>4, <1>5, <1>7 DEF PartsHold
<1>9. PartsKept(r, p)
  BY <1>2, <1>3, <1>4, <1>6, <1>8 DEF PartsKept
<1> QED
  BY <1>9 DEF r

\* learn, learn_transactional and learn_weighted.
LEMMA PipelinesHold ==
    ASSUME NEW p, PartsHold(p), NEW x \in Vectors, NEW target, Suits(p, target),
           NEW weight \in Floats
    PROVE  /\ PartsKept(PipelineLearn(p, x, target), p)
           /\ PartsKept(PipelineLearnTransactional(p, x, target), p)
           /\ PartsKept(PipelineLearnWeighted(p, x, target, weight), p)
<1>1. PartsKept(Refused(p), p) /\ PartsKept(Done(p), p)
  BY DEF PartsKept, Refused, Done
<1>2. Unit \in Floats
  BY ConstantsAreFloats
<1>3. PartsKept(Stages(p, x, target, Unit), p) /\ PartsKept(Stages(p, x, target, weight), p)
  BY <1>2, StagesHold
<1>4. PartsKept(PipelineLearn(p, x, target), p)
  BY <1>1, <1>3, Zenon DEF PipelineLearn
<1>5. PartsKept(PipelineLearnTransactional(p, x, target), p)
  BY <1>1, <1>4, Zenon DEF PipelineLearnTransactional, Transactional
<1>6. PartsKept(PipelineLearnWeighted(p, x, target, weight), p)
  BY <1>1, <1>3, Zenon DEF PipelineLearnWeighted, Transactional
<1> QED
  BY <1>4, <1>5, <1>6

-----------------------------------------------------------------------------
(* The pulls of the arms add up to the samples.                            *)

ArmStates == [pulls : [Arms -> Nat], rewards : [Arms -> FiniteNumbers], samples : 0..MaxCount]

Pulling(f, pulls) ==
    f = [n \in 0..Cardinality(Arms) |-> IF n = 0 THEN 0 ELSE f[n - 1] + pulls[n - 1]]

LEMMA ArmsAre ==
    /\ Cardinality(Arms) \in Nat \ {0} /\ Arms = 0..(Cardinality(Arms) - 1)
    /\ \A n \in 1..Cardinality(Arms) : n - 1 \in Arms
<1>1. IsFiniteSet(Arms) /\ Arms # {} /\ Arms = 0..(Cardinality(Arms) - 1)
  BY BanditAssumption
<1>2. Cardinality(Arms) \in Nat
  BY <1>1, FS_CardinalityType
<1>3. Cardinality(Arms) # 0
  BY <1>1, FS_EmptySet
<1> DEFINE c == Cardinality(Arms)
<1>4. \A n \in 1..c : n - 1 \in 0..(c - 1)
  <2> HIDE DEF c
  <2> QED
    BY <1>2 DEF c
<1> QED
  BY <1>1, <1>2, <1>3, <1>4

LEMMA PullsOf ==
    ASSUME NEW b, b.pulls \in [Arms -> Nat]
    PROVE  \E f \in [0..Cardinality(Arms) -> Nat] : Pulling(f, b.pulls) /\ Pulls(b) = f[Cardinality(Arms)]
<1> DEFINE c == Cardinality(Arms)
<1> DEFINE f == CHOOSE g : Pulling(g, b.pulls)
<1>1. Pulls(b) = f[c]
  BY DEF Pulls, Pulling
<1>2. c \in Nat /\ \A n \in 1..c : b.pulls[n - 1] \in Nat
  BY ArmsAre
<1> DEFINE F == [p \in Nat \X (1..c) |-> p[1] + b.pulls[p[2] - 1]]
<1>3. F \in [Nat \X (1..c) -> Nat] /\ \A v \in Nat, n \in 1..c : F[v, n] = v + b.pulls[n - 1]
  <2> DEFINE pulls == b.pulls
  <2> HIDE DEF c, pulls
  <2>1. \A v \in Nat, n \in 1..c : v + pulls[n - 1] \in Nat
    BY <1>2 DEF pulls
  <2>2. F = [p \in Nat \X (1..c) |-> p[1] + pulls[p[2] - 1]]
    BY DEF pulls
  <2>3. \A p \in Nat \X (1..c) : p[1] + pulls[p[2] - 1] \in Nat
    BY <2>1
  <2>4. F \in [Nat \X (1..c) -> Nat]
    BY <2>2, <2>3
  <2>5. \A v \in Nat, n \in 1..c : F[v, n] = v + pulls[n - 1]
    BY <2>2
  <2> QED
    BY <2>4, <2>5 DEF pulls
<1> HIDE DEF F
<1>4. \E g : Pulling(g, b.pulls)
  <2> HIDE DEF c
  <2>1. PICK g \in [0..c -> Nat] : Recursion(g, 0, F, c)
    BY <1>2, <1>3, RecursionExists
  <2>2. g = [n \in 0..c |-> IF n = 0 THEN 0 ELSE F[g[n - 1], n]]
    BY <2>1 DEF Recursion
  <2>3. \A n \in 0..c : (IF n = 0 THEN 0 ELSE F[g[n - 1], n])
                          = IF n = 0 THEN 0 ELSE g[n - 1] + b.pulls[n - 1]
    <3> SUFFICES ASSUME NEW n \in 0..c, n # 0
                 PROVE  F[g[n - 1], n] = g[n - 1] + b.pulls[n - 1]
      OBVIOUS
    <3>1. n - 1 \in 0..c /\ n \in 1..c
      BY <1>2
    <3> QED
      BY <1>3, <3>1
  <2>4. Pulling(g, b.pulls)
    BY <2>2, <2>3 DEF Pulling, c
  <2> QED
    BY <2>4
<1>5. Pulling(f, b.pulls)
  BY <1>4
<1> HIDE DEF f
<1>6. f = [n \in 0..c |-> f[n]] /\ f[0] = 0 /\ \A n \in 1..c : f[n] = f[n - 1] + b.pulls[n - 1]
  <2>1. 0 \in 0..c /\ \A n \in 1..c : n \in 0..c /\ n # 0
    BY <1>2
  <2> QED
    BY <1>5, <2>1 DEF Pulling
<1>7. \A n \in 0..c : f[n] \in Nat
  <2> DEFINE V == Nat
  <2> HIDE DEF c
  <2>1. ASSUME NEW n \in 1..c, f[n - 1] \in V
        PROVE  f[n] \in V
    <3>1. f[n] = f[n - 1] + b.pulls[n - 1] /\ b.pulls[n - 1] \in Nat
      BY <1>2, <1>6
    <3> QED
      BY <2>1, <3>1
  <2>2. f[0] \in V
    BY <1>6
  <2> HIDE DEF V
  <2>3. \A n \in 0..c : f[n] \in V
    BY <1>2, <2>1, <2>2, RecursionStays
  <2> QED
    BY <2>3 DEF V
<1>8. f \in [0..c -> Nat]
  BY <1>6, <1>7
<1> QED
  BY <1>1, <1>5, <1>8

\* One pull more of an arm is one more of all; no arm has more than all have.
LEMMA PullsGrow ==
    ASSUME NEW b, b.pulls \in [Arms -> Nat], NEW d, NEW arm \in Arms,
           d.pulls = [b.pulls EXCEPT ![arm] = @ + 1]
    PROVE  Pulls(d) = Pulls(b) + 1 /\ Pulls(b) \in Nat /\ b.pulls[arm] <= Pulls(b)
<1> DEFINE c == Cardinality(Arms)
<1> DEFINE p == b.pulls
<1> DEFINE q == d.pulls
<1>1. q \in [Arms -> Nat] /\ q[arm] = p[arm] + 1 /\ \A a \in Arms : a # arm => q[a] = p[a]
  OBVIOUS
<1>2. PICK f \in [0..c -> Nat] : Pulling(f, p) /\ Pulls(b) = f[c]
  BY PullsOf
<1>3. PICK g \in [0..c -> Nat] : Pulling(g, q) /\ Pulls(d) = g[c]
  BY <1>1, PullsOf
<1>4. c \in Nat /\ arm \in 0..(c - 1) /\ p \in [Arms -> Nat]
      /\ \A n \in 1..c : n - 1 \in Arms /\ n - 1 \in 0..c /\ n \in 0..c /\ n # 0
  BY ArmsAre
<1>5. /\ f[0] = 0 /\ \A n \in 1..c : f[n] = f[n - 1] + p[n - 1]
      /\ g[0] = 0 /\ \A n \in 1..c : g[n] = g[n - 1] + q[n - 1]
  <2>1. 0 \in 0..c
    BY <1>4
  <2> QED
    BY <1>2, <1>3, <1>4, <2>1 DEF Pulling
<1> HIDE DEF c, p, q
<1> DEFINE more(n) == /\ g[n] = f[n] + (IF arm < n THEN 1 ELSE 0)
                      /\ arm < n => p[arm] <= f[n]
<1> DEFINE h == [n \in 0..c |-> IF more(n) THEN 1 ELSE 0]
<1>6. h[0] \in {1}
  <2>1. more(0)
    BY <1>4, <1>5
  <2> HIDE DEF more
  <2> QED
    BY <1>4, <2>1
<1>7. ASSUME NEW n \in 1..c, h[n - 1] \in {1}
      PROVE  h[n] \in {1}
  <2>1. more(n - 1) /\ n \in 0..c /\ n - 1 \in 0..c
    <3> HIDE DEF more
    <3> QED
      BY <1>4, <1>7
  <2>2. f[n] = f[n - 1] + p[n - 1] /\ g[n] = g[n - 1] + q[n - 1] /\ n - 1 \in Arms
        /\ f[n - 1] \in Nat /\ g[n - 1] \in Nat /\ p[n - 1] \in Nat /\ q[n - 1] \in Nat
        /\ p[arm] \in Nat
    BY <1>1, <1>4, <1>5, <2>1
  <2>3. CASE n - 1 = arm
    <3>1. q[n - 1] = p[n - 1] + 1 /\ arm < n /\ ~(arm < n - 1)
      BY <1>1, <1>4, <2>3
    <3>2. g[n - 1] = f[n - 1] /\ p[arm] = p[n - 1]
      BY <2>1, <2>2, <2>3, <3>1
    <3>3. g[n] = f[n] + 1 /\ p[arm] <= f[n]
      BY <2>2, <3>1, <3>2
    <3>4. more(n)
      BY <3>1, <3>3
    <3> HIDE DEF more
    <3> QED
      BY <2>1, <3>4
  <2>4. CASE n - 1 # arm
    <3>1. q[n - 1] = p[n - 1] /\ (arm < n <=> arm < n - 1)
      <4>1. arm \in Int /\ n \in Int
        BY <1>4
      <4>2. arm < n <=> arm < n - 1
        BY <2>4, <4>1
      <4>3. q[n - 1] = p[n - 1]
        BY <1>1, <2>2, <2>4
      <4> QED
        BY <4>2, <4>3
    <3>2. more(n)
      BY <2>1, <2>2, <3>1
    <3> HIDE DEF more
    <3> QED
      BY <2>1, <3>2
  <2> QED
    BY <2>3, <2>4
<1>8. \A n \in 0..c : h[n] \in {1}
  <2> DEFINE V == {1}
  <2>1. h[0] \in V /\ \A n \in 1..c : h[n - 1] \in V => h[n] \in V
    BY <1>6, <1>7, Zenon
  <2> HIDE DEF h, V
  <2>2. \A n \in 0..c : h[n] \in V
    BY <1>4, <2>1, RecursionStays
  <2> QED
    BY <2>2 DEF V
<1>9. more(c)
  <2> HIDE DEF more
  <2> QED
    BY <1>4, <1>8
<1>10. arm < c /\ f[c] \in Nat
  BY <1>4
<1>11. Pulls(d) = Pulls(b) + 1 /\ Pulls(b) \in Nat /\ p[arm] <= Pulls(b)
  BY <1>2, <1>3, <1>9, <1>10
<1> QED
  BY <1>11 DEF p

LEMMA NoPulls == Pulls(NewArms) = 0
<1> DEFINE c == Cardinality(Arms)
<1> DEFINE p == NewArms.pulls
<1>1. p \in [Arms -> Nat] /\ \A a \in Arms : p[a] = 0
  BY DEF NewArms
<1>2. PICK f \in [0..c -> Nat] : Pulling(f, p) /\ Pulls(NewArms) = f[c]
  BY <1>1, PullsOf
<1>3. c \in Nat /\ \A n \in 1..c : n - 1 \in Arms /\ n \in 0..c /\ n # 0
  BY ArmsAre
<1>4. f[0] = 0 /\ \A n \in 1..c : f[n] = f[n - 1] + p[n - 1]
  <2>1. 0 \in 0..c
    BY <1>3
  <2> QED
    BY <1>2, <1>3, <2>1 DEF Pulling
<1> HIDE DEF c, p
<1> DEFINE V == {0}
<1>5. f[0] \in V /\ \A n \in 1..c : f[n - 1] \in V => f[n] \in V
  BY <1>1, <1>3, <1>4
<1> HIDE DEF V
<1>6. \A n \in 0..c : f[n] \in V
  BY <1>3, <1>5, RecursionStays
<1> QED
  BY <1>2, <1>3, <1>6 DEF V

ArmsHold(b) == b \in ArmStates /\ Pulls(b) = b.samples

LEMMA ArmsAccepted == \A b : ArmsHold(b) => PullsMatchSamples(b)
BY FormatAssumption DEF ArmsHold, ArmStates, PullsMatchSamples

LEMMA NewArmsHold == ArmsHold(NewArms)
<1>1. 0 \in FiniteNumbers /\ 0 \in 0..MaxCount
  BY ConstantsAreFloats, FormatAssumption DEF FiniteNumbers
<1>2. NewArms \in ArmStates /\ NewArms.samples = 0
  BY <1>1 DEF NewArms, ArmStates
<1> QED
  BY <1>2, NoPulls DEF ArmsHold

LEMMA RewardedHolds ==
    ASSUME NEW b, ArmsHold(b), NEW arm, NEW reward \in Floats, CanReward(b, arm, reward)
    PROVE  LET d == Rewarded(b, arm, reward)
           IN  /\ ArmsHold(d)
               /\ d.pulls = [b.pulls EXCEPT ![arm] = @ + 1]
               /\ d.rewards = [b.rewards EXCEPT ![arm] = FAdd(@, reward)]
               /\ d.samples = b.samples + 1
               /\ arm \in Arms /\ b.pulls[arm] <= b.samples
<1> DEFINE d == Rewarded(b, arm, reward)
<1> DEFINE pulls == [b.pulls EXCEPT ![arm] = @ + 1]
<1> DEFINE total == FAdd(b.rewards[arm], reward)
<1> DEFINE rewards == [b.rewards EXCEPT ![arm] = total]
<1>1. /\ arm \in Arms /\ CanCount(b.samples) /\ IsFinite(total)
      /\ b \in ArmStates /\ Pulls(b) = b.samples
  BY DEF CanReward, ArmsHold
<1>2. total \in FiniteNumbers
  <2>1. b.rewards[arm] \in Floats
    BY <1>1 DEF ArmStates, FiniteNumbers
  <2> QED
    BY <1>1, <2>1, SumIsFloat DEF FiniteNumbers
<1>3. b.samples + 1 \in 0..MaxCount
  BY <1>1, FormatAssumption DEF ArmStates, CanCount
<1>4. d = [b EXCEPT !.pulls = pulls, !.rewards = rewards, !.samples = b.samples + 1]
  BY <1>1 DEF Rewarded, ArmStates
<1>5. pulls \in [Arms -> Nat] /\ b.pulls \in [Arms -> Nat]
  BY <1>1 DEF ArmStates
<1> HIDE DEF total
<1>6. rewards \in [Arms -> FiniteNumbers]
  BY <1>1, <1>2 DEF ArmStates
<1> HIDE DEF pulls, rewards, d
<1>7. d \in ArmStates /\ d.pulls = pulls /\ d.rewards = rewards /\ d.samples = b.samples + 1
  BY <1>1, <1>3, <1>4, <1>5, <1>6 DEF ArmStates
<1>8. Pulls(d) = Pulls(b) + 1 /\ b.pulls[arm] <= Pulls(b)
  <2>1. d.pulls = [b.pulls EXCEPT ![arm] = @ + 1]
    BY <1>7 DEF pulls
  <2> QED
    BY <1>1, <1>5, <2>1, PullsGrow
<1>9. ArmsHold(d)
  BY <1>1, <1>7, <1>8 DEF ArmsHold
<1> QED
  BY <1>1, <1>7, <1>8, <1>9 DEF d, pulls, rewards, total

-----------------------------------------------------------------------------
(* EpsilonGreedy and Ucb1.                                                 *)

GreedyHolds(g) ==
    ArmsHold(g.arms) /\ g.epsilon \in Floats /\ MinEpsilon <= g.epsilon /\ g.epsilon <= Epsilon0

LEMMA GreedyAccepted == \A g : GreedyHolds(g) => GreedyIsValid(g)
BY ArmsAccepted DEF GreedyHolds, GreedyIsValid, ArmsHold, ArmStates, FiniteNumbers

LEMMA NewGreedyHolds == GreedyHolds(NewGreedy)
<1>1. MinEpsilon <= Epsilon0 /\ Epsilon0 \in Floats /\ Epsilon0 \in Int
  BY BanditAssumption, FiniteFloats
<1> HIDE DEF ArmsHold, NewArms
<1> QED
  BY <1>1, NewArmsHold DEF GreedyHolds, NewGreedy

\* A decay of at most 1 does not raise a probability.
LEMMA DecayLowers ==
    ASSUME NEW e \in Floats, MinEpsilon <= e, e <= Epsilon0
    PROVE  Decayed(e) \in Floats /\ MinEpsilon <= Decayed(e) /\ Decayed(e) <= Epsilon0
<1>1. /\ 0 <= MinEpsilon /\ MinEpsilon <= Epsilon0 /\ Epsilon0 <= Unit
      /\ 0 < EpsilonDecay /\ EpsilonDecay <= Unit
      /\ MinEpsilon \in Floats /\ Epsilon0 \in Floats /\ EpsilonDecay \in Floats
  BY BanditAssumption
<1>2. e \in Int /\ EpsilonDecay \in Int /\ MinEpsilon \in Int /\ Epsilon0 \in Int /\ Unit \in Nat /\ Unit > 0
      /\ Largest \in Nat
  BY <1>1, FiniteFloats, FormatAssumption
<1>3. IsFinite(Unit)
  BY ConstantsAreFloats
<1>4. IsFinite(e) /\ IsFinite(EpsilonDecay)
  BY <1>1, <1>2, <1>3 DEF IsFinite
<1> DEFINE product == e * EpsilonDecay
<1>5. product \in Int /\ product <= e * Unit
  <2>1. PICK k \in Nat : Unit = EpsilonDecay + k
    <3>1. Unit - EpsilonDecay \in Nat /\ Unit = EpsilonDecay + (Unit - EpsilonDecay)
      BY <1>1, <1>2
    <3> QED
      BY <3>1
  <2>2. e \in Nat /\ EpsilonDecay \in Nat
    BY <1>1, <1>2
  <2>3. e * k \in Nat /\ e * Unit = e * EpsilonDecay + e * k /\ e * EpsilonDecay \in Nat
    BY <2>1, <2>2
  <2> QED
    BY <2>3
<1>6. FMul(e, EpsilonDecay) = ToFloat(product, Unit)
  BY <1>4 DEF FMul
<1> HIDE DEF product
<1>7. Representable(e)
  BY <1>4, FiniteFloats
<1>8. ToFloat(product, Unit) \in Int /\ ToFloat(product, Unit) <= e
  BY <1>2, <1>4, <1>5, <1>7, ToFloatBounds
<1>9. FMul(e, EpsilonDecay) \in Floats
  BY <1>1, ProductIsFloat
<1> DEFINE m == FMul(e, EpsilonDecay)
<1>10. m \in Floats /\ m \in Int /\ m <= e
  BY <1>6, <1>8, <1>9
<1> HIDE DEF m
<1>11. Higher(m, MinEpsilon) \in Floats /\ MinEpsilon <= Higher(m, MinEpsilon)
       /\ Higher(m, MinEpsilon) <= Epsilon0
  BY <1>1, <1>2, <1>10 DEF Higher
<1>12. Decayed(e) = Higher(m, MinEpsilon) \/ Decayed(e) = e
  BY DEF Decayed, m
<1> QED
  BY <1>11, <1>12

LEMMA GreedyUpdateHolds ==
    ASSUME NEW g, GreedyHolds(g), NEW arm, NEW reward \in Floats
    PROVE  GreedyHolds(GreedyUpdate(g, arm, reward).state)
<1> DEFINE next == [arms |-> Rewarded(g.arms, arm, reward), epsilon |-> Decayed(g.epsilon)]
<1> DEFINE r == GreedyUpdate(g, arm, reward)
<1>1. CASE CanReward(g.arms, arm, reward)
  <2>1. ArmsHold(Rewarded(g.arms, arm, reward))
    BY <1>1, RewardedHolds DEF GreedyHolds
  <2>2. Decayed(g.epsilon) \in Floats /\ MinEpsilon <= Decayed(g.epsilon) /\ Decayed(g.epsilon) <= Epsilon0
    BY DecayLowers DEF GreedyHolds
  <2>3. next.arms = Rewarded(g.arms, arm, reward) /\ next.epsilon = Decayed(g.epsilon)
    OBVIOUS
  <2> HIDE DEF next
  <2>4. GreedyHolds(next)
    BY <2>1, <2>2, <2>3 DEF GreedyHolds
  <2>5. r = Refused(g) \/ r = Done(next)
    BY Zenon DEF GreedyUpdate, next
  <2> QED
    BY <2>4, <2>5 DEF Refused, Done
<1>2. CASE ~CanReward(g.arms, arm, reward)
  <2>1. r = Refused(g)
    BY <1>2, Zenon DEF GreedyUpdate
  <2> QED
    BY <2>1 DEF Refused
<1> QED
  BY <1>1, <1>2

\* No sample count so far is rounded by `as f64`, which is so below 2^53.
CountsAreExact(samples) == \A n \in 0..samples : OfInt(n) = n * Unit

UcbHolds(b) == ArmsHold(b) /\ (CountsAreExact(b.samples) => UcbIsValid(b))

LEMMA NewUcbHolds == UcbHolds(NewArms)
<1>1. OfInt(0) \in Int /\ OfInt(0) >= 0
  BY CountBounds
<1>2. \A a \in Arms : NewArms.rewards[a] = 0 /\ NewArms.pulls[a] = 0
  BY DEF NewArms
<1>3. ArmsHold(NewArms) /\ PullsMatchSamples(NewArms)
  BY NewArmsHold, ArmsAccepted
<1> QED
  BY <1>1, <1>2, <1>3 DEF UcbHolds, UcbIsValid

\* An arm's rewards of at most 1 add up to no more than its pulls.
LEMMA UcbUpdateHolds ==
    ASSUME NEW b, UcbHolds(b), NEW arm, NEW reward \in Floats
    PROVE  UcbHolds(UcbUpdate(b, arm, reward).state)
<1> DEFINE d == Rewarded(b, arm, reward)
<1> DEFINE r == UcbUpdate(b, arm, reward)
<1>1. CASE RewardIsUnit(reward) /\ CanReward(b, arm, reward)
  <2>1. ArmsHold(b)
    BY DEF UcbHolds
  <2>2. /\ ArmsHold(d)
        /\ d.pulls = [b.pulls EXCEPT ![arm] = @ + 1]
        /\ d.rewards = [b.rewards EXCEPT ![arm] = FAdd(@, reward)]
        /\ d.samples = b.samples + 1
        /\ arm \in Arms /\ b.pulls[arm] <= b.samples
    BY <1>1, <2>1, RewardedHolds
  <2>3. b.pulls \in [Arms -> Nat] /\ b.rewards \in [Arms -> FiniteNumbers] /\ b.samples \in 0..MaxCount
        /\ d.samples \in 0..MaxCount /\ MaxCount \in Nat
    BY <2>1, <2>2, FormatAssumption DEF ArmsHold, ArmStates
  <2> HIDE DEF d
  <2>4. ASSUME CountsAreExact(d.samples)
        PROVE  UcbIsValid(d)
    <3> DEFINE p == b.pulls[arm]
    <3> DEFINE total == b.rewards[arm]
    <3>1. UcbIsValid(b)
      BY <2>2, <2>3, <2>4 DEF UcbHolds, CountsAreExact
    <3>2. 0 <= total /\ total <= OfInt(p) /\ p \in Nat /\ total \in Floats /\ IsFinite(total)
          /\ p <= b.samples
      BY <2>2, <2>3, <3>1 DEF UcbIsValid, FiniteNumbers
    <3> HIDE DEF p, total
    <3>3. reward \in Int /\ 0 <= reward /\ reward <= Unit /\ IsFinite(reward) /\ total \in Int
          /\ Unit \in Nat
      BY <1>1, <3>2, FiniteFloats, FormatAssumption DEF RewardIsUnit
    <3>4. OfInt(p) = p * Unit /\ OfInt(p + 1) = (p + 1) * Unit /\ p + 1 <= MaxCount
      BY <2>2, <2>3, <2>4, <3>2 DEF CountsAreExact
    <3>5. (p + 1) * Unit = p * Unit + Unit /\ p * Unit \in Nat
      BY <3>2, <3>3
    <3>6. (p + 1) * Unit <= Largest
      <4>1. PICK k \in Nat : MaxCount = (p + 1) + k
        <5>1. MaxCount - (p + 1) \in Nat /\ MaxCount = (p + 1) + (MaxCount - (p + 1))
          BY <2>3, <3>2, <3>4
        <5> QED
          BY <5>1
      <4>2. MaxCount * Unit = (p + 1) * Unit + k * Unit /\ k * Unit \in Nat /\ (p + 1) * Unit \in Nat
        BY <3>2, <3>3, <4>1
      <4>3. 2 * MaxCount * Unit = MaxCount * Unit + MaxCount * Unit
        BY <2>3, <3>3
      <4> QED
        BY <4>2, <4>3, FormatAssumption
    <3> DEFINE limit == OfInt(p + 1)
    <3>7. limit \in Floats /\ limit \in Int /\ IsFinite(limit) /\ total + reward <= limit
      <4>1. limit \in Floats /\ limit \in Int
        BY <3>2, CountBounds
      <4>2. IsFinite(limit)
        BY <3>4, <3>5, <3>6, FormatAssumption DEF IsFinite
      <4>3. total + reward <= limit
        BY <3>2, <3>3, <3>4, <3>5
      <4> QED
        BY <4>1, <4>2, <4>3
    <3> HIDE DEF limit
    <3>8. FAdd(total, reward) <= limit
      BY <3>2, <3>3, <3>7, SumBounds
    <3>9. 0 <= FAdd(total, reward)
      BY <3>2, <3>3, SumSign
    <3>10. ASSUME NEW a \in Arms
           PROVE  0 <= d.rewards[a] /\ d.rewards[a] <= OfInt(d.pulls[a])
      <4>1. CASE a = arm
        <5>1. d.rewards[a] = FAdd(total, reward) /\ d.pulls[a] = p + 1
          BY <2>2, <2>3, <4>1 DEF total, p
        <5> QED
          BY <3>8, <3>9, <5>1 DEF limit
      <4>2. CASE a # arm
        <5>1. d.rewards[a] = b.rewards[a] /\ d.pulls[a] = b.pulls[a]
          BY <2>2, <2>3, <4>2
        <5> QED
          BY <3>1, <5>1 DEF UcbIsValid
      <4> QED
        BY <4>1, <4>2
    <3>11. PullsMatchSamples(d)
      BY <2>2, ArmsAccepted
    <3> QED
      BY <3>10, <3>11 DEF UcbIsValid
  <2>5. UcbHolds(d)
    BY <2>2, <2>4 DEF UcbHolds
  <2>6. r = Done(d)
    BY <1>1, Zenon DEF UcbUpdate, d
  <2> QED
    BY <2>5, <2>6 DEF Done
<1>2. CASE ~(RewardIsUnit(reward) /\ CanReward(b, arm, reward))
  <2>1. r = Refused(b)
    BY <1>2, Zenon DEF UcbUpdate
  <2> QED
    BY <2>1 DEF Refused
<1> QED
  BY <1>1, <1>2

-----------------------------------------------------------------------------
(* The objects behind the handles of the C interface.                      *)

ObjectKept(type, o) ==
    /\ type = "mean" => MeanIsValid(o)
    /\ type \in {"linear", "logistic"} => LinearHolds(o)
    /\ type = "scaler" => ScalerHolds(o)
    /\ type = "regression_pipeline" => PartsHold(o) /\ o.task = "regression"
    /\ type = "classification_pipeline" => PartsHold(o) /\ o.task = "classification"

LEMMA KeptIsValid ==
    ASSUME NEW type \in HandleTypes, NEW o, ObjectKept(type, o)
    PROVE  ObjectIsValid(type, o)
<1>1. CASE type = "mean"
  BY <1>1 DEF ObjectKept, ObjectIsValid
<1>2. CASE type \in {"linear", "logistic"}
  <2>1. LinearIsValid(o)
    BY <1>2, LinearAccepted DEF ObjectKept
  <2> QED
    BY <1>2, <2>1 DEF ObjectIsValid
<1>3. CASE type = "scaler"
  <2>1. ScalerIsValid(o)
    BY <1>3, ScalerAccepted DEF ObjectKept
  <2> QED
    BY <1>3, <2>1 DEF ObjectIsValid
<1>4. CASE type \in {"regression_pipeline", "classification_pipeline"}
  <2>1. PipelineIsValid(o)
    BY <1>4, PartsAccepted DEF ObjectKept
  <2> QED
    BY <1>4, <2>1 DEF ObjectIsValid
<1> QED
  BY <1>1, <1>2, <1>3, <1>4 DEF HandleTypes

LEMMA NewObjectKept ==
    ASSUME NEW type \in HandleTypes
    PROVE  ObjectKept(type, NewObject(type))
<1>1. CASE type = "mean"
  <2>1. NewObject(type) = NewMean
    BY <1>1 DEF NewObject
  <2> QED
    BY <1>1, <2>1, ConstantsAreFloats DEF ObjectKept, MeanIsValid, NewMean
<1>2. CASE type \in {"linear", "logistic"}
  <2>1. NewObject(type) = NewLinear("sgd")
    BY <1>2 DEF NewObject
  <2> QED
    BY <1>2, <2>1, NewLinearHolds DEF ObjectKept
<1>3. CASE type = "scaler"
  <2>1. NewObject(type) = NewScaler
    BY <1>3 DEF NewObject
  <2> QED
    BY <1>3, <2>1, NewScalerHolds DEF ObjectKept
<1>4. CASE type = "regression_pipeline"
  <2>1. NewObject(type) = NewPipeline("regression", "scaler")
    BY <1>4 DEF NewObject
  <2> QED
    BY <1>4, <2>1, NewPartsHold DEF ObjectKept
<1>5. CASE type = "classification_pipeline"
  <2>1. NewObject(type) = NewPipeline("classification", "scaler")
    BY <1>5 DEF NewObject
  <2> QED
    BY <1>5, <2>1, NewPartsHold DEF ObjectKept
<1> QED
  BY <1>1, <1>2, <1>3, <1>4, <1>5 DEF HandleTypes

\* An answer whose object is still one of its type.
AnswerKept(a, type) == {"code", "object"} \subseteq DOMAIN a /\ ObjectKept(type, a.object)

LEMMA FailureKept ==
    ASSUME NEW type, NEW o, ObjectKept(type, o), NEW code
    PROVE  AnswerKept(Failed(code, o), type)
BY DEF AnswerKept, Failed, Answer

LEMMA LibraryKept ==
    ASSUME NEW type, NEW r, ObjectKept(type, r.state)
    PROVE  AnswerKept(FromLibrary(r), type)
<1>1. \/ FromLibrary(r) = [code |-> "ok", object |-> r.state, written |-> NullPointer]
      \/ FromLibrary(r) = [code |-> "refused", object |-> r.state, written |-> NullPointer]
  BY DEF FromLibrary, Failed, Answer
<1> DEFINE a == FromLibrary(r)
<1>2. {"code", "object"} \subseteq DOMAIN a /\ a.object = r.state
  BY <1>1
<1> QED
  BY <1>2 DEF AnswerKept

LEMMA LearnKept ==
    ASSUME NEW type \in HandleTypes, NEW o, ObjectKept(type, o),
           NEW x \in {NullPointer} \cup Vectors, NEW target \in Floats
    PROVE  AnswerKept(LearnCall(type, o, x, target), type)
<1> DEFINE a == LearnCall(type, o, x, target)
<1>1. AnswerKept(Failed("invalid_argument", o), type)
  BY FailureKept
<1>2. Unit \in Floats
  BY ConstantsAreFloats
<1>3. CASE type = "mean"
  <2> DEFINE r == MeanUpdate(o, target)
  <2>1. a = FromLibrary(r)
    BY <1>3 DEF LearnCall
  <2> DEFINE next == [count |-> o.count + 1, mean |-> NextMean(o, target)]
  <2>2. r = Refused(o) \/ (IsFinite(NextMean(o, target)) /\ r = Done(next))
    BY Zenon DEF MeanUpdate
  <2>3. next.mean = NextMean(o, target)
    OBVIOUS
  <2> HIDE DEF a, r, next
  <2>4. MeanIsValid(r.state)
    BY <1>3, <2>2, <2>3 DEF ObjectKept, MeanIsValid, Done, Refused
  <2>5. AnswerKept(FromLibrary(r), type)
    BY <1>3, <2>4, LibraryKept DEF ObjectKept
  <2> QED
    BY <2>1, <2>5 DEF a
<1>4. CASE type = "linear"
  <2> DEFINE r == LinearLearn("squared", o, x, target, Unit)
  <2>1. a = Failed("invalid_argument", o) \/ (x \in Vectors /\ a = FromLibrary(r))
    BY <1>4 DEF LearnCall, LinearRegressionLearn, WithFeatures
  <2>2. x \in Vectors => LinearHolds(r.state)
    BY <1>2, <1>4, LinearLearnHolds DEF ObjectKept
  <2> HIDE DEF a, r
  <2>3. x \in Vectors => AnswerKept(FromLibrary(r), type)
    BY <1>4, <2>2, LibraryKept DEF ObjectKept
  <2> QED
    BY <1>1, <2>1, <2>3 DEF a
<1>5. CASE type = "logistic"
  <2> DEFINE r == LogisticLearn(o, x, target = 1, Unit)
  <2>1. a = Failed("invalid_argument", o) \/ (x \in Vectors /\ a = FromLibrary(r))
    BY <1>5 DEF LearnCall, LogisticRegressionLearn, WithFeatures
  <2>2. x \in Vectors => LinearHolds(r.state)
    BY <1>2, <1>5, LogisticLearnHolds DEF ObjectKept
  <2> HIDE DEF a, r
  <2>3. x \in Vectors => AnswerKept(FromLibrary(r), type)
    BY <1>5, <2>2, LibraryKept DEF ObjectKept
  <2> QED
    BY <1>1, <2>1, <2>3 DEF a
<1>6. CASE type = "scaler"
  <2> DEFINE r == ScalerUpdate(o, x)
  <2>1. a = Failed("invalid_argument", o) \/ (x \in Vectors /\ a = FromLibrary(r))
    BY <1>6 DEF LearnCall, ScalerLearn, WithFeatures
  <2>2. x \in Vectors => ScalerHolds(r.state)
    BY <1>6, ScalerUpdateHolds DEF ObjectKept
  <2> HIDE DEF a, r
  <2>3. x \in Vectors => AnswerKept(FromLibrary(r), type)
    BY <1>6, <2>2, LibraryKept DEF ObjectKept
  <2> QED
    BY <1>1, <2>1, <2>3 DEF a
<1>7. CASE type = "regression_pipeline"
  <2> DEFINE r == PipelineLearn(o, x, target)
  <2>1. a = Failed("invalid_argument", o) \/ (x \in Vectors /\ a = FromLibrary(r))
    BY <1>7 DEF LearnCall, RegressionPipelineLearn, WithFeatures
  <2>2. PartsHold(o) /\ o.task = "regression" /\ Suits(o, target)
    BY <1>7 DEF ObjectKept, Suits
  <2>3. x \in Vectors => PartsHold(r.state) /\ r.state.task = "regression"
    BY <1>2, <2>2, PipelinesHold DEF PartsKept
  <2> HIDE DEF a, r
  <2>4. x \in Vectors => AnswerKept(FromLibrary(r), type)
    BY <1>7, <2>3, LibraryKept DEF ObjectKept
  <2> QED
    BY <1>1, <2>1, <2>4 DEF a
<1>8. CASE type = "classification_pipeline"
  <2> DEFINE r == PipelineLearn(o, x, target = 1)
  <2>1. a = Failed("invalid_argument", o) \/ (x \in Vectors /\ a = FromLibrary(r))
    BY <1>8 DEF LearnCall, ClassificationPipelineLearn, WithFeatures
  <2>2. PartsHold(o) /\ o.task = "classification" /\ Suits(o, target = 1)
    BY <1>8 DEF ObjectKept, Suits
  <2>3. x \in Vectors => PartsHold(r.state) /\ r.state.task = "classification"
    BY <1>2, <2>2, PipelinesHold DEF PartsKept
  <2> HIDE DEF a, r
  <2>4. x \in Vectors => AnswerKept(FromLibrary(r), type)
    BY <1>8, <2>3, LibraryKept DEF ObjectKept
  <2> QED
    BY <1>1, <2>1, <2>4 DEF a
<1> QED
  BY <1>3, <1>4, <1>5, <1>6, <1>7, <1>8 DEF HandleTypes

\* The table of the handles.
HandlesKept(types, o) ==
    /\ o = [h \in Handles |-> o[h]]
    /\ \A h \in Handles : o[h] # NullHandle => ObjectKept(types[h], o[h][1])

LEMMA TableKept ==
    ASSUME NEW types, NEW o, HandlesKept(types, o), NEW h \in Handles, NEW v,
           v # NullHandle => ObjectKept(types[h], v[1])
    PROVE  HandlesKept(types, [o EXCEPT ![h] = v])
<1> DEFINE n == [o EXCEPT ![h] = v]
<1>1. n = [g \in Handles |-> n[g]] /\ n[h] = v /\ \A g \in Handles \ {h} : n[g] = o[g]
  BY DEF HandlesKept
<1> HIDE DEF n
<1>2. HandlesKept(types, n)
  BY <1>1 DEF HandlesKept
<1> QED
  BY <1>2 DEF n

\* A borrowed handle stays one of its type, and NULL stays NULL.
LEMMA BorrowedKept ==
    ASSUME NEW type, NEW handle, NEW a, handle # NullHandle => AnswerKept(a, type),
           NEW b, b = Borrowed(handle, a)
    PROVE  b.object # NullHandle => ObjectKept(type, b.object[1])
<1>1. CASE handle = NullHandle
  BY <1>1 DEF Borrowed, Failed, Answer
<1>2. CASE handle # NullHandle
  <2>1. {"code", "object"} \subseteq DOMAIN a /\ ObjectKept(type, a.object)
    BY <1>2 DEF AnswerKept
  <2>2. b = [a EXCEPT !.object = Handle(a.object)]
    BY <1>2 DEF Borrowed
  <2>3. b.object = Handle(a.object)
    BY <2>1, <2>2
  <2>4. b.object[1] = a.object
    BY <2>3 DEF Handle
  <2> QED
    BY <2>1, <2>4
<1> QED
  BY <1>1, <1>2

HandlesKeptNext == HandlesKept(stream.types, object')

LEMMA CreateKept ==
    ASSUME stream \in Streams, stream.kind = "handles", HandlesKept(stream.types, object), CreateHandle
    PROVE  HandlesKeptNext
<1>1. PICK h \in Handles : object' = [object EXCEPT ![h] = Handle(NewObject(stream.types[h]))]
  BY DEF CreateHandle
<1> DEFINE v == Handle(NewObject(stream.types[h]))
<1>2. stream.types[h] \in HandleTypes
  BY LearningAssumption
<1>3. v[1] = NewObject(stream.types[h])
  BY DEF Handle
<1>4. ObjectKept(stream.types[h], v[1])
  BY <1>2, <1>3, NewObjectKept
<1>5. object' = [object EXCEPT ![h] = v]
  BY <1>1
<1> HIDE DEF v
<1> QED
  BY <1>4, <1>5, TableKept DEF HandlesKeptNext

LEMMA LearnedKept ==
    ASSUME stream \in Streams, stream.kind = "handles", HandlesKept(stream.types, object), LearnOnHandle
    PROVE  HandlesKeptNext
<1>1. PICK h \in Handles, input \in stream.inputs :
          LET a == Borrowed(object[h], LearnCall(stream.types[h], object[h][1], input[1], input[2]))
          IN  object' = [object EXCEPT ![h] = a.object] /\ log' = log \o Logged(h, a.code, input)
  BY LearnCalls
<1> DEFINE type == stream.types[h]
<1> DEFINE a == LearnCall(type, object[h][1], input[1], input[2])
<1> DEFINE b == Borrowed(object[h], a)
<1>2. type \in HandleTypes
  BY LearningAssumption
<1>3. input[1] \in {NullPointer} \cup Vectors /\ input[2] \in Floats
  BY SamplesAssumption
<1>4. object[h] # NullHandle => ObjectKept(type, object[h][1])
  BY DEF HandlesKept
<1>5. object' = [object EXCEPT ![h] = b.object]
  BY <1>1
<1> HIDE DEF type
<1>6. object[h] # NullHandle => AnswerKept(a, type)
  BY <1>2, <1>3, <1>4, LearnKept
<1>7. b = Borrowed(object[h], a)
  OBVIOUS
<1> HIDE DEF a, b
<1>8. b.object # NullHandle => ObjectKept(type, b.object[1])
  BY <1>6, <1>7, BorrowedKept
<1> QED
  BY <1>5, <1>8, TableKept DEF HandlesKeptNext, type

LEMMA ReadKept ==
    ASSUME stream \in Streams, stream.kind = "handles", HandlesKept(stream.types, object), ReadHandle
    PROVE  HandlesKeptNext
<1>1. PICK h \in Handles : \E call \in Calls(stream.types[h]) :
          Called(h, Borrowed(object[h], ReadCall(stream.types[h], object[h][1], call)), <<>>)
  BY DEF ReadHandle
<1> DEFINE type == stream.types[h]
<1>2. PICK call \in Calls(type) :
          Called(h, Borrowed(object[h], ReadCall(type, object[h][1], call)), <<>>)
  BY <1>1
<1> DEFINE a == ReadCall(type, object[h][1], call)
<1> DEFINE b == Borrowed(object[h], a)
<1>3. type \in HandleTypes
  BY LearningAssumption
<1>4. object[h] # NullHandle => ObjectKept(type, object[h][1])
  BY DEF HandlesKept
<1>5. object' = [object EXCEPT ![h] = b.object]
  BY <1>2 DEF Called
<1>6. \/ call.name \in {"predict", "samples_seen"}
      \/ type \in {"linear", "logistic"} /\ call.name \in {"weights", "intercept"}
  BY CallNames
<1> HIDE DEF type
<1>7. IsReadOf(a, object[h][1])
  BY <1>3, <1>6, ReadReads
<1>8. b = Borrowed(object[h], a)
  OBVIOUS
<1> HIDE DEF a, b
<1>9. object[h] # NullHandle => AnswerKept(a, type)
  BY <1>4, <1>7 DEF IsReadOf, AnswerKept
<1>10. b.object # NullHandle => ObjectKept(type, b.object[1])
  BY <1>8, <1>9, BorrowedKept
<1> QED
  BY <1>5, <1>10, TableKept DEF HandlesKeptNext, type

LEMMA CopyKept ==
    ASSUME stream \in Streams, stream.kind = "handles", HandlesKept(stream.types, object), CopyHandle
    PROVE  HandlesKeptNext
<1>1. PICK h \in Handles, copy \in Handles, capacity \in {0, 1, 2} :
          /\ stream.types[copy] = stream.types[h] /\ object[copy] = NullHandle /\ object[h] # NullHandle
          /\ LET c == Copied(stream.types[h], CopyString(object[h][1], 1, capacity))
             IN  /\ object' = [object EXCEPT ![copy] = c.object]
                 /\ log' = log \o (IF c.code = "ok" THEN Inherited(h, copy) ELSE <<>>)
  BY CopyCalls
<1> DEFINE type == stream.types[h]
<1> DEFINE c == Copied(type, CopyString(object[h][1], 1, capacity))
<1>2. object' = [object EXCEPT ![copy] = c.object]
  BY <1>1
<1>3. c = Copied(type, CopyString(object[h][1], 1, capacity))
  OBVIOUS
<1>4. ObjectKept(type, object[h][1]) /\ type = stream.types[copy]
  BY <1>1 DEF HandlesKept
<1> HIDE DEF c, type
<1>5. \/ c.code # "ok" /\ c.object = NullHandle
      \/ c.code = "ok" /\ c.object = Handle(object[h][1])
  BY <1>3, CopiedAnswers
<1>6. Handle(object[h][1])[1] = object[h][1]
  BY DEF Handle
<1>7. c.object # NullHandle => ObjectKept(stream.types[copy], c.object[1])
  BY <1>4, <1>5, <1>6
<1> QED
  BY <1>2, <1>7, TableKept DEF HandlesKeptNext

LEMMA DestroyKept ==
    ASSUME stream \in Streams, stream.kind = "handles", HandlesKept(stream.types, object), DestroyHandle
    PROVE  HandlesKeptNext
<1>1. PICK h \in Handles : object' = [object EXCEPT ![h] = NullHandle]
  BY DEF DestroyHandle
<1> QED
  BY <1>1, TableKept DEF HandlesKeptNext

-----------------------------------------------------------------------------
(* LinUcb: the identity has a factor, and update keeps one.                *)

\* The entry of a factor, from the columns before it and its own diagonal.
FactorEntry(L, M, i, j) ==
    LET residual == FSub(M[i][j], CheckedSum([k \in 1..(j - 1) |-> FMul(L[<<i, k>>], L[<<j, k>>])]))
    IN  IF j > i THEN 0
        ELSE IF i # j THEN OrNaN(FDiv(residual, L[<<j, j>>]))
        ELSE IF IsFinite(residual) /\ residual > 0 THEN FSqrt(residual) ELSE NaN

Factoring(L, M) == L = [p \in Dims \X Dims |-> FactorEntry(L, M, p[1], p[2])]

UnitRoot == FSqrt(Unit)

DiagonalEntry(i, j) == IF i = j THEN UnitRoot ELSE 0

LEMMA UnitRootHolds == UnitRoot \in Int /\ UnitRoot >= 1 /\ UnitRoot # NaN /\ 0 # NaN
<1>1. Unit \in Nat /\ Unit > 0 /\ Largest \in Nat /\ Unit <= Largest /\ Unit \in Int
  BY FormatAssumption, ConstantsAreFloats DEF IsFinite
<1>2. IsFinite(Unit)
  BY ConstantsAreFloats
<1>3. UnitRoot \in Int /\ UnitRoot >= 1 /\ UnitRoot * UnitRoot <= Unit * Unit
  BY <1>1, <1>2, RootHolds DEF UnitRoot
<1> DEFINE r == UnitRoot
<1>4. r <= Unit
  <2> HIDE DEF r
  <2> SUFFICES ASSUME r > Unit PROVE FALSE
    BY <1>1, <1>3 DEF r
  <2>1. r \in Nat /\ r * r > Unit * r
    BY <1>1, <1>3 DEF r
  <2>2. Unit * r >= Unit * Unit
    BY <1>1, <2>1
  <2>3. r * r \in Int /\ Unit * r \in Int /\ Unit * Unit \in Int
    BY <1>1, <2>1
  <2> QED
    BY <1>3, <2>1, <2>2, <2>3 DEF r
<1> QED
  BY <1>1, <1>3, <1>4 DEF NaN

LEMMA ZeroIsDivided ==
    ASSUME NEW q \in Nat, q > 0
    PROVE  ToFloat(0, q) = 0
<1>1. IsFinite(0) /\ Representable(0)
  BY ConstantsAreFloats, ZeroIsRepresentable
<1>2. 0 <= 0 * q /\ 0 >= 0 * q /\ 0 \in Int
  OBVIOUS
<1>3. ToFloat(0, q) \in Int /\ ToFloat(0, q) <= 0 /\ ToFloat(0, q) >= 0
  BY <1>1, <1>2, ToFloatBounds
<1> QED
  BY <1>3

\* The next column of a factor of the identity.
LEMMA ColumnOfIdentity ==
    ASSUME NEW L, NEW j \in Dims,
           \A k \in 1..(j - 1), i \in Dims : L[<<i, k>>] = DiagonalEntry(i, k)
    PROVE  /\ FactorEntry(L, Identity, j, j) = UnitRoot
           /\ L[<<j, j>>] = UnitRoot =>
                \A i \in Dims : FactorEntry(L, Identity, i, j) = DiagonalEntry(i, j)
<1>1. ContextSize \in Nat /\ j \in 1..ContextSize /\ j - 1 \in Nat
  BY BanditAssumption DEF Dims
<1>2. 0 \in Floats /\ Unit \in Floats /\ IsFinite(0) /\ IsFinite(Unit) /\ Unit \in Nat /\ Unit > 0
  BY ConstantsAreFloats, FormatAssumption
<1>3. FMul(0, 0) = 0
  <2>1. FMul(0, 0) = ToFloat(0, Unit)
    BY <1>2 DEF FMul
  <2> QED
    BY <1>2, <2>1, ZeroIsDivided
<1>4. ASSUME NEW v \in {0, Unit}
      PROVE  FSub(v, 0) = v
  <2>1. v \in Floats /\ IsFinite(v) /\ v \in Int
    BY <1>2
  <2>2. FSub(v, 0) \in Int /\ FSub(v, 0) <= v /\ FSub(v, 0) >= v
    BY <1>2, <2>1, DifferenceBounds
  <2> QED
    BY <2>1, <2>2
<1> DEFINE terms(i) == [k \in 1..(j - 1) |-> FMul(L[<<i, k>>], L[<<j, k>>])]
<1>5. ASSUME NEW i \in Dims, i >= j
      PROVE  CheckedSum(terms(i)) = 0
  <2>1. ASSUME NEW k \in 1..(j - 1)
        PROVE  FMul(L[<<i, k>>], L[<<j, k>>]) = 0
    <3>1. i # k /\ j # k
      BY <1>1, <1>5 DEF Dims
    <3>2. L[<<i, k>>] = 0 /\ L[<<j, k>>] = 0
      BY <3>1 DEF DiagonalEntry
    <3> QED
      BY <1>3, <3>2
  <2>2. DOMAIN terms(i) = 1..(j - 1) /\ \A k \in 1..(j - 1) : terms(i)[k] = 0
    BY <2>1
  <2> HIDE DEF terms
  <2> QED
    BY <1>1, <2>2, SumOfZeros
<1>6. ASSUME NEW i \in Dims, i >= j
      PROVE  FSub(Identity[i][j], CheckedSum(terms(i))) = IF i = j THEN Unit ELSE 0
  <2>1. Identity[i][j] = IF i = j THEN Unit ELSE 0
    BY DEF Identity
  <2>2. CheckedSum(terms(i)) = 0
    BY <1>5, <1>6
  <2> HIDE DEF terms
  <2> QED
    BY <1>4, <2>1, <2>2
<1> DEFINE residual(i) == FSub(Identity[i][j], CheckedSum(terms(i)))
<1>7. ASSUME NEW i \in Dims
      PROVE  FactorEntry(L, Identity, i, j) =
                IF j > i THEN 0
                ELSE IF i # j THEN OrNaN(FDiv(residual(i), L[<<j, j>>]))
                ELSE IF IsFinite(residual(i)) /\ residual(i) > 0 THEN FSqrt(residual(i)) ELSE NaN
  BY DEF FactorEntry
<1>8. \A i \in Dims : i >= j => residual(i) = IF i = j THEN Unit ELSE 0
  BY <1>6
<1> HIDE DEF residual
<1>9. FactorEntry(L, Identity, j, j) = UnitRoot
  <2>1. ~(j > j) /\ j >= j
    BY <1>1
  <2>2. residual(j) = Unit
    BY <1>8, <2>1
  <2> QED
    BY <1>2, <1>7, <2>1, <2>2 DEF UnitRoot
<1>10. ASSUME L[<<j, j>>] = UnitRoot, NEW i \in Dims
       PROVE  FactorEntry(L, Identity, i, j) = DiagonalEntry(i, j)
  <2>1. i \in Int /\ j \in Int
    BY <1>1 DEF Dims
  <2>2. CASE i < j
    BY <1>7, <2>1, <2>2 DEF DiagonalEntry
  <2>3. CASE i = j
    BY <1>9, <2>3 DEF DiagonalEntry
  <2>4. CASE i > j
    <3>1. residual(i) = 0
      BY <1>8, <2>1, <2>4
    <3>2. FDiv(0, UnitRoot) = 0
      <4> DEFINE r == UnitRoot
      <4>1. r \in Int /\ r >= 1 /\ r # NaN /\ 0 # NaN
        BY UnitRootHolds
      <4> HIDE DEF r
      <4>2. FDiv(0, r) = 0 \/ FDiv(0, r) = ToFloat(0 * Unit, r)
        BY <1>2, <4>1 DEF FDiv
      <4>3. r \in Nat /\ 0 * Unit = 0 /\ r > 0 /\ 0 * r = 0
        BY <1>2, <4>1
      <4>4. ToFloat(0, r) = 0
        BY <4>3, ZeroIsDivided
      <4> QED
        BY <4>2, <4>3, <4>4 DEF r
    <3>3. OrNaN(0) = 0
      BY <1>2 DEF OrNaN
    <3>4. ~(j > i) /\ i # j
      BY <2>1, <2>4
    <3> QED
      BY <1>7, <1>10, <3>1, <3>2, <3>3, <3>4 DEF DiagonalEntry
  <2> QED
    BY <2>1, <2>2, <2>3, <2>4
<1> QED
  BY <1>9, <1>10

LEMMA IdentityHasFactor == HasFactor(Identity)
<1> DEFINE D == [p \in Dims \X Dims |-> DiagonalEntry(p[1], p[2])]
<1> DEFINE F == CHOOSE L : Factoring(L, Identity)
<1>1. ContextSize \in Nat /\ Dims = 1..ContextSize
  BY BanditAssumption DEF Dims
<1>2. Factoring(D, Identity)
  <2>1. \A i, j \in Dims : D[<<i, j>>] = DiagonalEntry(i, j)
    OBVIOUS
  <2>2. D = [p \in Dims \X Dims |-> D[p]]
    OBVIOUS
  <2> HIDE DEF D
  <2>3. ASSUME NEW j \in Dims
        PROVE  \A i \in Dims : FactorEntry(D, Identity, i, j) = D[<<i, j>>]
    <3>1. \A k \in 1..(j - 1), i \in Dims : D[<<i, k>>] = DiagonalEntry(i, k)
      BY <1>1, <2>1
    <3>2. D[<<j, j>>] = UnitRoot
      BY <2>1 DEF DiagonalEntry
    <3> QED
      BY <2>1, <3>1, <3>2, ColumnOfIdentity
  <2>4. \A p \in Dims \X Dims : FactorEntry(D, Identity, p[1], p[2]) = D[p]
    BY <2>3
  <2> QED
    BY <2>2, <2>4 DEF Factoring
<1>3. Factoring(F, Identity)
  <2> HIDE DEF D
  <2> QED
    BY <1>2
<1> HIDE DEF D, F
<1>4. \A i, j \in Dims : F[<<i, j>>] = FactorEntry(F, Identity, i, j)
  <2>1. F = [p \in Dims \X Dims |-> FactorEntry(F, Identity, p[1], p[2])]
    BY <1>3 DEF Factoring
  <2> SUFFICES ASSUME NEW i \in Dims, NEW j \in Dims
               PROVE  F[<<i, j>>] = FactorEntry(F, Identity, i, j)
    OBVIOUS
  <2>2. <<i, j>> \in Dims \X Dims /\ <<i, j>>[1] = i /\ <<i, j>>[2] = j
    OBVIOUS
  <2> QED
    BY <2>1, <2>2, Zenon
<1> DEFINE Diagonal(k) == \A i \in Dims : F[<<i, k>>] = DiagonalEntry(i, k)
<1> DEFINE T == {n \in Nat : \A k \in 1..n : k \in Dims => Diagonal(k)}
<1>5. 0 \in T
  <2> HIDE DEF Diagonal
  <2> QED
    OBVIOUS
<1>6. ASSUME NEW n \in T
      PROVE  n + 1 \in T
  <2>1. n \in Nat /\ \A k \in 1..n : k \in Dims => Diagonal(k)
    BY <1>6
  <2>2. ASSUME n + 1 \in Dims
        PROVE  Diagonal(n + 1)
    <3> DEFINE j == n + 1
    <3>1. j \in Dims /\ j - 1 = n
      BY <2>1, <2>2
    <3>2. \A k \in 1..(j - 1), i \in Dims : F[<<i, k>>] = DiagonalEntry(i, k)
      <4>1. \A k \in 1..(j - 1) : k \in 1..n /\ k \in Dims
        BY <1>1, <2>1, <3>1
      <4>2. \A k \in 1..(j - 1) : Diagonal(k)
        <5> HIDE DEF Diagonal, j
        <5> QED
          BY <2>1, <4>1
      <4> HIDE DEF j
      <4> QED
        BY <4>2
    <3> HIDE DEF j
    <3>3. /\ FactorEntry(F, Identity, j, j) = UnitRoot
          /\ F[<<j, j>>] = UnitRoot =>
               \A i \in Dims : FactorEntry(F, Identity, i, j) = DiagonalEntry(i, j)
      BY <3>1, <3>2, ColumnOfIdentity
    <3>4. Diagonal(j)
      BY <1>4, <3>1, <3>3
    <3> QED
      BY <3>4 DEF j
  <2> HIDE DEF Diagonal
  <2>3. \A k \in 1..(n + 1) : k \in 1..n \/ k = n + 1
    BY <2>1
  <2> QED
    BY <2>1, <2>2, <2>3
<1>7. T = Nat
  <2>1. T \in SUBSET Nat
    OBVIOUS
  <2> HIDE DEF T
  <2> QED
    BY <1>5, <1>6, <2>1, Induction
<1>8. \A i, j \in Dims : F[<<i, j>>] = DiagonalEntry(i, j)
  <2>1. ContextSize \in T
    BY <1>1, <1>7
  <2> QED
    BY <1>1, <2>1
<1> HIDE DEF T
<1>9. Cholesky(Identity) = [i \in Dims |-> [j \in Dims |-> F[<<i, j>>]]]
  BY DEF Cholesky, F, Factoring, FactorEntry
<1>10. \A i \in Dims : \A j \in 1..i : j \in Dims
  BY <1>1
<1>11. \A i \in Dims, j \in Dims : Cholesky(Identity)[i][j] # NaN
  <2>1. \A i \in Dims, j \in Dims : Cholesky(Identity)[i][j] = F[<<i, j>>]
    BY <1>9
  <2>2. \A i \in Dims, j \in Dims : DiagonalEntry(i, j) # NaN
    BY UnitRootHolds DEF DiagonalEntry
  <2>3. ASSUME NEW i \in Dims, NEW j \in Dims
        PROVE  Cholesky(Identity)[i][j] # NaN
    <3>1. Cholesky(Identity)[i][j] = F[<<i, j>>]
      BY <2>1
    <3>2. F[<<i, j>>] = DiagonalEntry(i, j)
      BY <1>8
    <3> QED
      BY <2>2, <3>1, <3>2, Zenon
  <2> QED
    BY <2>3, Zenon
<1> QED
  BY <1>10, <1>11 DEF HasFactor

LinUcbHolds(u) ==
    /\ {"matrices", "vectors", "samples"} \subseteq DOMAIN u
    /\ u.matrices = [a \in Arms |-> u.matrices[a]] /\ u.vectors = [a \in Arms |-> u.vectors[a]]
    /\ LinUcbIsValid(u)

LEMMA NewLinUcbValid == LinUcbHolds(NewLinUcb)
<1>1. IsFinite(0) /\ IsFinite(Unit)
  BY ConstantsAreFloats
<1>2. \A i, j \in Dims : IsFinite(Identity[i][j]) /\ Identity[i][j] = Identity[j][i]
  BY <1>1 DEF Identity
<1>3. MatrixIsValid(Identity, LAMBDA l, r : l = r)
  BY <1>2, IdentityHasFactor DEF MatrixIsValid, IsVector
<1> DEFINE u == NewLinUcb
<1>4. /\ {"matrices", "vectors", "samples"} \subseteq DOMAIN u
      /\ u.matrices = [a \in Arms |-> Identity] /\ u.vectors = [a \in Arms |-> [i \in Dims |-> 0]]
  BY DEF NewLinUcb
<1> HIDE DEF u
<1>5. \A a \in Arms : u.matrices[a] = Identity /\ IsVector(u.vectors[a])
  BY <1>1, <1>4 DEF IsVector
<1>6. LinUcbIsValid(u)
  BY <1>3, <1>5 DEF LinUcbIsValid
<1> QED
  BY <1>4, <1>6 DEF LinUcbHolds, u

LEMMA LinUcbUpdateHolds ==
    ASSUME NEW u, LinUcbHolds(u), NEW arm, NEW x \in Vectors, NEW reward
    PROVE  LinUcbHolds(LinUpdate(u, arm, x, reward).state)
<1> DEFINE M == u.matrices[arm]
<1> DEFINE A == [i \in Dims |-> [j \in Dims |-> FAdd(M[i][j], FMul(x[i], x[j]))]]
<1> DEFINE b == NextVector(u.vectors[arm], x, reward)
<1> DEFINE Fine == /\ arm \in Arms /\ ContextIsValid(x)
                   /\ \A i \in Dims : IsVector(A[i])
                   /\ IsVector(b) /\ HasFactor(A)
<1> DEFINE next == [matrices |-> [u.matrices EXCEPT ![arm] = A],
                    vectors |-> [u.vectors EXCEPT ![arm] = b], samples |-> u.samples + 1]
<1> DEFINE r == LinUpdate(u, arm, x, reward)
<1>1. r = Refused(u) \/ (Fine /\ r = Done(next))
  BY Zenon DEF LinUpdate
<1>2. ASSUME Fine
      PROVE  LinUcbHolds(next)
  <2>1. MatrixIsValid(M, LAMBDA l, s : l = s)
    BY <1>2 DEF LinUcbHolds, LinUcbIsValid
  <2>2. \A i, j \in Dims : j < i => M[i][j] = M[j][i]
    BY <2>1 DEF MatrixIsValid
  <2>3. \A i \in Dims : x[i] \in Int /\ IsFinite(x[i])
    <3>1. Len(x) = ContextSize /\ \A i \in Dims : IsFinite(x[i])
      BY <1>2 DEF ContextIsValid, IsVector
    <3>2. \A i \in Dims : x[i] \in Floats
      BY <3>1 DEF Dims, Vectors
    <3> QED
      BY <3>1, <3>2, FiniteFloats
  <2>4. ASSUME NEW i \in Dims, NEW j \in Dims
        PROVE  FMul(x[i], x[j]) = FMul(x[j], x[i])
    <3>1. x[i] * x[j] = x[j] * x[i]
      BY <2>3
    <3> QED
      BY <2>3, <3>1 DEF FMul
  <2>5. ASSUME NEW i \in Dims, NEW j \in Dims, j < i
        PROVE  A[i][j] = A[j][i]
    <3>1. A[i][j] = FAdd(M[i][j], FMul(x[i], x[j])) /\ A[j][i] = FAdd(M[j][i], FMul(x[j], x[i]))
      OBVIOUS
    <3> HIDE DEF A, M
    <3> QED
      BY <2>2, <2>4, <2>5, <3>1
  <2> HIDE DEF A, M, b
  <2>6. MatrixIsValid(A, LAMBDA l, s : l = s)
    BY <1>2, <2>5 DEF MatrixIsValid
  <2> DEFINE matrices == [u.matrices EXCEPT ![arm] = A]
  <2> DEFINE vectors == [u.vectors EXCEPT ![arm] = b]
  <2>7. /\ matrices = [a \in Arms |-> matrices[a]] /\ vectors = [a \in Arms |-> vectors[a]]
        /\ matrices[arm] = A /\ vectors[arm] = b
        /\ \A a \in Arms \ {arm} : matrices[a] = u.matrices[a] /\ vectors[a] = u.vectors[a]
    BY <1>2 DEF LinUcbHolds
  <2>8. next = [matrices |-> matrices, vectors |-> vectors, samples |-> u.samples + 1]
    OBVIOUS
  <2> HIDE DEF matrices, vectors, next
  <2>9. {"matrices", "vectors", "samples"} \subseteq DOMAIN next
        /\ next.matrices = matrices /\ next.vectors = vectors
    BY <2>8
  <2>10. \A a \in Arms : IsVector(vectors[a]) /\ MatrixIsValid(matrices[a], LAMBDA l, s : l = s)
    <3> TAKE a \in Arms
    <3>1. CASE a = arm
      BY <1>2, <2>6, <2>7, <3>1
    <3>2. CASE a # arm
      <4>1. IsVector(u.vectors[a]) /\ MatrixIsValid(u.matrices[a], LAMBDA l, s : l = s)
        BY DEF LinUcbHolds, LinUcbIsValid
      <4>2. matrices[a] = u.matrices[a] /\ vectors[a] = u.vectors[a]
        BY <2>7, <3>2
      <4> QED
        BY <4>1, <4>2
    <3> QED
      BY <3>1, <3>2
  <2>11. LinUcbIsValid(next)
    BY <2>9, <2>10 DEF LinUcbIsValid
  <2> QED
    BY <2>7, <2>9, <2>11 DEF LinUcbHolds
<1> HIDE DEF r, next, Fine
<1>3. LinUcbHolds(r.state)
  BY <1>1, <1>2 DEF Done, Refused
<1> QED
  BY <1>3 DEF r

-----------------------------------------------------------------------------
(* FTRL.                                                                   *)

LEMMA ZeroArithmetic ==
    /\ FAdd(0, 0) = 0 /\ FSub(0, 0) = 0 /\ FSqrt(0) = 0 /\ OrNaN(0) = 0
    /\ FAdd(0, NaN) = NaN /\ FSub(0, NaN) = NaN /\ OrNaN(NaN) = NaN
    /\ ~IsFinite(NaN) /\ ~IsFinite(Inf) /\ ~IsFinite(NegInf)
<1>1. 0 \in Floats /\ IsFinite(0) /\ Unit \in Nat /\ Largest \in Nat /\ Largest > 0
  BY ConstantsAreFloats, FormatAssumption
<1>2. ~IsFinite(NaN) /\ ~IsFinite(Inf) /\ ~IsFinite(NegInf) /\ NaN # 0
  BY <1>1 DEF IsFinite, NaN, Inf, NegInf
<1>3. FAdd(0, 0) = 0
  BY <1>1, SumBounds
<1>4. FSub(0, 0) = 0
  BY <1>1, DifferenceBounds
<1>5. FSqrt(0) = 0
  <2> DEFINE r == FSqrt(0)
  <2>1. r \in Int /\ r >= 0 /\ r * r <= 0 * Unit
    BY <1>1, RootHolds
  <2> HIDE DEF r
  <2>2. 0 * Unit = 0
    BY <1>1
  <2>3. r >= 1 => r * r >= 1
    BY <2>1
  <2>4. r = 0
    BY <2>1, <2>2, <2>3
  <2> QED
    BY <2>4 DEF r
<1>6. FAdd(0, NaN) = NaN
  BY <1>2 DEF FAdd
<1>7. FSub(0, NaN) = NaN
  BY <1>6 DEF FSub, FNeg
<1>8. OrNaN(0) = 0 /\ OrNaN(NaN) = NaN
  BY <1>1, <1>2 DEF OrNaN
<1> QED
  BY <1>2, <1>3, <1>4, <1>5, <1>6, <1>7, <1>8

LEMMA OneIsRepresentable == Representable(1)
<1>1. 1 = 1 * 2 ^ 0 /\ 1 \in Int /\ 0 \in Nat
  BY PowerOfTwo
<1> DEFINE b == 2 ^ Digits
<1>2. b \in Nat /\ b >= 1
  BY PowerOfTwo, FormatAssumption
<1> SUFFICES \E k \in Int, e \in Nat : -b <= k /\ k <= b /\ 1 = k * 2 ^ e
  BY Zenon DEF Representable
<1> HIDE DEF b
<1>3. -b <= 1 /\ 1 <= b
  BY <1>2
<1> QED
  BY <1>1, <1>3, Zenon

\* A positive number is not rounded to nothing, unless it is divided.
LEMMA PositiveStays ==
    ASSUME NEW k \in Int, k >= 1
    PROVE  ToFloat(k, 1) \in Int /\ ToFloat(k, 1) >= 1
<1>1. IsFinite(1)
  BY FormatAssumption DEF IsFinite
<1> QED
  BY <1>1, OneIsRepresentable, ToFloatBounds

\* A square that is finite is that of a finite number.
LEMMA SquareOfFinite ==
    ASSUME NEW g, IsFinite(FMul(g, g))
    PROVE  /\ IsFinite(g) /\ g \in Int
           /\ FMul(g, g) \in Int /\ FMul(g, g) >= 0
           /\ g = 0 => FMul(g, g) = 0
<1>1. Unit \in Nat /\ Unit > 0 /\ Largest \in Nat
  BY FormatAssumption
<1>2. IsFinite(g)
  <2> SUFFICES ASSUME ~IsFinite(g)
               PROVE  FALSE
    OBVIOUS
  <2>1. FMul(g, g) \in {NaN, Inf, NegInf}
    BY DEF FMul, Infinite
  <2> QED
    BY <2>1, ZeroArithmetic
<1>3. g \in Int
  BY <1>1, <1>2 DEF IsFinite
<1>4. FMul(g, g) = ToFloat(g * g, Unit)
  BY <1>2 DEF FMul
<1>5. g * g \in Int /\ g * g >= 0 * Unit /\ (g = 0 => g * g = 0)
  BY <1>1, <1>3
<1>6. IsFinite(0) /\ Representable(0)
  BY ConstantsAreFloats, ZeroIsRepresentable
<1> DEFINE s == g * g
<1> HIDE DEF s
<1>7. ToFloat(s, Unit) \in Int /\ ToFloat(s, Unit) >= 0
  BY <1>1, <1>5, <1>6, ToFloatBounds DEF s
<1>8. s = 0 => ToFloat(s, Unit) = 0
  BY <1>1, ZeroIsDivided
<1> QED
  BY <1>2, <1>3, <1>4, <1>5, <1>7, <1>8 DEF s

\* A gradient of nothing does not move a parameter that has learned nothing.
LEMMA NothingMoves ==
    ASSUME NEW p, p.n = 0, p.z = 0, NEW w, IsFinite(FtrlMoved(p, 0, 0, w).z)
    PROVE  FtrlMoved(p, 0, 0, w).z = 0
<1>1. FtrlAlpha \in Int /\ FtrlAlpha > 0 /\ IsFinite(FtrlAlpha) /\ Unit \in Nat /\ Unit > 0
  BY FtrlAssumption, FormatAssumption DEF IsFinite
<1>2. FtrlSigma(p, 0) = 0
  <2>1. FtrlSigma(p, 0) = FDiv(0, FtrlAlpha)
    BY ZeroArithmetic DEF FtrlSigma
  <2>2. FtrlAlpha # NaN /\ 0 # NaN /\ IsFinite(0)
    BY <1>1, ZeroArithmetic, ConstantsAreFloats
  <2>3. FDiv(0, FtrlAlpha) = ToFloat(0 * Unit, FtrlAlpha)
    BY <1>1, <2>2 DEF FDiv
  <2>4. 0 * Unit = 0 /\ FtrlAlpha \in Nat
    BY <1>1
  <2> QED
    BY <1>1, <2>1, <2>3, <2>4, ZeroIsDivided
<1>3. FMul(0, w) \in {0, NaN}
  <2>1. CASE IsFinite(w)
    <3>1. w \in Int /\ IsFinite(0)
      BY <2>1, ConstantsAreFloats, FormatAssumption DEF IsFinite
    <3>2. FMul(0, w) = ToFloat(0 * w, Unit) /\ 0 * w = 0
      BY <2>1, <3>1 DEF FMul
    <3> QED
      BY <1>1, <3>2, ZeroIsDivided
  <2>2. CASE ~IsFinite(w)
    BY <2>2 DEF FMul
  <2> QED
    BY <2>1, <2>2
<1> DEFINE product == OrNaN(FMul(OrNaN(FtrlSigma(p, 0)), w))
<1>4. product \in {0, NaN}
  BY <1>2, <1>3, ZeroArithmetic
<1> DEFINE moved == OrNaN(FSub(0, product))
<1>5. moved \in {0, NaN}
  <2> HIDE DEF product
  <2> QED
    BY <1>4, ZeroArithmetic
<1>6. FtrlMoved(p, 0, 0, w).z = FAdd(0, moved)
  BY DEF FtrlMoved
<1> HIDE DEF moved
<1>7. FAdd(0, moved) \in {0, NaN}
  BY <1>5, ZeroArithmetic
<1> QED
  BY <1>6, <1>7, ZeroArithmetic

\* What next_updated accepts: n counts every gradient that moved z.
LEMMA ParamMoves ==
    ASSUME NEW p, ParamIsValid(p), NEW g, NEW w, FtrlNext(p, g, w).ok
    PROVE  ParamIsValid(FtrlNext(p, g, w).state)
<1> DEFINE square == FMul(g, g)
<1> DEFINE n == FAdd(p.n, square)
<1> DEFINE next == FtrlMoved(p, n, g, w)
<1>1. /\ g = 0 \/ square # 0
      /\ IsFinite(next.z) /\ IsFinite(next.n)
      /\ FtrlNext(p, g, w).state = next
  <2>1. \/ FtrlNext(p, g, w) = Refused(p)
        \/ /\ ~(g # 0 /\ square = 0) /\ IsFinite(next.z) /\ IsFinite(next.n)
           /\ FtrlNext(p, g, w) = Done(next)
    BY Zenon DEF FtrlNext, FtrlKept
  <2> HIDE DEF next, square
  <2> QED
    BY <2>1 DEF Refused, Done
<1>2. next.n = n
  BY DEF FtrlMoved
<1>3. IsFinite(p.z) /\ IsFinite(p.n) /\ p.n >= 0 /\ (p.n = 0 => p.z = 0) /\ p.n \in Int
  BY FormatAssumption DEF ParamIsValid, IsFinite
<1> HIDE DEF next
<1>4. IsFinite(square)
  <2> HIDE DEF square
  <2> SUFFICES ASSUME ~IsFinite(square)
               PROVE  FALSE
    OBVIOUS
  <2>1. n \in {NaN, square}
    BY <1>3 DEF FAdd
  <2> QED
    BY <1>1, <1>2, <2>1, ZeroArithmetic
<1>5. square \in Int /\ square >= 0 /\ IsFinite(g) /\ g \in Int /\ (g = 0 => square = 0)
  BY <1>4, SquareOfFinite
<1> HIDE DEF square
<1>6. n = ToFloat(p.n + square, 1)
  BY <1>3, <1>4 DEF FAdd
<1> DEFINE sum == p.n + square
<1>7. sum \in Int /\ sum >= 0 /\ (sum = 0 => p.n = 0 /\ square = 0)
  BY <1>3, <1>5
<1> HIDE DEF n, sum
<1>8. n \in Int /\ n >= 0 /\ (n = 0 => sum = 0)
  <2>1. CASE sum >= 1
    BY <1>6, <1>7, <2>1, PositiveStays DEF sum
  <2>2. CASE sum = 0
    BY <1>6, <2>2, ZeroIsDivided DEF sum
  <2> QED
    BY <1>7, <2>1, <2>2
<1>9. ASSUME n = 0
      PROVE  next.z = 0
  <2>1. p.n = 0 /\ p.z = 0 /\ g = 0
    BY <1>1, <1>3, <1>7, <1>8, <1>9
  <2>2. next = FtrlMoved(p, 0, 0, w)
    BY <1>9, <2>1 DEF next
  <2> QED
    BY <1>1, <2>1, <2>2, NothingMoves
<1>10. ParamIsValid(next)
  BY <1>1, <1>2, <1>8, <1>9 DEF ParamIsValid
<1> QED
  BY <1>1, <1>10

\* No sum of squares makes the denominator of a weight infinite.
DenominatorsAreFinite == \A n \in 0..Largest : IsFinite(FtrlDenominator([z |-> 0, n |-> n]))

LEMMA DenominatorIsFinite ==
    ASSUME DenominatorsAreFinite, NEW p, ParamIsValid(p)
    PROVE  IsFinite(FtrlDenominator(p))
<1>1. p.n \in 0..Largest
  BY FormatAssumption DEF ParamIsValid, IsFinite
<1>2. FtrlDenominator(p) = FtrlDenominator([z |-> 0, n |-> p.n])
  BY DEF FtrlDenominator
<1> QED
  BY <1>1, <1>2 DEF DenominatorsAreFinite

LEMMA QuotientByZero ==
    ASSUME NEW a
    PROVE  ~IsFinite(FDiv(a, 0))
<1>1. FDiv(a, 0) \in {NaN, Inf, NegInf}
  <2>1. IsFinite(0) /\ 0 # NaN
    BY ConstantsAreFloats, ZeroArithmetic
  <2> QED
    BY <2>1 DEF FDiv, Infinite
<1> QED
  BY <1>1, ZeroArithmetic

\* A weight that is finite, above the threshold, can be computed again.
LEMMA WeightHolds ==
    ASSUME DenominatorsAreFinite, NEW p, ParamIsValid(p)
    PROVE  /\ IsFinite(FtrlWeight(p)) => FAbs(p.z) <= FtrlL1 \/ HasWeight(p, FtrlWeight(p))
           /\ IsFinite(InterceptWeight(p)) => p.n = 0 \/ HasWeight(p, InterceptWeight(p))
<1> DEFINE d == FtrlDenominator(p)
<1>1. IsFinite(d)
  BY DenominatorIsFinite
<1>2. ASSUME IsFinite(FtrlWeight(p)), ~(FAbs(p.z) <= FtrlL1)
      PROVE  d # 0
  <2> DEFINE a == FNeg(FSub(p.z, IF p.z < 0 THEN -FtrlL1 ELSE FtrlL1))
  <2>1. FtrlWeight(p) = FDiv(a, d)
    BY <1>2 DEF FtrlWeight, FAtMost
  <2> HIDE DEF a, d
  <2> QED
    BY <1>2, <2>1, QuotientByZero
<1>3. ASSUME IsFinite(InterceptWeight(p)), p.n # 0
      PROVE  d # 0
  <2>1. InterceptWeight(p) = FDiv(FNeg(p.z), d)
    BY <1>3 DEF InterceptWeight
  <2> HIDE DEF d
  <2> QED
    BY <1>3, <2>1, QuotientByZero
<1> QED
  BY <1>1, <1>2, <1>3 DEF HasWeight

\* A model whose parameters have weights, and room for as many as it has.
FtrlHolds(m) ==
    /\ IsFiniteSet(DOMAIN m.params)
    /\ DenominatorsAreFinite => FtrlIsValid(m)
    /\ \A id \in DOMAIN m.params : ParamIsValid(m.params[id])
    /\ ParamIsValid(m.intercept)

LEMMA NewFtrlHolds == FtrlHolds(NewFtrl)
<1>1. ParamIsValid(NewParam) /\ NewParam.n = 0
  BY ConstantsAreFloats DEF ParamIsValid, NewParam
<1>2. DOMAIN NewFtrl.params = {} /\ NewFtrl.intercept = NewParam
  BY DEF NewFtrl
<1>3. IsFiniteSet({}) /\ Cardinality({}) = 0
  BY FS_EmptySet
<1> QED
  BY <1>1, <1>2, <1>3, FtrlAssumption DEF FtrlHolds, FtrlIsValid

LEMMA ParamOfHolds ==
    ASSUME NEW m, FtrlHolds(m), NEW id
    PROVE  ParamIsValid(ParamOf(m, id))
<1>1. ParamIsValid(NewParam)
  BY ConstantsAreFloats DEF ParamIsValid, NewParam
<1> QED
  BY <1>1 DEF ParamOf, FtrlHolds

\* New features are accepted only where there is room for them.
LEMMA LearnableFits ==
    ASSUME NEW m, FtrlHolds(m), NEW x, IsFiniteSet(DOMAIN x)
    PROVE  LET all == DOMAIN m.params \cup Learnable(m, x)
           IN  /\ IsFiniteSet(all)
               /\ Cardinality(DOMAIN m.params) <= MaxFeatures => Cardinality(all) <= MaxFeatures
<1> DEFINE P == DOMAIN m.params
<1> DEFINE N == NewIds(m, x)
<1>1. IsFiniteSet(P) /\ IsFiniteSet(N) /\ P \cap N = {}
  <2>1. N \subseteq DOMAIN x /\ P \cap N = {}
    BY DEF NewIds
  <2> QED
    BY <2>1, FS_Subset DEF FtrlHolds
<1>2. Cardinality(P) \in Nat /\ Cardinality(N) \in Nat /\ MaxFeatures \in Nat
  BY <1>1, FS_CardinalityType, FtrlAssumption
<1>3. CASE Overfull(m, x)
  <2>1. P \cup Learnable(m, x) = P
    BY <1>3 DEF Learnable, NewIds
  <2> QED
    BY <1>1, <2>1
<1>4. CASE ~Overfull(m, x)
  <2>1. P \cup Learnable(m, x) = P \cup N
    BY <1>4 DEF Learnable, NewIds
  <2>2. Cardinality(P) + Cardinality(N) <= MaxFeatures
    BY <1>2, <1>4 DEF Overfull
  <2>3. IsFiniteSet(P \cup N) /\ Cardinality(P \cup N) = Cardinality(P) + Cardinality(N) - Cardinality(P \cap N)
    BY <1>1, FS_Union
  <2>4. Cardinality(P \cap N) = 0
    BY <1>1, FS_EmptySet
  <2>5. Cardinality(P \cup N) <= MaxFeatures
    BY <1>2, <2>2, <2>3, <2>4
  <2>6. IsFiniteSet(P \cup Learnable(m, x)) /\ Cardinality(P \cup Learnable(m, x)) <= MaxFeatures
    BY <2>1, <2>3, <2>5
  <2> QED
    BY <2>6
<1> DEFINE all == P \cup Learnable(m, x)
<1>5. IsFiniteSet(all) /\ (Cardinality(P) <= MaxFeatures => Cardinality(all) <= MaxFeatures)
  BY <1>3, <1>4, Zenon
<1> QED
  BY <1>5, Zenon

LEMMA FtrlStepHolds ==
    ASSUME NEW m, FtrlHolds(m), NEW x, IsFiniteSet(DOMAIN x), NEW gradient
    PROVE  FtrlHolds(FtrlStep(m, x, gradient).state)
<1> DEFINE taught == FtrlTaught(m, x, gradient)
<1> DEFINE intercept == FtrlNext(m.intercept, gradient, InterceptWeight(m.intercept))
<1> DEFINE all == DOMAIN m.params \cup DOMAIN taught
<1> DEFINE params == [id \in all |-> IF id \in DOMAIN taught THEN taught[id].state ELSE m.params[id]]
<1> DEFINE next == [params |-> params, intercept |-> intercept.state, samples |-> m.samples + 1]
<1> DEFINE Fine == /\ intercept.ok /\ IsFinite(InterceptWeight(intercept.state))
                   /\ \A id \in DOMAIN taught : taught[id].ok /\ IsFinite(FtrlWeight(taught[id].state))
<1> DEFINE r == FtrlStep(m, x, gradient)
<1>1. r = Refused(m) \/ (Fine /\ r = Done(next))
  BY Zenon DEF FtrlStep, FtrlAssigned
<1>2. DOMAIN taught = Learnable(m, x)
  BY DEF FtrlTaught
<1>3. IsFiniteSet(all) /\ (Cardinality(DOMAIN m.params) <= MaxFeatures => Cardinality(all) <= MaxFeatures)
  <2>1. all = DOMAIN m.params \cup Learnable(m, x)
    BY <1>2
  <2> HIDE DEF all
  <2> QED
    BY <2>1, LearnableFits
<1>4. ASSUME NEW id \in DOMAIN taught, taught[id].ok
      PROVE  ParamIsValid(taught[id].state)
  <2>1. taught[id] = FtrlNext(ParamOf(m, id), OrNaN(FMul(gradient, x[id])), FtrlWeight(ParamOf(m, id)))
    BY <1>2 DEF FtrlTaught
  <2>2. ParamIsValid(ParamOf(m, id))
    BY ParamOfHolds
  <2> HIDE DEF taught
  <2> QED
    BY <1>4, <2>1, <2>2, ParamMoves
<1>5. intercept.ok => ParamIsValid(intercept.state)
  BY ParamMoves DEF FtrlHolds
<1> HIDE DEF taught, intercept
<1>6. ASSUME Fine
      PROVE  FtrlHolds(next)
  <2>1. DOMAIN next.params = all /\ next.params = params /\ next.intercept = intercept.state
    OBVIOUS
  <2>2. \A id \in all : params[id] = IF id \in DOMAIN taught THEN taught[id].state ELSE m.params[id]
    OBVIOUS
  <2> HIDE DEF params, next
  <2>3. ASSUME NEW id \in all
        PROVE  ParamIsValid(params[id])
    BY <1>4, <1>6, <2>2 DEF FtrlHolds
  <2>4. ParamIsValid(intercept.state)
    BY <1>5, <1>6
  <2>5. ASSUME DenominatorsAreFinite
        PROVE  FtrlIsValid(next)
    <3>1. FtrlIsValid(m)
      BY <2>5 DEF FtrlHolds
    <3>2. Cardinality(all) <= MaxFeatures
      BY <1>3, <3>1 DEF FtrlIsValid
    <3>3. ASSUME NEW id \in all
          PROVE  FAbs(params[id].z) <= FtrlL1 \/ HasWeight(params[id], FtrlWeight(params[id]))
      <4>1. CASE id \in DOMAIN taught
        <5>1. params[id] = taught[id].state /\ IsFinite(FtrlWeight(taught[id].state))
          BY <1>6, <2>2, <4>1
        <5> QED
          BY <2>3, <2>5, <5>1, WeightHolds
      <4>2. CASE id \notin DOMAIN taught
        <5>1. params[id] = m.params[id] /\ id \in DOMAIN m.params
          BY <2>2, <4>2
        <5> QED
          BY <3>1, <5>1 DEF FtrlIsValid
      <4> QED
        BY <4>1, <4>2
    <3>4. intercept.state.n = 0 \/ HasWeight(intercept.state, InterceptWeight(intercept.state))
      BY <1>6, <2>4, <2>5, WeightHolds
    <3> HIDE DEF all
    <3> QED
      BY <2>1, <2>3, <2>4, <3>2, <3>3, <3>4 DEF FtrlIsValid
  <2> HIDE DEF all
  <2> QED
    BY <1>3, <2>1, <2>3, <2>4, <2>5 DEF FtrlHolds
<1> HIDE DEF r, next, Fine
<1>7. FtrlHolds(r.state)
  BY <1>1, <1>6 DEF Done, Refused
<1> QED
  BY <1>7 DEF r

\* What a caller makes of pairs has finitely many features.
LEMMA SparseIsFinite ==
    ASSUME NEW kind, NEW pairs \in Seq(Int \X Floats)
    PROVE  LET x == SparseInput(kind, FromUnsorted(pairs))
           IN  x.ok => IsFiniteSet(DOMAIN x.state)
<1> DEFINE f == FromUnsorted(pairs)
<1> DEFINE x == SparseInput(kind, f)
<1>1. f = Done(Merged(pairs)) \/ f = Refused(<<>>)
  BY DEF FromUnsorted
<1>2. IsFiniteSet({pairs[i][1] : i \in DOMAIN pairs})
  <2>1. IsFiniteSet(1..Len(pairs)) /\ DOMAIN pairs = 1..Len(pairs)
    BY FS_Interval
  <2> DEFINE g == [i \in 1..Len(pairs) |-> pairs[i][1]]
  <2>2. {pairs[i][1] : i \in DOMAIN pairs} = {g[i] : i \in 1..Len(pairs)}
    BY <2>1
  <2> HIDE DEF g
  <2> DEFINE S == {g[i] : i \in 1..Len(pairs)}
  <2>3. g \in Surjection(1..Len(pairs), S)
    BY DEF g, Surjection
  <2>4. IsFiniteSet(S)
    BY <2>1, <2>3, FS_Surjection
  <2> QED
    BY <2>2, <2>4
<1>3. DOMAIN Merged(pairs) = {pairs[i][1] : i \in DOMAIN pairs}
  BY DEF Merged
<1>4. ASSUME NEW y
      PROVE  Hashed(y).ok => IsFiniteSet(DOMAIN Hashed(y).state)
  <2> DEFINE ids(b) == SetToSortSeq({id \in DOMAIN y : Bucket(id) = b}, LAMBDA i, j : i < j)
  <2> DEFINE sum(b) == FSum([i \in DOMAIN ids(b) |-> FMul(Sign(ids(b)[i]), y[ids(b)[i]])])
  <2> DEFINE output == [b \in 0..(Dimension - 1) |-> sum(b)]
  <2>1. DOMAIN output = 0..(Dimension - 1)
    OBVIOUS
  <2>2. IsFiniteSet(0..(Dimension - 1))
    BY FtrlAssumption, FS_Interval
  <2>3. Hashed(y) = Refused(<<>>) \/ Hashed(y) = Done(output)
    BY Zenon DEF Hashed
  <2> HIDE DEF output
  <2> QED
    BY <2>1, <2>2, <2>3 DEF Done, Refused
<1> HIDE DEF f
<1>5. f.ok => IsFiniteSet(DOMAIN f.state)
  BY <1>1, <1>2, <1>3 DEF Done, Refused
<1>6. x = f \/ x = Hashed(f.state)
  BY DEF SparseInput
<1> QED
  BY <1>4, <1>5, <1>6 DEF f

LEMMA FtrlLearnHolds ==
    ASSUME NEW kind \in {"ftrl", "ftrl_classifier", "ftrl_hashed"}, NEW m, FtrlHolds(m), NEW input,
           input[1] \in Seq(Int \X Floats)
    PROVE  FtrlHolds(LearnModel(kind, m, input).state)
<1> DEFINE x == SparseInput(kind, FromUnsorted(input[1]))
<1> DEFINE r == LearnModel(kind, m, input)
<1>1. x.ok => IsFiniteSet(DOMAIN x.state)
  BY SparseIsFinite
<1>2. r = Refused(m) \/ (x.ok /\ r = FtrlLearn(m, x.state, input[2]))
      \/ (x.ok /\ r = FtrlClassifierLearn(m, x.state, input[2]))
  <2>1. CASE kind = "ftrl_classifier"
    <3>1. r = LearnSparse(kind, m, input[1], LAMBDA y : FtrlClassifierLearn(m, y, input[2]))
      BY <2>1 DEF LearnModel
    <3> HIDE DEF r
    <3>2. r = IF x.ok THEN FtrlClassifierLearn(m, x.state, input[2]) ELSE Refused(m)
      BY <3>1, Zenon DEF LearnSparse, Taught
    <3> HIDE DEF x
    <3> QED
      BY <3>2
  <2>2. CASE kind \in {"ftrl", "ftrl_hashed"}
    <3>1. r = LearnSparse(kind, m, input[1], LAMBDA y : FtrlLearn(m, y, input[2]))
      BY <2>2 DEF LearnModel
    <3> HIDE DEF r
    <3>2. r = IF x.ok THEN FtrlLearn(m, x.state, input[2]) ELSE Refused(m)
      BY <3>1, Zenon DEF LearnSparse, Taught
    <3> HIDE DEF x
    <3> QED
      BY <3>2
  <2> QED
    BY <2>1, <2>2
<1>3. ASSUME NEW y, IsFiniteSet(DOMAIN y)
      PROVE  /\ FtrlHolds(FtrlLearn(m, y, input[2]).state)
             /\ FtrlHolds(FtrlClassifierLearn(m, y, input[2]).state)
  <2>1. FtrlHolds(Refused(m).state)
    BY DEF Refused
  <2>2. FtrlHolds(FtrlLearn(m, y, input[2]).state)
    <3> DEFINE gradient == FSub(FtrlPredict(m, y), input[2])
    <3>1. FtrlLearn(m, y, input[2]) = FtrlStep(m, y, gradient) \/ FtrlLearn(m, y, input[2]) = Refused(m)
      BY DEF FtrlLearn
    <3> HIDE DEF gradient
    <3>2. FtrlHolds(FtrlStep(m, y, gradient).state)
      BY <1>3, FtrlStepHolds
    <3> QED
      BY <2>1, <3>1, <3>2
  <2>3. FtrlHolds(FtrlClassifierLearn(m, y, input[2]).state)
    <3> DEFINE gradient == FSub(Logistic(FtrlPredict(m, y)), IF input[2] THEN Unit ELSE 0)
    <3>1. FtrlClassifierLearn(m, y, input[2]) = FtrlStep(m, y, gradient)
          \/ FtrlClassifierLearn(m, y, input[2]) = Refused(m)
      BY DEF FtrlClassifierLearn
    <3> HIDE DEF gradient
    <3>2. FtrlHolds(FtrlStep(m, y, gradient).state)
      BY <1>3, FtrlStepHolds
    <3> QED
      BY <2>1, <3>1, <3>2
  <2> QED
    BY <2>2, <2>3
<1> HIDE DEF r, x
<1>4. FtrlHolds(r.state)
  BY <1>1, <1>2, <1>3 DEF Refused
<1> QED
  BY <1>4 DEF r

-----------------------------------------------------------------------------
(* What calls lead to can be saved: the invariant by the kind of the stream. *)

ModelKept(kind, o) ==
    /\ kind \in {"linear_sgd", "linear_adagrad", "logistic"} => LinearHolds(o)
    /\ kind = "gaussian" => GaussianHolds(o)
    /\ kind = "bernoulli" => BernoulliHolds(o)
    /\ kind \in {"ftrl", "ftrl_classifier", "ftrl_hashed"} => FtrlHolds(o)

TransformerKept(kind, o) ==
    /\ kind = "scaler" => ScalerHolds(o)
    /\ kind = "mean_imputer" => o \in ImputerStates
    /\ kind = "forward_fill" => o \in FillStates
    /\ kind \in {"one_hot", "ordinal"} => o \in EncoderStates

PipeKept(kind, o) ==
    kind # "evaluation" =>
        PartsHold(o) /\ o.task = IF kind = "classification" THEN "classification" ELSE "regression"

PlayerKept(kind, o) ==
    /\ kind = "greedy" => GreedyHolds(o)
    /\ kind = "ucb" => UcbHolds(o)
    /\ kind = "linucb" => LinUcbHolds(o)

\* The kinds of which nothing is claimed: the validation of a multinomial and of a
\* Thompson bandit is a tolerance that rounding could break, the frequencies keep
\* the counts of an update that is refused at the largest total, and an updated
\* inverse need not have the factor that LinUcb's asks for.
ToleratedKinds == {"multinomial", "frequency", "thompson", "linucb_pair"}

SavedInv ==
    /\ stream \in Streams
    /\ stream.kind \in Models => ModelKept(stream.kind, object)
    /\ stream.kind \in Transformers => TransformerKept(stream.kind, object)
    /\ stream.kind \in Pipes => PipeKept(stream.kind, object)
    /\ stream.kind \in Players => PlayerKept(stream.kind, object)
    /\ stream.kind = "handles" => HandlesKept(stream.types, object)

LEMMA NewModelKept ==
    ASSUME NEW kind \in Models
    PROVE  ModelKept(kind, NewModel(kind))
<1>1. kind \in {"linear_sgd", "logistic"} => NewModel(kind) = NewLinear("sgd")
  BY DEF NewModel
<1>2. kind = "linear_adagrad" => NewModel(kind) = NewLinear("adagrad")
  BY DEF NewModel
<1>3. kind = "gaussian" => NewModel(kind) = NewGaussian
  BY DEF NewModel
<1>4. kind = "bernoulli" => NewModel(kind) = NewBernoulli
  BY DEF NewModel
<1>5. kind \in {"ftrl", "ftrl_classifier", "ftrl_hashed"} => NewModel(kind) = NewFtrl
  BY DEF NewModel
<1> QED
  BY <1>1, <1>2, <1>3, <1>4, <1>5, NewLinearHolds, NewGaussianHolds, NewBernoulliHolds, NewFtrlHolds
  DEF ModelKept

LEMMA NewTransformerKept ==
    ASSUME NEW kind \in Transformers
    PROVE  TransformerKept(kind, NewTransformerOf(kind))
<1>1. kind = "scaler" => NewTransformerOf(kind) = NewScaler
  BY DEF NewTransformerOf
<1>2. kind = "mean_imputer" => NewTransformerOf(kind) = NewMeanImputer
  BY DEF NewTransformerOf
<1>3. kind = "forward_fill" => NewTransformerOf(kind) = NewForwardFill
  BY DEF NewTransformerOf
<1>4. kind \in {"one_hot", "ordinal"} => NewTransformerOf(kind) = NewEncoder
  BY DEF NewTransformerOf
<1> QED
  BY <1>1, <1>2, <1>3, <1>4, NewScalerHolds, NewImputerHolds, NewFillHolds, NewEncoderHolds
  DEF TransformerKept

LEMMA NewPipeKept ==
    ASSUME NEW kind \in Pipes
    PROVE  PipeKept(kind, NewPipe(kind))
<1>1. kind = "plain_imputed" => NewPipe(kind) = NewPipeline("regression", "imputer")
  BY DEF NewPipe
<1>2. kind = "classification" => NewPipe(kind) = NewPipeline("classification", "scaler")
  BY DEF NewPipe
<1>3. kind \in {"plain", "transactional", "weighted"} => NewPipe(kind) = NewPipeline("regression", "scaler")
  BY DEF NewPipe
<1>4. kind \in {"plain", "plain_imputed", "transactional", "weighted", "classification", "evaluation"}
  BY DEF Pipes
<1> QED
  BY <1>1, <1>2, <1>3, <1>4, NewPartsHold DEF PipeKept

LEMMA NewPlayerKept ==
    ASSUME NEW kind \in Players
    PROVE  PlayerKept(kind, NewBandit(kind))
<1>1. kind = "greedy" => NewBandit(kind) = NewGreedy
  BY DEF NewBandit
<1>2. kind = "ucb" => NewBandit(kind) = NewArms
  BY DEF NewBandit
<1>3. kind = "linucb" => NewBandit(kind) = NewLinUcb
  BY DEF NewBandit
<1> QED
  BY <1>1, <1>2, <1>3, NewGreedyHolds, NewUcbHolds, NewLinUcbValid DEF PlayerKept

LEMMA SavedInit == LearningInit => SavedInv
<1> SUFFICES ASSUME LearningInit
             PROVE  SavedInv
  OBVIOUS
<1> DEFINE kind == stream.kind
<1>1. stream \in Streams /\ object = New(kind)
  BY DEF LearningInit
<1>2. kind \in Models => New(kind) = NewModel(kind)
  BY KindsApart DEF New
<1>3. kind \in Transformers => New(kind) = NewTransformerOf(kind)
  BY KindsApart DEF New
<1>4. kind \in Pipes => New(kind) = NewPipe(kind)
  BY KindsApart DEF New
<1>5. kind \in Players => New(kind) = NewBandit(kind)
  BY KindsApart DEF New
<1>6. kind = "handles" => New(kind) = [h \in Handles |-> NullHandle]
  BY DEF New, Models, Transformers, Pipes, Players
<1>7. kind = "handles" => HandlesKept(stream.types, New(kind))
  BY <1>6 DEF HandlesKept
<1> QED
  BY <1>1, <1>2, <1>3, <1>4, <1>5, <1>7, NewModelKept, NewTransformerKept, NewPipeKept, NewPlayerKept
  DEF SavedInv

LEMMA LearnModelKept ==
    ASSUME stream \in Streams, stream.kind \in Models, NEW input \in stream.inputs,
           NEW m, ModelKept(stream.kind, m)
    PROVE  ModelKept(stream.kind, LearnModel(stream.kind, m, input).state)
<1> DEFINE kind == stream.kind
<1> DEFINE r == LearnModel(kind, m, input)
<1>1. CASE kind = "linear_sgd"
  <2>1. input[1] \in Vectors /\ input[2] \in Floats /\ input[3] \in Floats
    BY <1>1, SamplesAssumption
  <2>2. r = LinearLearn("squared", m, input[1], input[2], input[3])
    BY <1>1 DEF LearnModel
  <2>3. LinearHolds(r.state)
    BY <1>1, <2>1, <2>2, LinearLearnHolds DEF ModelKept
  <2> QED
    BY <1>1, <2>3 DEF ModelKept
<1>2. CASE kind = "linear_adagrad"
  <2>1. input[1] \in Vectors /\ input[2] \in Floats /\ input[3] \in Floats
    BY <1>2, SamplesAssumption
  <2>2. r = LinearLearn("huber", m, input[1], input[2], input[3])
    BY <1>2 DEF LearnModel
  <2>3. LinearHolds(r.state)
    BY <1>2, <2>1, <2>2, LinearLearnHolds DEF ModelKept
  <2> QED
    BY <1>2, <2>3 DEF ModelKept
<1>3. CASE kind = "logistic"
  <2>1. input[1] \in Vectors /\ input[3] \in Floats
    BY <1>3, SamplesAssumption
  <2>2. r = LogisticLearn(m, input[1], input[2], input[3])
    BY <1>3 DEF LearnModel
  <2>3. LinearHolds(r.state)
    BY <1>3, <2>1, <2>2, LogisticLearnHolds DEF ModelKept
  <2> QED
    BY <1>3, <2>3 DEF ModelKept
<1>4. CASE kind = "gaussian"
  <2>1. input[1] \in Vectors /\ input[2] \in BOOLEAN
    BY <1>4, SamplesAssumption
  <2>2. r = GaussianLearn(m, input[1], input[2])
    BY <1>4 DEF LearnModel
  <2>3. GaussianHolds(r.state)
    BY <1>4, <2>1, <2>2, GaussianLearnHolds DEF ModelKept
  <2> QED
    BY <1>4, <2>3 DEF ModelKept
<1>5. CASE kind = "bernoulli"
  <2>1. input[2] \in BOOLEAN
    BY <1>5, SamplesAssumption
  <2>2. r = BernoulliLearn(m, input[1], input[2])
    BY <1>5 DEF LearnModel
  <2>3. BernoulliHolds(r.state)
    BY <1>5, <2>1, <2>2, BernoulliLearnHolds DEF ModelKept
  <2> QED
    BY <1>5, <2>3 DEF ModelKept
<1>6. CASE kind \in {"ftrl", "ftrl_classifier", "ftrl_hashed"}
  <2>1. input[1] \in Seq(Int \X Floats)
    BY <1>6, SamplesAssumption
  <2>2. FtrlHolds(m)
    BY <1>6 DEF ModelKept
  <2>3. FtrlHolds(r.state)
    BY <1>6, <2>1, <2>2, FtrlLearnHolds
  <2> QED
    BY <1>6, <2>3 DEF ModelKept
<1> QED
  BY <1>1, <1>2, <1>3, <1>4, <1>5, <1>6 DEF ModelKept

LEMMA FitKept ==
    ASSUME stream \in Streams, stream.kind \in Transformers, NEW input \in stream.inputs,
           NEW s, TransformerKept(stream.kind, s)
    PROVE  TransformerKept(stream.kind, FitTransformer(stream.kind, s, input).state)
<1> DEFINE kind == stream.kind
<1> DEFINE r == FitTransformer(kind, s, input)
<1>1. CASE kind = "scaler"
  <2>1. input \in Vectors
    BY <1>1, SamplesAssumption
  <2>2. r = ScalerUpdate(s, input)
    BY <1>1 DEF FitTransformer
  <2>3. ScalerHolds(r.state)
    BY <1>1, <2>1, <2>2, ScalerUpdateHolds DEF TransformerKept
  <2> QED
    BY <1>1, <2>3 DEF TransformerKept
<1>2. CASE kind = "mean_imputer"
  <2>1. input \in Vectors
    BY <1>2, SamplesAssumption
  <2>2. r = MeanImputerUpdate(s, input)
    BY <1>2 DEF FitTransformer
  <2>3. r.state \in ImputerStates
    BY <1>2, <2>1, <2>2, ImputerUpdateHolds DEF TransformerKept
  <2> QED
    BY <1>2, <2>3 DEF TransformerKept
<1>3. CASE kind = "forward_fill"
  <2>1. input \in Vectors
    BY <1>3, SamplesAssumption
  <2>2. r = ForwardFillUpdate(s, input)
    BY <1>3 DEF FitTransformer
  <2>3. r.state \in FillStates
    BY <1>3, <2>1, <2>2, FillUpdateHolds DEF TransformerKept
  <2> QED
    BY <1>3, <2>3 DEF TransformerKept
<1>4. CASE kind \in {"one_hot", "ordinal"}
  <2>1. input \in Seq(Int)
    BY <1>4, SamplesAssumption
  <2>2. r = OneHotUpdate(s, input) \/ r = OrdinalUpdate(s, input)
    BY <1>4 DEF FitTransformer
  <2>3. r.state \in EncoderStates
    BY <1>4, <2>1, <2>2, EncoderUpdatesHold DEF TransformerKept
  <2> QED
    BY <1>4, <2>3 DEF TransformerKept
<1> QED
  BY <1>1, <1>2, <1>3, <1>4 DEF TransformerKept

LEMMA LearnPipeKept ==
    ASSUME stream \in Streams, stream.kind \in Pipes, NEW input \in stream.inputs,
           NEW p, PipeKept(stream.kind, p)
    PROVE  PipeKept(stream.kind, LearnPipe(stream.kind, p, input).state)
<1> DEFINE kind == stream.kind
<1> SUFFICES ASSUME kind # "evaluation"
             PROVE  PipeKept(kind, LearnPipe(kind, p, input).state)
  BY DEF PipeKept
<1> DEFINE task == IF kind = "classification" THEN "classification" ELSE "regression"
<1> DEFINE r == LearnPipe(kind, p, input)
<1>1. PartsHold(p) /\ p.task = task
  BY DEF PipeKept
<1>2. kind \in {"plain", "plain_imputed", "transactional", "weighted", "classification"}
  BY DEF Pipes
<1>3. CASE kind = "classification"
  <2>1. input[1] \in Vectors /\ input[3] \in Floats
    BY <1>3, SamplesAssumption
  <2>2. Suits(p, input[2])
    BY <1>1, <1>3 DEF Suits
  <2>3. r = PipelineLearnTransactional(p, input[1], input[2])
    BY <1>3 DEF LearnPipe
  <2>4. PartsKept(r, p)
    BY <1>1, <2>1, <2>2, <2>3, PipelinesHold
  <2> QED
    BY <1>1, <2>4 DEF PartsKept, PipeKept
<1>4. CASE kind # "classification"
  <2>1. input[1] \in Vectors /\ input[2] \in Floats /\ input[3] \in Floats
    BY <1>2, <1>4, SamplesAssumption
  <2>2. Suits(p, input[2])
    BY <2>1 DEF Suits
  <2>3. \/ r = PipelineLearn(p, input[1], input[2])
        \/ r = PipelineLearnTransactional(p, input[1], input[2])
        \/ r = PipelineLearnWeighted(p, input[1], input[2], input[3])
    BY <1>2, <1>4 DEF LearnPipe
  <2>4. PartsKept(r, p)
    BY <1>1, <2>1, <2>2, <2>3, PipelinesHold
  <2> QED
    BY <1>1, <2>4 DEF PartsKept, PipeKept
<1> QED
  BY <1>3, <1>4

LEMMA PlayKept ==
    ASSUME stream \in Streams, stream.kind \in Players, NEW input \in stream.inputs,
           NEW b, PlayerKept(stream.kind, b)
    PROVE  PlayerKept(stream.kind, UpdateBandit(stream.kind, b, input).state)
<1> DEFINE kind == stream.kind
<1> DEFINE r == UpdateBandit(kind, b, input)
<1>1. CASE kind = "greedy"
  <2>1. input[2] \in Floats
    BY <1>1, SamplesAssumption
  <2>2. r = GreedyUpdate(b, input[1], input[2])
    BY <1>1 DEF UpdateBandit
  <2>3. GreedyHolds(r.state)
    BY <1>1, <2>1, <2>2, GreedyUpdateHolds DEF PlayerKept
  <2> QED
    BY <1>1, <2>3 DEF PlayerKept
<1>2. CASE kind = "ucb"
  <2>1. input[2] \in Floats
    BY <1>2, SamplesAssumption
  <2>2. r = UcbUpdate(b, input[1], input[2])
    BY <1>2 DEF UpdateBandit
  <2>3. UcbHolds(r.state)
    BY <1>2, <2>1, <2>2, UcbUpdateHolds DEF PlayerKept
  <2> QED
    BY <1>2, <2>3 DEF PlayerKept
<1>3. CASE kind = "linucb"
  <2>1. input[2] \in Vectors
    BY <1>3, SamplesAssumption
  <2>2. r = LinUpdate(b, input[1], input[2], input[3])
    BY <1>3 DEF UpdateBandit
  <2>3. LinUcbHolds(r.state)
    BY <1>3, <2>1, <2>2, LinUcbUpdateHolds DEF PlayerKept
  <2> QED
    BY <1>3, <2>3 DEF PlayerKept
<1> QED
  BY <1>1, <1>2, <1>3 DEF PlayerKept

\* The calls of models and of transformers, as StepsByKind says of the others.
LEMMA StepsOfModels ==
    ASSUME LearningNext
    PROVE  /\ stream.kind \in Models => Learn
           /\ stream.kind \in Transformers => Fit
<1>1. Learn => stream.kind \in Models
  BY Zenon DEF Learn, MayFeed
<1>2. Fit => stream.kind \in Transformers
  BY Zenon DEF Fit, MayFeed
<1>3. LearnThrough => stream.kind \in Pipes
  BY Zenon DEF LearnThrough, MayFeed
<1>4. Play => stream.kind \in Players
  BY Zenon DEF Play, MayFeed
<1>5. ReplayChunk => stream.kind \in {"replay"}
  BY Zenon DEF ReplayChunk, MayFeed
<1>6. HandleStep => stream.kind \in {"handles"}
  <2>1. CreateHandle => stream.kind \in {"handles"}
    BY Zenon DEF CreateHandle, MayFeed
  <2>2. LearnOnHandle => stream.kind \in {"handles"}
    BY Zenon DEF LearnOnHandle, MayFeed
  <2>3. ReadHandle => stream.kind \in {"handles"}
    BY DEF ReadHandle
  <2>4. CopyHandle => stream.kind \in {"handles"}
    BY Zenon DEF CopyHandle, MayFeed
  <2>5. DestroyHandle => stream.kind \in {"handles"}
    BY DEF DestroyHandle
  <2> QED
    BY <2>1, <2>2, <2>3, <2>4, <2>5 DEF HandleStep
<1>7. Learn \/ Fit \/ LearnThrough \/ Play \/ ReplayChunk \/ HandleStep
  BY Zenon DEF LearningNext, HandleStep
<1>8. /\ stream.kind \in Models => stream.kind \notin Transformers
      /\ stream.kind \in Models \cup Transformers => stream.kind \notin Pipes \cup Players \cup {"replay", "handles"}
  BY DEF Models, Transformers, Pipes, Players
<1> QED
  BY <1>1, <1>2, <1>3, <1>4, <1>5, <1>6, <1>7, <1>8

LEMMA SavedNext == SavedInv /\ [LearningNext]_vars => SavedInv'
<1> SUFFICES ASSUME SavedInv, [LearningNext]_vars
             PROVE  SavedInv'
  OBVIOUS
<1>1. CASE UNCHANGED vars
  BY <1>1 DEF vars, SavedInv
<1>2. CASE LearningNext
  <2>1. /\ stream' = stream /\ stream \in Streams
        /\ stream.kind \in Models => Learn
        /\ stream.kind \in Transformers => Fit
        /\ stream.kind \in Pipes => LearnThrough
        /\ stream.kind \in Players => Play
        /\ stream.kind = "handles" => HandleStep
    BY <1>2, StepsByKind, StepsOfModels DEF SavedInv
  <2>2. ASSUME stream.kind \in Models
        PROVE  ModelKept(stream.kind, object')
    <3>1. PICK input \in stream.inputs : Took(LearnModel(stream.kind, object, input), input)
      BY <2>1, <2>2, Zenon DEF Learn
    <3>2. object' = LearnModel(stream.kind, object, input).state
      BY <3>1 DEF Took
    <3>3. ModelKept(stream.kind, object)
      BY <2>2 DEF SavedInv
    <3> QED
      BY <2>1, <2>2, <3>2, <3>3, LearnModelKept
  <2>3. ASSUME stream.kind \in Transformers
        PROVE  TransformerKept(stream.kind, object')
    <3>1. PICK input \in stream.inputs : Took(FitTransformer(stream.kind, object, input), input)
      BY <2>1, <2>3, Zenon DEF Fit
    <3>2. object' = FitTransformer(stream.kind, object, input).state
      BY <3>1 DEF Took
    <3>3. TransformerKept(stream.kind, object)
      BY <2>3 DEF SavedInv
    <3> QED
      BY <2>1, <2>3, <3>2, <3>3, FitKept
  <2>4. ASSUME stream.kind \in Pipes
        PROVE  PipeKept(stream.kind, object')
    <3>1. PICK input \in stream.inputs : Took(LearnPipe(stream.kind, object, input), input)
      BY <2>1, <2>4, Zenon DEF LearnThrough
    <3>2. object' = LearnPipe(stream.kind, object, input).state
      BY <3>1 DEF Took
    <3>3. PipeKept(stream.kind, object)
      BY <2>4 DEF SavedInv
    <3> QED
      BY <2>1, <2>4, <3>2, <3>3, LearnPipeKept
  <2>5. ASSUME stream.kind \in Players
        PROVE  PlayerKept(stream.kind, object')
    <3>1. PICK input \in stream.inputs : Took(UpdateBandit(stream.kind, object, input), input)
      BY <2>1, <2>5, Zenon DEF Play
    <3>2. object' = UpdateBandit(stream.kind, object, input).state
      BY <3>1 DEF Took
    <3>3. PlayerKept(stream.kind, object)
      BY <2>5 DEF SavedInv
    <3> QED
      BY <2>1, <2>5, <3>2, <3>3, PlayKept
  <2>6. ASSUME stream.kind = "handles"
        PROVE  HandlesKeptNext
    <3>1. HandlesKept(stream.types, object) /\ HandleStep
      BY <2>1, <2>6 DEF SavedInv
    <3> QED
      BY <2>1, <2>6, <3>1, CreateKept, LearnedKept, ReadKept, CopyKept, DestroyKept DEF HandleStep
  <2> QED
    BY <2>1, <2>2, <2>3, <2>4, <2>5, <2>6 DEF SavedInv, HandlesKeptNext
<1> QED
  BY <1>1, <1>2

\* What the theorem says of a state: it can be saved and restored, whatever its
\* kind is but those above; Ucb1's as long as f64 counts its samples exactly, and
\* FTRL's where the hyperparameters leave every denominator in the format.
CanBeSaved ==
    /\ stream.kind \notin ToleratedKinds
    /\ stream.kind \in {"ftrl", "ftrl_classifier", "ftrl_hashed"} => DenominatorsAreFinite
    /\ stream.kind = "ucb" => CountsAreExact(object.samples)

LEMMA SavedFollows == SavedInv => (CanBeSaved => SavedModelIsAccepted)
<1> SUFFICES ASSUME SavedInv, CanBeSaved
             PROVE  SavedModelIsAccepted
  OBVIOUS
<1> DEFINE kind == stream.kind
<1>1. CASE kind \in Models
  <2>1. ModelKept(kind, object)
    BY <1>1 DEF SavedInv
  <2>2. kind \in {"linear_sgd", "linear_adagrad", "logistic", "gaussian", "bernoulli",
                 "ftrl", "ftrl_classifier", "ftrl_hashed"}
    BY <1>1 DEF Models, CanBeSaved, ToleratedKinds
  <2>3. kind \notin Transformers \cup Pipes \cup Players \cup {"replay", "handles"}
    BY <1>1, KindsApart
  <2>4. ModelIsAccepted(kind, object)
    <3>1. kind \in {"linear_sgd", "linear_adagrad", "logistic"} => LinearIsValid(object)
      BY <2>1, LinearAccepted DEF ModelKept
    <3>2. kind = "gaussian" => GaussianIsValid(object)
      BY <2>1, GaussianAccepted DEF ModelKept
    <3>3. kind = "bernoulli" => BernoulliIsValid(object)
      BY <2>1, BernoulliAccepted DEF ModelKept
    <3>4. kind \in {"ftrl", "ftrl_classifier", "ftrl_hashed"} => FtrlIsValid(object)
      BY <2>1 DEF ModelKept, FtrlHolds, CanBeSaved
    <3> HIDE DEF kind
    <3> QED
      BY <2>2, <3>1, <3>2, <3>3, <3>4 DEF ModelIsAccepted
  <2> QED
    BY <1>1, <2>3, <2>4 DEF SavedModelIsAccepted
<1>2. CASE kind \in Transformers
  <2>1. TransformerKept(kind, object)
    BY <1>2 DEF SavedInv
  <2>2. /\ kind # "frequency"
        /\ kind \notin Models \cup Pipes \cup Players \cup {"replay", "handles"}
    BY <1>2, KindsApart DEF CanBeSaved, ToleratedKinds
  <2>3. TransformerIsAccepted(kind, object)
    <3>1. kind = "scaler" => ScalerIsValid(object)
      BY <2>1, ScalerAccepted DEF TransformerKept
    <3>2. kind = "mean_imputer" => MeanImputerIsValid(object)
      BY <2>1, ImputerAccepted DEF TransformerKept
    <3>3. kind = "forward_fill" => ForwardFillIsValid(object)
      BY <2>1, FillAccepted DEF TransformerKept
    <3>4. kind \in {"one_hot", "ordinal"} => EncoderIsValid(object)
      BY <2>1, EncoderAccepted DEF TransformerKept
    <3> HIDE DEF kind
    <3> QED
      BY <2>2, <3>1, <3>2, <3>3, <3>4 DEF TransformerIsAccepted
  <2> QED
    BY <1>2, <2>2, <2>3 DEF SavedModelIsAccepted
<1>3. CASE kind \in Pipes
  <2>1. kind \notin Models \cup Transformers \cup Players \cup {"replay", "handles"}
    BY <1>3, KindsApart
  <2>2. CASE kind = "evaluation"
    BY <2>1, <2>2 DEF SavedModelIsAccepted
  <2>3. CASE kind # "evaluation"
    <3>1. PipelineIsValid(object)
      BY <1>3, <2>3, PartsAccepted DEF SavedInv, PipeKept
    <3> QED
      BY <1>3, <2>1, <2>3, <3>1 DEF SavedModelIsAccepted
  <2> QED
    BY <2>2, <2>3
<1>4. CASE kind \in Players
  <2>1. kind \notin Models \cup Transformers \cup Pipes \cup {"replay", "handles"}
    BY <1>4, KindsApart
  <2>2. PlayerKept(kind, object)
    BY <1>4 DEF SavedInv
  <2>3. kind \in {"greedy", "ucb", "linucb"}
    BY <1>4 DEF Players, CanBeSaved, ToleratedKinds
  <2>4. BanditIsAccepted(kind, object)
    <3>1. kind = "greedy" => GreedyIsValid(object)
      BY <2>2, GreedyAccepted DEF PlayerKept
    <3>2. kind = "ucb" => UcbIsValid(object)
      BY <2>2 DEF PlayerKept, UcbHolds, CanBeSaved
    <3>3. kind = "linucb" => LinUcbIsValid(object)
      BY <2>2 DEF PlayerKept, LinUcbHolds
    <3> HIDE DEF kind
    <3> QED
      BY <2>3, <3>1, <3>2, <3>3 DEF BanditIsAccepted
  <2> QED
    BY <1>4, <2>1, <2>4 DEF SavedModelIsAccepted
<1>5. CASE kind = "handles"
  <2>1. kind \notin Models \cup Transformers \cup Pipes \cup Players
    BY <1>5, KindsApart
  <2>2. HandlesKept(stream.types, object) /\ stream \in Streams
    BY <1>5 DEF SavedInv
  <2>3. ASSUME NEW h \in Handles, object[h] # NullHandle
        PROVE  ObjectIsValid(stream.types[h], object[h][1])
    <3>1. stream.types[h] \in HandleTypes
      BY <1>5, <2>2, LearningAssumption
    <3>2. ObjectKept(stream.types[h], object[h][1])
      BY <2>2, <2>3 DEF HandlesKept
    <3> QED
      BY <3>1, <3>2, KeptIsValid
  <2> QED
    BY <1>5, <2>1, <2>3 DEF SavedModelIsAccepted
<1>6. CASE kind \notin Models \cup Transformers \cup Pipes \cup Players \cup {"handles"}
  BY <1>6 DEF SavedModelIsAccepted
<1> QED
  BY <1>1, <1>2, <1>3, <1>4, <1>5, <1>6

\* Whatever calls are made of a linear model, a Gaussian or Bernoulli naive Bayes,
\* an FTRL model, a transformer, an encoder, a pipeline, a bandit or the objects behind handles,
\* refused ones included: their state passes the validation of a restore. Not
\* said of the kinds in ToleratedKinds.
THEOREM SavedModelsAreAccepted == LearningSpec => [](CanBeSaved => SavedModelIsAccepted)
<1> QED
  BY SavedInit, SavedNext, SavedFollows, PTL DEF LearningSpec

-----------------------------------------------------------------------------
(* What was seen of a feature, and what is kept of it.                     *)

LEMMA SeenAppend ==
    ASSUME NEW S, NEW l \in Seq(S), NEW x \in S, NEW i
    PROVE  /\ PresentAt(i, l) \subseteq 1..Len(l)
           /\ PresentAt(i, Append(l, x)) =
                 IF x[i] # NaN THEN PresentAt(i, l) \cup {Len(l) + 1} ELSE PresentAt(i, l)
           /\ SeenIn(i, Append(l, x)) = IF x[i] # NaN THEN SeenIn(i, l) \cup {x[i]} ELSE SeenIn(i, l)
<1> DEFINE n == Len(l)
<1> DEFINE m == Append(l, x)
<1>1. /\ n \in Nat /\ DOMAIN l = 1..n /\ DOMAIN m = 1..(n + 1) /\ 1..(n + 1) = (1..n) \cup {n + 1}
      /\ \A k \in 1..n : m[k] = l[k]
      /\ m[n + 1] = x /\ n + 1 \notin 1..n
  OBVIOUS
<1> HIDE DEF n, m
<1>2. PresentAt(i, m) = IF x[i] # NaN THEN PresentAt(i, l) \cup {n + 1} ELSE PresentAt(i, l)
  BY <1>1 DEF PresentAt
<1>3. PresentAt(i, l) \subseteq 1..n
  BY <1>1 DEF PresentAt
<1>4. SeenIn(i, m) = IF x[i] # NaN THEN SeenIn(i, l) \cup {x[i]} ELSE SeenIn(i, l)
  <2>1. \A k \in PresentAt(i, l) : m[k][i] = l[k][i]
    BY <1>1, <1>3
  <2>2. m[n + 1][i] = x[i]
    BY <1>1
  <2>3. {m[k][i] : k \in PresentAt(i, l)} = SeenIn(i, l)
    BY <2>1 DEF SeenIn
  <2> QED
    BY <1>2, <2>2, <2>3 DEF SeenIn
<1> QED
  BY <1>2, <1>3, <1>4 DEF n, m

LEMMA NothingSeen ==
    ASSUME NEW i
    PROVE  PresentAt(i, <<>>) = {} /\ SeenIn(i, <<>>) = {}
BY DEF PresentAt, SeenIn

\* The last value that was not missing.
LEMMA LastSeenAppend ==
    ASSUME NEW S, NEW l \in Seq(S), NEW x \in S, NEW i, NEW default
    PROVE  LastSeen(i, Append(l, x), default) = IF x[i] # NaN THEN x[i] ELSE LastSeen(i, l, default)
<1> DEFINE n == Len(l)
<1> DEFINE m == Append(l, x)
<1> DEFINE P == PresentAt(i, l)
<1>1. /\ n \in Nat /\ \A k \in 1..n : m[k] = l[k]
      /\ m[n + 1] = x
  OBVIOUS
<1>2. P \subseteq 1..n /\ PresentAt(i, m) = IF x[i] # NaN THEN P \cup {n + 1} ELSE P
  BY SeenAppend
<1> HIDE DEF n, m, P
<1>3. CASE x[i] # NaN
  <2> DEFINE Q == P \cup {n + 1}
  <2>1. Max(Q) = n + 1
    <3>1. n + 1 \in Q /\ \A k \in Q : k \in Int /\ n + 1 >= k
      BY <1>1, <1>2
    <3>2. Max(Q) \in Q /\ \A k \in Q : Max(Q) >= k
      BY <3>1 DEF Max
    <3>3. Max(Q) \in Int /\ n + 1 >= Max(Q) /\ Max(Q) >= n + 1
      BY <3>1, <3>2
    <3> HIDE DEF Q
    <3> QED
      BY <1>1, <3>3
  <2> QED
    BY <1>1, <1>2, <1>3, <2>1 DEF LastSeen, m
<1>4. CASE x[i] = NaN
  <2>1. CASE P = {}
    BY <1>2, <1>4, <2>1 DEF LastSeen, m, P
  <2>2. CASE P # {}
    <3>1. Max(P) \in P
      <4>1. P \subseteq 0..n
        BY <1>1, <1>2
      <4>2. \E k \in P : \A j \in P : k >= j
        BY <1>1, <2>2, <4>1, GreatestOf
      <4> QED
        BY <4>2 DEF Max
    <3>2. m[Max(P)] = l[Max(P)]
      BY <1>1, <1>2, <3>1
    <3> QED
      BY <1>2, <1>4, <2>2, <3>2 DEF LastSeen, m, P
  <2> QED
    BY <2>1, <2>2
<1> QED
  BY <1>3, <1>4 DEF m

\* The least and the greatest value of each feature.
MinMaxSeen(s, l) ==
    /\ l \in Seq(Vectors) /\ \A k \in DOMAIN l : FeaturesAreValid(l[k])
    /\ \A i \in Features :
          IF l = <<>> THEN s.mins[i] = NoValue /\ s.maxs[i] = NoValue
          ELSE /\ {s.mins[i], s.maxs[i]} \subseteq SeenIn(i, l)
               /\ \A v \in SeenIn(i, l) : s.mins[i] <= v /\ v <= s.maxs[i]

LEMMA FiniteIsNotMissing == \A v : IsFinite(v) => v \in Int /\ v # NaN /\ v # NoValue
BY FormatAssumption DEF IsFinite, NaN, NoValue

LEMMA SeenAreFinite ==
    ASSUME NEW l \in Seq(Vectors), \A k \in DOMAIN l : FeaturesAreValid(l[k]), NEW i \in Features
    PROVE  \A v \in SeenIn(i, l) : v \in Floats /\ IsFinite(v) /\ v \in Int /\ v # NoValue
<1>1. ASSUME NEW v \in SeenIn(i, l)
      PROVE  v \in Floats /\ IsFinite(v)
  <2>1. PICK k \in DOMAIN l : v = l[k][i]
    BY <1>1 DEF SeenIn, PresentAt
  <2>2. l[k] \in Vectors
    BY <2>1
  <2> QED
    BY <2>1, <2>2, VectorFeatures
<1> QED
  BY <1>1, FiniteIsNotMissing

LEMMA MinMaxTakes ==
    ASSUME NEW s, NEW l, MinMaxSeen(s, l), NEW x \in Vectors
    PROVE  LET r == MinMaxUpdate(s, x)
           IN  IF r.ok THEN MinMaxSeen(r.state, Append(l, x)) ELSE r.state = s
<1> DEFINE mins == [i \in Features |-> Extreme(Lower, s.mins[i], x[i])]
<1> DEFINE maxs == [i \in Features |-> Extreme(Higher, s.maxs[i], x[i])]
<1> DEFINE next == [mins |-> mins, maxs |-> maxs]
<1> DEFINE r == MinMaxUpdate(s, x)
<1> DEFINE m == Append(l, x)
<1> SUFFICES IF r.ok THEN MinMaxSeen(r.state, m) ELSE r.state = s
  OBVIOUS
<1>1. IF FeaturesAreValid(x) THEN r = Done(next) ELSE r = Refused(s)
  BY Zenon DEF MinMaxUpdate
<1>2. ASSUME FeaturesAreValid(x)
      PROVE  MinMaxSeen(next, m)
  <2>1. l \in Seq(Vectors) /\ \A k \in DOMAIN l : FeaturesAreValid(l[k])
    BY DEF MinMaxSeen
  <2>2. m \in Seq(Vectors) /\ m # <<>> /\ \A k \in DOMAIN m : FeaturesAreValid(m[k])
    BY <1>2, <2>1
  <2>3. ASSUME NEW i \in Features
        PROVE  /\ {next.mins[i], next.maxs[i]} \subseteq SeenIn(i, m)
               /\ \A v \in SeenIn(i, m) : next.mins[i] <= v /\ v <= next.maxs[i]
    <3> DEFINE V == SeenIn(i, l)
    <3>1. x[i] \in Int /\ x[i] # NaN
      BY <1>2, VectorFeatures, FiniteIsNotMissing
    <3>2. SeenIn(i, m) = V \cup {x[i]}
      BY <2>1, <3>1, SeenAppend
    <3>3. \A v \in V : v \in Int /\ v # NoValue
      BY <2>1, SeenAreFinite
    <3>4. next.mins[i] = Extreme(Lower, s.mins[i], x[i]) /\ next.maxs[i] = Extreme(Higher, s.maxs[i], x[i])
      OBVIOUS
    <3>5. CASE l = <<>>
      <4>1. s.mins[i] = NoValue /\ s.maxs[i] = NoValue /\ V = {}
        BY <3>5, NothingSeen DEF MinMaxSeen
      <4>2. next.mins[i] = x[i] /\ next.maxs[i] = x[i]
        BY <3>4, <4>1 DEF Extreme
      <4> QED
        BY <3>1, <3>2, <4>1, <4>2
    <3>6. CASE l # <<>>
      <4>1. {s.mins[i], s.maxs[i]} \subseteq V /\ \A v \in V : s.mins[i] <= v /\ v <= s.maxs[i]
        BY <3>6 DEF MinMaxSeen
      <4>2. next.mins[i] = Lower(s.mins[i], x[i]) /\ next.maxs[i] = Higher(s.maxs[i], x[i])
        BY <3>3, <3>4, <4>1 DEF Extreme
      <4> HIDE DEF next, m, V
      <4> QED
        BY <3>1, <3>2, <3>3, <4>1, <4>2 DEF Lower, Higher
    <3> QED
      BY <3>5, <3>6
  <2> HIDE DEF next, m
  <2> QED
    BY <2>2, <2>3 DEF MinMaxSeen
<1> HIDE DEF next, m
<1> QED
  BY <1>1, <1>2 DEF Done, Refused

\* The categories of all values.
CategoriesSeen(s, l) ==
    /\ l \in Seq(Seq(Int)) /\ \A k \in DOMAIN l : l[k] # <<>>
    /\ s \in EncoderStates /\ ToSet(s.categories) = UNION {ToSet(l[k]) : k \in DOMAIN l}

LEMMA CategoriesTake ==
    ASSUME NEW s, NEW l, CategoriesSeen(s, l), NEW values \in Seq(Int), values # <<>>,
           NEW d \in EncoderStates, d.categories = AllFitted(s.categories, values)
    PROVE  CategoriesSeen(d, Append(l, values))
<1> DEFINE m == Append(l, values)
<1> DEFINE n == Len(l)
<1>1. l \in Seq(Seq(Int)) /\ \A k \in DOMAIN l : l[k] # <<>>
  BY DEF CategoriesSeen
<1>2. /\ m \in Seq(Seq(Int)) /\ n \in Nat /\ DOMAIN l = 1..n /\ DOMAIN m = (1..n) \cup {n + 1}
      /\ m[n + 1] = values /\ \A k \in 1..n : m[k] = l[k]
  BY <1>1
<1> HIDE DEF m, n
<1>3. s.categories \in Ascending
  BY DEF CategoriesSeen, EncoderStates
<1>4. ToSet(d.categories) = ToSet(s.categories) \cup ToSet(values)
  BY <1>3, AllFittedAscend
<1>5. UNION {ToSet(m[k]) : k \in DOMAIN m} = (UNION {ToSet(l[k]) : k \in DOMAIN l}) \cup ToSet(values)
  <2> DEFINE P(k) == ToSet(m[k])
  <2> DEFINE Q(k) == ToSet(l[k])
  <2>1. \A k \in 1..n : P(k) = Q(k)
    BY <1>2
  <2>2. P(n + 1) = ToSet(values)
    BY <1>2
  <2> HIDE DEF P, Q
  <2> DEFINE V == ToSet(values)
  <2> HIDE DEF V
  <2>3. UNION {P(k) : k \in (1..n) \cup {n + 1}} = (UNION {Q(k) : k \in 1..n}) \cup V
    <3>1. UNION {P(k) : k \in (1..n) \cup {n + 1}} = (UNION {P(k) : k \in 1..n}) \cup P(n + 1)
      OBVIOUS
    <3>2. {P(k) : k \in 1..n} = {Q(k) : k \in 1..n}
      BY <2>1, Zenon
    <3> QED
      BY <2>2, <3>1, <3>2 DEF V
  <2> QED
    BY <1>2, <2>3 DEF P, Q, V
<1>6. \A k \in DOMAIN m : m[k] # <<>>
  BY <1>1, <1>2
<1> QED
  BY <1>2, <1>4, <1>5, <1>6 DEF CategoriesSeen, m

LEMMA OneHotTakes ==
    ASSUME NEW s, NEW l, CategoriesSeen(s, l), NEW values \in Seq(Int)
    PROVE  LET r == OneHotUpdate(s, values)
           IN  CategoriesSeen(r.state, IF r.ok THEN Append(l, values) ELSE l)
<1> DEFINE r == OneHotUpdate(s, values)
<1> DEFINE d == [categories |-> AllFitted(s.categories, values),
                 samples |-> (s.samples + 1) % (MaxCount + 1)]
<1> SUFFICES CategoriesSeen(r.state, IF r.ok THEN Append(l, values) ELSE l)
  OBVIOUS
<1>1. r = Refused(s) \/ (values # <<>> /\ r = Done(d))
  BY Zenon DEF OneHotUpdate
<1>2. s \in EncoderStates
  BY DEF CategoriesSeen
<1>3. r.state \in EncoderStates
  BY <1>2, EncoderUpdatesHold
<1>4. d.categories = AllFitted(s.categories, values)
  OBVIOUS
<1> HIDE DEF r, d
<1>5. CASE r = Refused(s)
  BY <1>5 DEF Refused
<1>6. CASE values # <<>> /\ r = Done(d)
  <2>1. r.ok /\ r.state = d
    BY <1>6 DEF Done
  <2> QED
    BY <1>3, <1>4, <1>6, <2>1, CategoriesTake
<1> QED
  BY <1>1, <1>5, <1>6

LEMMA OrdinalTakes ==
    ASSUME NEW s, NEW l, CategoriesSeen(s, l), s.samples = Len(l), Len(l) < MaxCount,
           NEW values \in Seq(Int)
    PROVE  LET r == OrdinalUpdate(s, values)
               m == IF r.ok THEN Append(l, values) ELSE l
           IN  CategoriesSeen(r.state, m) /\ r.state.samples = Len(m)
<1> DEFINE r == OrdinalUpdate(s, values)
<1> DEFINE m == IF r.ok THEN Append(l, values) ELSE l
<1> DEFINE fitted == [s EXCEPT !.categories = AllFitted(@, values)]
<1> DEFINE d == [fitted EXCEPT !.samples = @ + 1]
<1> SUFFICES CategoriesSeen(r.state, m) /\ r.state.samples = Len(m)
  OBVIOUS
<1>0. CanCount(s.samples)
  BY DEF CanCount
<1>1. r = Refused(s) \/ (values # <<>> /\ r = Done(d))
  BY <1>0, Zenon DEF OrdinalUpdate
<1>2. s \in EncoderStates /\ l \in Seq(Seq(Int))
  BY DEF CategoriesSeen
<1>3. r.state \in EncoderStates
  BY <1>2, EncoderUpdatesHold
<1>4. d.categories = AllFitted(s.categories, values) /\ d.samples = s.samples + 1
  BY <1>2 DEF EncoderStates
<1>5. Len(Append(l, values)) = Len(l) + 1
  BY <1>2
<1> HIDE DEF r, d
<1>6. CASE r = Refused(s)
  BY <1>6 DEF Refused
<1>7. CASE values # <<>> /\ r = Done(d)
  <2>1. r.ok /\ r.state = d
    BY <1>7 DEF Done
  <2>2. m = Append(l, values)
    BY <2>1
  <2>3. CategoriesSeen(d, Append(l, values))
    BY <1>3, <1>4, <1>7, <2>1, CategoriesTake
  <2> QED
    BY <1>4, <1>5, <2>1, <2>2, <2>3
<1> QED
  BY <1>1, <1>6, <1>7

\* What ForwardFill keeps of the last values.
FillSeen(s, l) ==
    /\ l \in Seq(Vectors) /\ s \in FillStates /\ s.samples = Len(l)
    /\ \A k \in DOMAIN l : Len(l[k]) = FeatureCount /\ \A i \in Features : IsUsable(l[k][i])
    /\ \A i \in Features : s.last[i] = LastSeen(i, l, NoValue)

LEMMA FillUpdateFills ==
    ASSUME NEW s \in FillStates, CanCount(s.samples), NEW x \in Vectors,
           \A i \in DOMAIN x : IsUsable(x[i])
    PROVE  LET r == ForwardFillUpdate(s, x)
           IN  \/ r = Refused(s)
               \/ /\ r.ok /\ r.state.samples = s.samples + 1 /\ Len(x) = FeatureCount
                  /\ \A i \in Features : r.state.last[i] = IF x[i] # NaN THEN x[i] ELSE s.last[i]
<1> DEFINE n == FeatureCount
<1> DEFINE r == ForwardFillUpdate(s, x)
<1> DEFINE after == CHOOSE f : Filled(f, s, x, n)
<1> DEFINE taken == after[n]
<1> DEFINE v == taken.state
<1> DEFINE counted == [v EXCEPT !.samples = v.samples + 1]
<1>1. \/ r = Refused(s)
      \/ /\ Len(x) = n
         /\ r = IF ~taken.ok \/ ~CanCount(v.samples) THEN Refused(v) ELSE Done(counted)
  BY Zenon DEF ForwardFillUpdate, ImputerUpdate, Filled, Filling
<1>2. n \in Nat /\ Features = 1..n
  BY FeaturesAre
<1> DEFINE Upto(k, u) ==
       /\ u.ok /\ u.state \in FillStates /\ u.state.samples = s.samples
       /\ \A i \in Features : u.state.last[i] = IF i <= k /\ x[i] # NaN THEN x[i] ELSE s.last[i]
<1>3. ASSUME Len(x) = n
      PROVE  Upto(n, taken)
  <2>1. Filled(after, s, x, n)
    BY <1>3, FillingExists
  <2> HIDE DEF after, n
  <2> DEFINE T == {k \in Nat : k <= n => Upto(k, after[k])}
  <2>2. 0 \in T
    <3>1. after[0] = Done(s)
      BY <1>2, <2>1 DEF Filled
    <3>2. Done(s).ok /\ Done(s).state = s
      BY DEF Done
    <3>3. \A i \in Features : ~(i <= 0)
      BY <1>2
    <3> QED
      BY <3>1, <3>2, <3>3
  <2>3. ASSUME NEW k \in T
        PROVE  k + 1 \in T
    <3> SUFFICES ASSUME k + 1 <= n
                 PROVE  Upto(k + 1, after[k + 1])
      OBVIOUS
    <3> DEFINE j == k + 1
    <3>1. k \in Nat /\ j \in Features /\ j \in 0..n /\ j # 0 /\ j - 1 = k /\ k <= n
      BY <1>2
    <3> DEFINE u == after[k]
    <3> DEFINE w == [u.state EXCEPT !.last[j] = x[j]]
    <3>2. Upto(k, u)
      BY <3>1
    <3>3. after[j] = Filling(x, u, j)
      BY <2>1, <3>1 DEF Filled
    <3>4. IsUsable(x[j])
      BY <1>2, <1>3, <3>1 DEF Vectors
    <3>5. IF x[j] = NaN THEN after[j] = u ELSE after[j] = Done(w)
      BY <3>2, <3>3, <3>4, Zenon DEF Filling, IsUsable
    <3>6. \A i \in Features : (i <= j) <=> (i <= k \/ i = j)
      BY <1>2, <3>1
    <3>7. CASE x[j] = NaN
      <4>1. \A i \in Features : (i <= j /\ x[i] # NaN) <=> (i <= k /\ x[i] # NaN)
        BY <3>6, <3>7
      <4> HIDE DEF u, j
      <4> QED
        BY <3>2, <3>5, <3>7, <4>1 DEF j
    <3>8. CASE x[j] # NaN
      <4> DEFINE y == u.state
      <4>1. y \in FillStates /\ y.samples = s.samples
        BY <3>2
      <4>2. x[j] \in KeptValues
        <5>1. IsFinite(x[j])
          BY <3>4, <3>8 DEF IsUsable
        <5>2. x[j] \in Floats
          BY <1>2, <1>3, <3>1 DEF Vectors
        <5> QED
          BY <5>1, <5>2 DEF KeptValues
      <4>3. w = [y EXCEPT !.last[j] = x[j]]
        OBVIOUS
      <4>4. \A i \in Features : y.last[i] = IF i <= k /\ x[i] # NaN THEN x[i] ELSE s.last[i]
        BY <3>2
      <4>5. after[j] = Done(w)
        BY <3>5, <3>8
      <4> HIDE DEF y, w, u, j
      <4>6. w \in FillStates /\ w.samples = s.samples
            /\ \A i \in Features : w.last[i] = IF i = j THEN x[j] ELSE y.last[i]
        BY <3>1, <4>1, <4>2, <4>3 DEF FillStates
      <4>7. after[j].ok /\ after[j].state = w
        BY <4>5 DEF Done
      <4>8. \A i \in Features : w.last[i] = IF i <= j /\ x[i] # NaN THEN x[i] ELSE s.last[i]
        BY <3>6, <3>8, <4>4, <4>6
      <4> QED
        BY <4>6, <4>7, <4>8 DEF j
    <3> QED
      BY <3>7, <3>8
  <2>4. T = Nat
    <3>1. T \in SUBSET Nat
      OBVIOUS
    <3> HIDE DEF T
    <3> QED
      BY <2>2, <2>3, <3>1, Induction
  <2> QED
    BY <1>2, <2>4
<1> SUFFICES \/ r = Refused(s)
             \/ /\ r.ok /\ r.state.samples = s.samples + 1 /\ Len(x) = n
                /\ \A i \in Features : r.state.last[i] = IF x[i] # NaN THEN x[i] ELSE s.last[i]
  OBVIOUS
<1> SUFFICES ASSUME r # Refused(s)
             PROVE  /\ r.ok /\ r.state.samples = s.samples + 1 /\ Len(x) = n
                    /\ \A i \in Features : r.state.last[i] = IF x[i] # NaN THEN x[i] ELSE s.last[i]
  OBVIOUS
<1>4. Upto(n, taken)
  BY <1>1, <1>3
<1>5. r = Done(counted)
  BY <1>1, <1>4
<1>6. Len(x) = n /\ \A i \in Features : i <= n
  BY <1>1, <1>2
<1> HIDE DEF r, taken, n
<1>7. counted.samples = s.samples + 1 /\ counted.last = v.last
  BY <1>4 DEF FillStates
<1> HIDE DEF counted
<1>8. r.ok /\ r.state = counted
  BY <1>5 DEF Done
<1> QED
  BY <1>4, <1>6, <1>7, <1>8

LEMMA FillTakes ==
    ASSUME NEW s, NEW l, FillSeen(s, l), Len(l) < MaxCount, NEW x \in Vectors,
           \A i \in DOMAIN x : IsUsable(x[i])
    PROVE  LET r == ForwardFillUpdate(s, x)
           IN  FillSeen(r.state, IF r.ok THEN Append(l, x) ELSE l)
<1> DEFINE r == ForwardFillUpdate(s, x)
<1> DEFINE m == Append(l, x)
<1> SUFFICES FillSeen(r.state, IF r.ok THEN m ELSE l)
  OBVIOUS
<1>1. s \in FillStates /\ l \in Seq(Vectors) /\ CanCount(s.samples) /\ s.samples = Len(l)
  BY DEF FillSeen, CanCount
<1>2. \/ r = Refused(s)
      \/ /\ r.ok /\ r.state.samples = s.samples + 1 /\ Len(x) = FeatureCount
         /\ \A i \in Features : r.state.last[i] = IF x[i] # NaN THEN x[i] ELSE s.last[i]
  BY <1>1, FillUpdateFills
<1>3. r.state \in FillStates
  BY <1>1, FillUpdateHolds
<1>4. m \in Seq(Vectors) /\ Len(m) = Len(l) + 1
      /\ \A k \in DOMAIN m : m[k] = x \/ (k \in DOMAIN l /\ m[k] = l[k])
  BY <1>1
<1>5. \A i \in Features : LastSeen(i, m, NoValue) = IF x[i] # NaN THEN x[i] ELSE LastSeen(i, l, NoValue)
  BY <1>1, LastSeenAppend
<1> HIDE DEF r, m
<1>6. CASE r = Refused(s)
  BY <1>6 DEF Refused
<1>7. CASE r # Refused(s)
  <2>1. \A i \in Features : i \in DOMAIN x
    BY <1>2, <1>7 DEF Features, Vectors
  <2>2. \A i \in Features : IsUsable(x[i])
    BY <2>1
  <2>3. \A k \in DOMAIN m : Len(m[k]) = FeatureCount /\ \A i \in Features : IsUsable(m[k][i])
    BY <1>2, <1>4, <1>7, <2>2 DEF FillSeen
  <2>4. \A i \in Features : r.state.last[i] = LastSeen(i, m, NoValue)
    BY <1>2, <1>5, <1>7 DEF FillSeen
  <2>5. r.ok /\ r.state.samples = Len(m)
    BY <1>1, <1>2, <1>4, <1>7
  <2>6. FillSeen(r.state, m)
    BY <1>3, <1>4, <2>3, <2>4, <2>5 DEF FillSeen
  <2> QED
    BY <2>5, <2>6
<1> QED
  BY <1>6, <1>7

\* How many samples a class has, and in how many of them a feature was on.
LEMMA OneMore ==
    ASSUME NEW n \in Nat, NEW S \in SUBSET (1..n)
    PROVE  /\ Cardinality(S) \in Nat
           /\ Cardinality(S \cup {n + 1}) = Cardinality(S) + 1
<1>1. IsFiniteSet(1..n)
  BY FS_Interval
<1>2. IsFiniteSet(S)
  BY <1>1, FS_Subset
<1>3. n + 1 \notin S
  OBVIOUS
<1>4. Cardinality(S) \in Nat
  BY <1>2, FS_CardinalityType
<1>5. Cardinality(S \cup {n + 1}) = Cardinality(S) + 1
  BY <1>2, <1>3, FS_AddElement
<1> QED
  BY <1>4, <1>5

OnIn(class, i, l) == {k \in OfClass(class, l) : IsOn(l[k][1][i])}

LEMMA ClassAppend ==
    ASSUME NEW S, NEW l \in Seq(S), NEW e \in S, NEW class, NEW i
    PROVE  /\ OfClass(class, l) \subseteq 1..Len(l) /\ OnIn(class, i, l) \subseteq 1..Len(l)
           /\ OfClass(class, Append(l, e)) =
                 IF e[2] = class THEN OfClass(class, l) \cup {Len(l) + 1} ELSE OfClass(class, l)
           /\ OnIn(class, i, Append(l, e)) =
                 IF e[2] = class /\ IsOn(e[1][i]) THEN OnIn(class, i, l) \cup {Len(l) + 1}
                 ELSE OnIn(class, i, l)
<1> DEFINE n == Len(l)
<1> DEFINE m == Append(l, e)
<1>1. /\ n \in Nat /\ DOMAIN l = 1..n /\ DOMAIN m = (1..n) \cup {n + 1}
      /\ \A k \in 1..n : m[k] = l[k]
      /\ m[n + 1] = e /\ n + 1 \notin 1..n
  OBVIOUS
<1> HIDE DEF n, m
<1>2. OfClass(class, l) \subseteq 1..n
  BY <1>1 DEF OfClass
<1>3. OfClass(class, m) = IF e[2] = class THEN OfClass(class, l) \cup {n + 1} ELSE OfClass(class, l)
  BY <1>1 DEF OfClass
<1>4. \A k \in OfClass(class, l) : IsOn(m[k][1][i]) = IsOn(l[k][1][i])
  BY <1>1, <1>2
<1>5. IsOn(m[n + 1][1][i]) = IsOn(e[1][i])
  BY <1>1
<1>6. OnIn(class, i, m) = IF e[2] = class /\ IsOn(e[1][i]) THEN OnIn(class, i, l) \cup {n + 1}
                          ELSE OnIn(class, i, l)
  BY <1>3, <1>4, <1>5 DEF OnIn
<1>7. OnIn(class, i, l) \subseteq 1..n
  BY <1>2 DEF OnIn
<1> QED
  BY <1>2, <1>3, <1>6, <1>7 DEF n, m

BernoulliSeen(m, l) ==
    /\ BernoulliHolds(m) /\ l \in Seq(Vectors \X BOOLEAN)
    /\ \A c \in BOOLEAN :
          /\ m.classes[c].count = Cardinality(OfClass(c, l))
          /\ \A i \in Features : m.classes[c].on[i] = Cardinality(OnIn(c, i, l))

\* A refusal leaves the model as it was; what is learned is counted in its class.
LEMMA BernoulliCounts ==
    ASSUME NEW m, BernoulliHolds(m), NEW x, NEW class \in BOOLEAN
    PROVE  LET r == BernoulliLearn(m, x, class)
               old == m.classes[class]
           IN  \/ r = Refused(m)
               \/ /\ r.ok /\ \A c \in BOOLEAN \ {class} : r.state.classes[c] = m.classes[c]
                  /\ r.state.classes[class].count = old.count + 1
                  /\ \A i \in Features : r.state.classes[class].on[i] =
                                            IF IsOn(x[i]) THEN old.on[i] + 1 ELSE old.on[i]
<1> DEFINE r == BernoulliLearn(m, x, class)
<1> DEFINE old == m.classes[class]
<1> DEFINE next == [i \in Features |-> IF IsOn(x[i]) THEN old.on[i] + 1 ELSE old.on[i]]
<1> DEFINE stats == [old EXCEPT !.on = next]
<1> DEFINE counted == [stats EXCEPT !.count = @ + 1]
<1> DEFINE classes == [m.classes EXCEPT ![class] = counted]
<1> DEFINE taken == [m EXCEPT !.classes = classes, !.samples = @ + 1]
<1>1. r = Refused(m) \/ r = Done(taken)
  <2>1. r = Refused(m) \/ r = Learned(m, class, stats)
    BY Zenon DEF BernoulliLearn
  <2>2. Learned(m, class, stats) = Refused(m) \/ Learned(m, class, stats) = Done(taken)
    BY Zenon DEF Learned
  <2> HIDE DEF r, stats, taken
  <2> QED
    BY <2>1, <2>2
<1>2. /\ {"classes", "samples"} \subseteq DOMAIN m /\ DOMAIN m.classes = BOOLEAN
      /\ {"count", "on"} \subseteq DOMAIN old
  BY DEF BernoulliHolds, ClassesHold
<1>3. counted.count = old.count + 1 /\ counted.on = next
  <2>1. DOMAIN stats = DOMAIN old /\ stats.count = old.count /\ stats.on = next
    <3> HIDE DEF old, next
    <3> QED
      BY <1>2
  <2> HIDE DEF stats, old, next
  <2> QED
    BY <1>2, <2>1
<1>4. \A i \in Features : next[i] = IF IsOn(x[i]) THEN old.on[i] + 1 ELSE old.on[i]
  OBVIOUS
<1> HIDE DEF counted, next
<1>5. classes[class] = counted /\ \A c \in BOOLEAN \ {class} : classes[c] = m.classes[c]
  BY <1>2
<1> HIDE DEF classes
<1>6. taken.classes = classes
  BY <1>2
<1> HIDE DEF taken, r, old
<1> SUFFICES \/ r = Refused(m)
             \/ /\ r.ok /\ \A c \in BOOLEAN \ {class} : r.state.classes[c] = m.classes[c]
                /\ r.state.classes[class].count = old.count + 1
                /\ \A i \in Features : r.state.classes[class].on[i] =
                                          IF IsOn(x[i]) THEN old.on[i] + 1 ELSE old.on[i]
  BY DEF r, old
<1>7. CASE r = Done(taken)
  <2>1. r.ok /\ r.state = taken
    BY <1>7 DEF Done
  <2> QED
    BY <1>3, <1>4, <1>5, <1>6, <2>1
<1> QED
  BY <1>1, <1>7

LEMMA BernoulliTakes ==
    ASSUME NEW m, NEW l, BernoulliSeen(m, l), NEW x \in Vectors, NEW class \in BOOLEAN
    PROVE  LET r == BernoulliLearn(m, x, class)
           IN  BernoulliSeen(r.state, IF r.ok THEN Append(l, <<x, class>>) ELSE l)
<1> DEFINE r == BernoulliLearn(m, x, class)
<1> DEFINE e == <<x, class>>
<1> DEFINE k == Append(l, e)
<1> DEFINE old == m.classes[class]
<1> SUFFICES BernoulliSeen(r.state, IF r.ok THEN k ELSE l)
  OBVIOUS
<1>1. BernoulliHolds(m) /\ l \in Seq(Vectors \X BOOLEAN) /\ e \in Vectors \X BOOLEAN
      /\ e[1] = x /\ e[2] = class
  BY DEF BernoulliSeen
<1>2. BernoulliHolds(r.state)
  BY <1>1, BernoulliLearnHolds
<1>3. \/ r = Refused(m)
      \/ /\ r.ok /\ \A c \in BOOLEAN \ {class} : r.state.classes[c] = m.classes[c]
         /\ r.state.classes[class].count = old.count + 1
         /\ \A i \in Features : r.state.classes[class].on[i] =
                                   IF IsOn(x[i]) THEN old.on[i] + 1 ELSE old.on[i]
  BY <1>1, BernoulliCounts
<1> HIDE DEF r
<1>4. CASE r = Refused(m)
  BY <1>4 DEF Refused
<1>5. CASE r # Refused(m)
  <2> DEFINE n == Len(l)
  <2>1. n \in Nat /\ k \in Seq(Vectors \X BOOLEAN)
    BY <1>1
  <2>2. \A c, i : /\ OfClass(c, l) \subseteq 1..n /\ OnIn(c, i, l) \subseteq 1..n
                  /\ OfClass(c, k) = IF e[2] = c THEN OfClass(c, l) \cup {n + 1} ELSE OfClass(c, l)
                  /\ OnIn(c, i, k) = IF e[2] = c /\ IsOn(e[1][i]) THEN OnIn(c, i, l) \cup {n + 1}
                                     ELSE OnIn(c, i, l)
    <3> TAKE c, i
    <3> HIDE DEF e
    <3> QED
      BY <1>1, ClassAppend
  <2> HIDE DEF n, k, e
  <2>3. ASSUME NEW c \in BOOLEAN
        PROVE  r.state.classes[c].count = Cardinality(OfClass(c, k))
    <3>1. m.classes[c].count = Cardinality(OfClass(c, l))
      BY DEF BernoulliSeen
    <3>2. CASE c = class
      <4> DEFINE T == OfClass(c, l)
      <4>1. T \in SUBSET (1..n) /\ OfClass(c, k) = T \cup {n + 1}
        BY <1>1, <2>2, <3>2
      <4> HIDE DEF T
      <4>2. Cardinality(T \cup {n + 1}) = Cardinality(T) + 1
        BY <2>1, <4>1, OneMore
      <4> QED
        BY <1>3, <1>5, <3>1, <3>2, <4>1, <4>2 DEF T
    <3>3. CASE c # class
      BY <1>1, <1>3, <1>5, <2>2, <3>1, <3>3
    <3> QED
      BY <3>2, <3>3
  <2>4. ASSUME NEW c \in BOOLEAN, NEW i \in Features
        PROVE  r.state.classes[c].on[i] = Cardinality(OnIn(c, i, k))
    <3>1. m.classes[c].on[i] = Cardinality(OnIn(c, i, l))
      BY DEF BernoulliSeen
    <3>2. CASE c = class /\ IsOn(x[i])
      <4> DEFINE T == OnIn(c, i, l)
      <4>1. T \in SUBSET (1..n) /\ OnIn(c, i, k) = T \cup {n + 1}
        BY <1>1, <2>2, <3>2
      <4> HIDE DEF T
      <4>2. Cardinality(T \cup {n + 1}) = Cardinality(T) + 1
        BY <2>1, <4>1, OneMore
      <4> QED
        BY <1>3, <1>5, <3>1, <3>2, <4>1, <4>2 DEF T
    <3>3. CASE c = class /\ ~IsOn(x[i])
      BY <1>1, <1>3, <1>5, <2>1, <2>2, <3>1, <3>3
    <3>4. CASE c # class
      BY <1>1, <1>3, <1>5, <2>2, <3>1, <3>4
    <3> QED
      BY <3>2, <3>3, <3>4
  <2> QED
    BY <1>2, <1>3, <1>5, <2>1, <2>3, <2>4 DEF BernoulliSeen
<1> QED
  BY <1>4, <1>5

-----------------------------------------------------------------------------
(* The features that FTRL knows.                                           *)

Knowing(f, kind, l) ==
    f = [n \in 0..Len(l) |-> IF n = 0 THEN {} ELSE Joined(f[n - 1], IdsOf(kind, l[n][1]))]

LEMMA KnowingExists ==
    ASSUME NEW kind, NEW l, Len(l) \in Nat
    PROVE  \E f : Knowing(f, kind, l)
<1> DEFINE n == Len(l)
<1> DEFINE Ids(i) == IdsOf(kind, l[i][1])
<1> DEFINE V == SUBSET UNION {Ids(i) : i \in 1..n}
<1> DEFINE F == [p \in V \X (1..n) |-> Joined(p[1], Ids(p[2]))]
<1>1. \A v \in V, i \in 1..n : Joined(v, Ids(i)) \in V
  <2> SUFFICES ASSUME NEW v \in V, NEW i \in 1..n
               PROVE  Joined(v, Ids(i)) \in V
    OBVIOUS
  <2>1. Joined(v, Ids(i)) = v \/ Joined(v, Ids(i)) = v \cup Ids(i)
    BY DEF Joined
  <2>2. v \cup Ids(i) \in V
    <3> HIDE DEF Ids, n
    <3> QED
      OBVIOUS
  <2> HIDE DEF Ids, V
  <2> QED
    BY <2>1, <2>2
<1>2. {} \in V
  OBVIOUS
<1> HIDE DEF V
<1>3. F \in [V \X (1..n) -> V] /\ \A v \in V, i \in 1..n : F[v, i] = Joined(v, Ids(i))
  <2> HIDE DEF Ids, n
  <2> QED
    BY <1>1
<1> HIDE DEF F
<1>4. PICK f \in [0..n -> V] : Recursion(f, {}, F, n)
  <2> HIDE DEF n
  <2>1. n \in Nat
    BY DEF n
  <2> QED
    BY <1>2, <1>3, <2>1, RecursionExists
<1>5. ASSUME NEW i \in 0..n
      PROVE  f[i] = IF i = 0 THEN {} ELSE Joined(f[i - 1], Ids(i))
  <2>0. n \in Nat
    OBVIOUS
  <2> HIDE DEF n, Ids
  <2>1. f[i] = IF i = 0 THEN {} ELSE F[f[i - 1], i]
    BY <1>4 DEF Recursion
  <2>2. CASE i = 0
    BY <2>1, <2>2
  <2>3. CASE i \in 1..n
    <3>1. f[i - 1] \in V /\ i # 0
      BY <1>4, <2>0, <2>3
    <3> QED
      BY <1>3, <2>1, <2>3, <3>1
  <2> QED
    BY <2>0, <2>2, <2>3
<1>6. Knowing(f, kind, l)
  BY <1>4, <1>5 DEF Knowing
<1> QED
  BY <1>6

LEMMA KnowingAgree ==
    ASSUME NEW kind, NEW l, NEW m, Len(l) \in Nat, Len(m) \in Nat, Len(l) <= Len(m), NEW f, NEW g,
           Knowing(f, kind, l), Knowing(g, kind, m), \A i \in 1..Len(l) : m[i] = l[i]
    PROVE  \A k \in 0..Len(l) : f[k] = g[k]
<1> DEFINE T == {k \in Nat : k <= Len(l) => f[k] = g[k]}
<1>1. 0 \in T
  <2>1. 0 \in 0..Len(l) /\ 0 \in 0..Len(m)
    OBVIOUS
  <2>2. f[0] = {} /\ g[0] = {}
    BY <2>1 DEF Knowing
  <2> QED
    BY <2>2
<1>2. ASSUME NEW k \in Nat, k + 1 <= Len(l), f[k] = g[k]
      PROVE  f[k + 1] = g[k + 1]
  <2> DEFINE n == k + 1
  <2>1. n \in 0..Len(l) /\ n \in 0..Len(m) /\ n # 0 /\ n - 1 = k /\ m[n] = l[n]
    BY <1>2
  <2> HIDE DEF n
  <2>2. f[n] = Joined(f[n - 1], IdsOf(kind, l[n][1])) /\ g[n] = Joined(g[n - 1], IdsOf(kind, m[n][1]))
    BY <2>1 DEF Knowing
  <2>3. f[n] = g[n]
    BY <1>2, <2>1, <2>2
  <2> QED
    BY <2>3 DEF n
<1>3. \A k \in T : k + 1 \in T
  BY <1>2
<1>4. T \in SUBSET Nat
  OBVIOUS
<1>5. T = Nat
  <2> HIDE DEF T
  <2> QED
    BY <1>1, <1>3, <1>4, Induction
<1> QED
  BY <1>5

LEMMA KnownIs ==
    ASSUME NEW kind, NEW l, Len(l) \in Nat, NEW g, Knowing(g, kind, l)
    PROVE  KnownAfter(kind, l) = g[Len(l)]
<1> DEFINE f == CHOOSE h : Knowing(h, kind, l)
<1>1. KnownAfter(kind, l) = f[Len(l)]
  BY DEF KnownAfter, Knowing
<1>2. Knowing(f, kind, l)
  OBVIOUS
<1> HIDE DEF f
<1>3. \A k \in 0..Len(l) : f[k] = g[k]
  BY <1>2, KnowingAgree
<1> QED
  BY <1>1, <1>3

LEMMA KnownAppend ==
    ASSUME NEW kind, NEW S, NEW l \in Seq(S), NEW e \in S
    PROVE  /\ KnownAfter(kind, <<>>) = {}
           /\ KnownAfter(kind, Append(l, e)) = Joined(KnownAfter(kind, l), IdsOf(kind, e[1]))
<1> DEFINE m == Append(l, e)
<1>1. /\ Len(l) \in Nat /\ Len(m) \in Nat /\ Len(m) = Len(l) + 1 /\ m[Len(m)] = e
      /\ \A i \in 1..Len(l) : m[i] = l[i]
  OBVIOUS
<1> HIDE DEF m
<1>2. PICK f : Knowing(f, kind, l)
  BY <1>1, KnowingExists
<1>3. PICK g : Knowing(g, kind, m)
  BY <1>1, KnowingExists
<1>4. KnownAfter(kind, l) = f[Len(l)] /\ KnownAfter(kind, m) = g[Len(m)]
  BY <1>1, <1>2, <1>3, KnownIs
<1>5. f[Len(l)] = g[Len(l)]
  <2>1. Len(l) <= Len(m)
    BY <1>1
  <2>2. \A k \in 0..Len(l) : f[k] = g[k]
    BY <1>1, <1>2, <1>3, <2>1, KnowingAgree
  <2> QED
    BY <1>1, <2>2
<1>6. g[Len(m)] = Joined(g[Len(m) - 1], IdsOf(kind, m[Len(m)][1]))
  BY <1>1, <1>3 DEF Knowing
<1>7. Len(m) - 1 = Len(l)
  BY <1>1
<1>8. KnownAfter(kind, <<>>) = {}
  <2> DEFINE h == [n \in 0..0 |-> {}]
  <2>1. Knowing(h, kind, <<>>)
    BY DEF Knowing
  <2>2. h[0] = {} /\ Len(<<>>) = 0
    OBVIOUS
  <2> HIDE DEF h
  <2> QED
    BY <2>1, <2>2, KnownIs
<1> QED
  BY <1>1, <1>4, <1>5, <1>6, <1>7, <1>8 DEF m

\* An accepted sample adds its features if there is room for all that are new.
LEMMA FtrlStepKnows ==
    ASSUME NEW m, IsFiniteSet(DOMAIN m.params), NEW x, IsFiniteSet(DOMAIN x), NEW gradient
    PROVE  LET r == FtrlStep(m, x, gradient)
           IN  \/ ~r.ok /\ r.state = m
               \/ r.ok /\ DOMAIN r.state.params = Joined(DOMAIN m.params, DOMAIN x)
<1> DEFINE P == DOMAIN m.params
<1> DEFINE D == DOMAIN x
<1> DEFINE taught == FtrlTaught(m, x, gradient)
<1> DEFINE intercept == FtrlNext(m.intercept, gradient, InterceptWeight(m.intercept))
<1> DEFINE all == P \cup DOMAIN taught
<1> DEFINE params == [id \in all |-> IF id \in DOMAIN taught THEN taught[id].state ELSE m.params[id]]
<1> DEFINE next == [params |-> params, intercept |-> intercept.state, samples |-> m.samples + 1]
<1> DEFINE r == FtrlStep(m, x, gradient)
<1> SUFFICES \/ ~r.ok /\ r.state = m
             \/ r.ok /\ DOMAIN r.state.params = Joined(P, D)
  BY Zenon
<1>1. r = Refused(m) \/ r = Done(next)
  BY Zenon DEF FtrlStep, FtrlAssigned
<1>2. DOMAIN next.params = P \cup Learnable(m, x)
  BY DEF FtrlTaught
<1>3. P \cup Learnable(m, x) = Joined(P, D)
  <2> DEFINE N == NewIds(m, x)
  <2>1. N = D \ P
    BY DEF NewIds
  <2>2. IsFiniteSet(P) /\ IsFiniteSet(N) /\ P \cap N = {} /\ P \cup N = P \cup D
    BY <2>1, FS_Subset
  <2>3. Cardinality(P) \in Nat /\ Cardinality(N) \in Nat /\ MaxFeatures \in Nat
    BY <2>2, FS_CardinalityType, FtrlAssumption
  <2>4. Cardinality(P \cup N) = Cardinality(P) + Cardinality(N) - Cardinality(P \cap N)
    BY <2>2, FS_Union
  <2>5. Cardinality(P \cap N) = 0
    BY <2>2, FS_EmptySet
  <2>6. Cardinality(P \cup D) = Cardinality(P) + Cardinality(N)
    <3>1. P \cup N = P \cup D
      BY <2>2
    <3> HIDE DEF P, N, D
    <3>2. Cardinality(P \cup N) = Cardinality(P) + Cardinality(N)
      BY <2>3, <2>4, <2>5
    <3> QED
      BY <3>1, <3>2
  <2>7. Overfull(m, x) <=> ~(Cardinality(P \cup D) <= MaxFeatures)
    BY <2>3, <2>6 DEF Overfull
  <2>8. Learnable(m, x) = IF Overfull(m, x) THEN D \ N ELSE D
    BY DEF Learnable
  <2> QED
    BY <2>1, <2>7, <2>8 DEF Joined
<1> HIDE DEF next, r
<1> QED
  BY <1>1, <1>2, <1>3 DEF Done, Refused

LEMMA SparseFeatures ==
    ASSUME NEW kind, NEW pairs \in Seq(Int \X Floats)
    PROVE  LET x == SparseInput(kind, FromUnsorted(pairs))
           IN  x.ok => DOMAIN x.state = IdsOf(kind, pairs)
<1> DEFINE f == FromUnsorted(pairs)
<1> DEFINE x == SparseInput(kind, f)
<1>1. f = Done(Merged(pairs)) \/ f = Refused(<<>>)
  BY DEF FromUnsorted
<1>2. DOMAIN Merged(pairs) = {p[1] : p \in ToSet(pairs)}
  <2>1. DOMAIN Merged(pairs) = {pairs[i][1] : i \in DOMAIN pairs}
    BY DEF Merged
  <2> QED
    BY <2>1 DEF ToSet
<1>3. ASSUME NEW y
      PROVE  Hashed(y).ok => DOMAIN Hashed(y).state = 0..(Dimension - 1)
  <2> DEFINE ids(b) == SetToSortSeq({id \in DOMAIN y : Bucket(id) = b}, LAMBDA i, j : i < j)
  <2> DEFINE sum(b) == FSum([i \in DOMAIN ids(b) |-> FMul(Sign(ids(b)[i]), y[ids(b)[i]])])
  <2> DEFINE output == [b \in 0..(Dimension - 1) |-> sum(b)]
  <2>1. DOMAIN output = 0..(Dimension - 1)
    OBVIOUS
  <2>2. Hashed(y) = Refused(<<>>) \/ Hashed(y) = Done(output)
    BY Zenon DEF Hashed
  <2> HIDE DEF output
  <2> QED
    BY <2>1, <2>2 DEF Done, Refused
<1> HIDE DEF f
<1>4. f.ok => DOMAIN f.state = {p[1] : p \in ToSet(pairs)}
  BY <1>1, <1>2 DEF Done, Refused
<1>5. x = IF kind = "ftrl_hashed" /\ f.ok THEN Hashed(f.state) ELSE f
  BY DEF SparseInput
<1> SUFFICES ASSUME x.ok
             PROVE  DOMAIN x.state = IdsOf(kind, pairs)
  BY DEF f
<1> HIDE DEF x
<1>6. CASE kind = "ftrl_hashed" /\ f.ok
  BY <1>3, <1>5, <1>6 DEF IdsOf
<1>7. CASE kind # "ftrl_hashed"
  BY <1>4, <1>5, <1>7 DEF IdsOf
<1>8. CASE ~f.ok
  BY <1>5, <1>8
<1> QED
  BY <1>6, <1>7, <1>8

FtrlSeen(kind, m, l) == FtrlHolds(m) /\ DOMAIN m.params = KnownAfter(kind, l)

LEMMA FtrlKnows ==
    ASSUME NEW kind \in {"ftrl", "ftrl_classifier", "ftrl_hashed"}, NEW m, NEW S, NEW l \in Seq(S),
           FtrlSeen(kind, m, l), NEW input \in S, input[1] \in Seq(Int \X Floats)
    PROVE  LET r == LearnModel(kind, m, input)
           IN  FtrlSeen(kind, r.state, IF r.ok THEN Append(l, input) ELSE l)
<1> DEFINE x == SparseInput(kind, FromUnsorted(input[1]))
<1> DEFINE r == LearnModel(kind, m, input)
<1> DEFINE ids == IdsOf(kind, input[1])
<1> SUFFICES FtrlSeen(kind, r.state, IF r.ok THEN Append(l, input) ELSE l)
  OBVIOUS
<1>1. FtrlHolds(m) /\ DOMAIN m.params = KnownAfter(kind, l) /\ IsFiniteSet(DOMAIN m.params)
  BY DEF FtrlSeen, FtrlHolds
<1>2. FtrlHolds(r.state)
  BY <1>1, FtrlLearnHolds
<1>3. x.ok => IsFiniteSet(DOMAIN x.state) /\ DOMAIN x.state = ids
  BY SparseIsFinite, SparseFeatures
<1>4. r = Refused(m) \/ (x.ok /\ r = FtrlLearn(m, x.state, input[2]))
      \/ (x.ok /\ r = FtrlClassifierLearn(m, x.state, input[2]))
  <2>1. CASE kind = "ftrl_classifier"
    <3>1. r = LearnSparse(kind, m, input[1], LAMBDA y : FtrlClassifierLearn(m, y, input[2]))
      BY <2>1 DEF LearnModel
    <3> HIDE DEF r
    <3>2. r = IF x.ok THEN FtrlClassifierLearn(m, x.state, input[2]) ELSE Refused(m)
      BY <3>1, Zenon DEF LearnSparse, Taught
    <3> HIDE DEF x
    <3> QED
      BY <3>2
  <2>2. CASE kind \in {"ftrl", "ftrl_hashed"}
    <3>1. r = LearnSparse(kind, m, input[1], LAMBDA y : FtrlLearn(m, y, input[2]))
      BY <2>2 DEF LearnModel
    <3> HIDE DEF r
    <3>2. r = IF x.ok THEN FtrlLearn(m, x.state, input[2]) ELSE Refused(m)
      BY <3>1, Zenon DEF LearnSparse, Taught
    <3> HIDE DEF x
    <3> QED
      BY <3>2
  <2> QED
    BY <2>1, <2>2
<1> DEFINE Grows(a) == \/ ~a.ok /\ a.state = m
                       \/ a.ok /\ DOMAIN a.state.params = Joined(DOMAIN m.params, ids)
<1>5. Grows(Refused(m))
  BY DEF Refused
<1>6. ASSUME NEW gradient, x.ok
      PROVE  Grows(FtrlStep(m, x.state, gradient))
  <2> HIDE DEF x, ids
  <2> QED
    BY <1>1, <1>3, <1>6, FtrlStepKnows
<1>7. x.ok => Grows(FtrlLearn(m, x.state, input[2])) /\ Grows(FtrlClassifierLearn(m, x.state, input[2]))
  <2> SUFFICES ASSUME x.ok
               PROVE  Grows(FtrlLearn(m, x.state, input[2]))
                      /\ Grows(FtrlClassifierLearn(m, x.state, input[2]))
    OBVIOUS
  <2> DEFINE g == FSub(FtrlPredict(m, x.state), input[2])
  <2> DEFINE h == FSub(Logistic(FtrlPredict(m, x.state)), IF input[2] THEN Unit ELSE 0)
  <2>1. FtrlLearn(m, x.state, input[2]) = FtrlStep(m, x.state, g)
        \/ FtrlLearn(m, x.state, input[2]) = Refused(m)
    BY DEF FtrlLearn
  <2>2. FtrlClassifierLearn(m, x.state, input[2]) = FtrlStep(m, x.state, h)
        \/ FtrlClassifierLearn(m, x.state, input[2]) = Refused(m)
    BY DEF FtrlClassifierLearn
  <2> HIDE DEF Grows, g, h, x
  <2> QED
    BY <1>5, <1>6, <2>1, <2>2
<1>8. Grows(r)
  <2> HIDE DEF Grows, r, x
  <2> QED
    BY <1>4, <1>5, <1>7
<1>9. KnownAfter(kind, Append(l, input)) = Joined(KnownAfter(kind, l), ids)
  BY KnownAppend
<1> HIDE DEF r, ids
<1>10. CASE r.ok
  BY <1>1, <1>2, <1>8, <1>9, <1>10 DEF FtrlSeen
<1>11. CASE ~r.ok
  BY <1>1, <1>8, <1>11 DEF FtrlSeen
<1> QED
  BY <1>10, <1>11

-----------------------------------------------------------------------------
(* The means of the imputer, of values that are no more than half the largest. *)

IsModerate(v) == FiniteFloat(v) /\ 2 * Magnitude(v) <= Largest

LEMMA ModerateDifference ==
    ASSUME NEW v, IsModerate(v), NEW m, IsModerate(m)
    PROVE  IsFinite(FSub(v, m))
<1>1. v \in Int /\ m \in Int /\ Largest \in Nat
  BY FiniteIsInteger, FormatAssumption DEF IsModerate
<1>2. v \in Floats /\ m \in Floats /\ IsFinite(v) /\ IsFinite(m)
  BY DEF IsModerate, FiniteFloat
<1>3. 2 * v <= Largest /\ -(2 * v) <= Largest /\ 2 * m <= Largest /\ -(2 * m) <= Largest
  BY <1>1 DEF IsModerate, Magnitude
<1>4. v - m <= Largest /\ v - m >= -Largest
  BY <1>1, <1>3
<1>5. Largest \in Floats /\ IsFinite(Largest) /\ -Largest \in Floats /\ IsFinite(-Largest)
  <2>1. Largest \in Floats /\ IsFinite(Largest)
    BY ConstantsAreFloats
  <2> QED
    BY <2>1, NegativeIsFloat
<1>6. FSub(v, m) \in Int /\ FSub(v, m) <= Largest /\ FSub(v, m) >= -Largest
  BY <1>2, <1>4, <1>5, DifferenceBounds
<1> QED
  BY <1>1, <1>6 DEF IsFinite

MeanAt(s, i) == [count |-> s.counts[i], mean |-> s.means[i]]

LEMMA MeanIsModerate ==
    ASSUME NEW d, NEW W, MeanHolds(d, W), \A w \in W : IsModerate(w)
    PROVE  IsModerate(d.mean)
<1>1. FiniteFloat(d.mean) /\ d.mean \in Int /\ Largest \in Nat
  BY FiniteIsInteger, FormatAssumption DEF MeanHolds
<1>2. CASE d.count = 0
  BY <1>1, <1>2 DEF MeanHolds, IsModerate, Magnitude
<1>3. CASE d.count # 0
  <2>1. PICK a \in W, b \in W : a <= d.mean /\ d.mean <= b
    BY <1>3 DEF MeanHolds, Spans
  <2>2. a \in Int /\ b \in Int /\ -(2 * a) <= Largest /\ 2 * b <= Largest
    BY FiniteIsInteger, FormatAssumption DEF IsModerate, Magnitude
  <2> QED
    BY <1>1, <2>1, <2>2 DEF IsModerate, Magnitude
<1> QED
  BY <1>2, <1>3

\* r is s with one more value in the mean of the i-th feature, of the values in W.
IsTaken(r, s, i, W) ==
    /\ r.ok /\ r.state \in ImputerStates /\ r.state.samples = s.samples
    /\ MeanHolds(MeanAt(r.state, i), W) /\ r.state.counts[i] = s.counts[i] + 1
    /\ \A j \in Features \ {i} : MeanAt(r.state, j) = MeanAt(s, j)

\* Such a value is taken, and nothing else of the state is touched.
LEMMA ModerateIsTaken ==
    ASSUME NEW s \in ImputerStates, NEW i \in Features, NEW W, MeanHolds(MeanAt(s, i), W),
           \A w \in W : IsModerate(w), NEW v, IsModerate(v), s.counts[i] < MaxCount
    PROVE  IsTaken(TakeIntoMean(s, i, v), s, i, W \cup {v})
<1> DEFINE d == MeanAt(s, i)
<1> DEFINE r == TakeIntoMean(s, i, v)
<1> DEFINE counted == [s EXCEPT !.counts[i] = @ + 1]
<1> DEFINE delta == FSub(v, s.means[i])
<1> DEFINE mean == FAdd(s.means[i], FDiv(delta, OfInt(s.counts[i] + 1)))
<1> DEFINE taken == [counted EXCEPT !.means[i] = mean]
<1> SUFFICES /\ r.ok /\ r.state \in ImputerStates /\ r.state.samples = s.samples
             /\ MeanHolds(MeanAt(r.state, i), W \cup {v}) /\ r.state.counts[i] = s.counts[i] + 1
             /\ \A j \in Features \ {i} : MeanAt(r.state, j) = MeanAt(s, j)
  BY DEF IsTaken
<1>1. s.counts[i] \in Nat /\ d.count = s.counts[i] /\ d.mean = s.means[i] /\ s.means[i] \in Floats
  BY DEF ImputerStates, FiniteNumbers, MeanAt
<1>2. IsFinite(v) /\ v \in Floats /\ FiniteFloat(v)
  BY DEF IsModerate, FiniteFloat
<1>3. IsFinite(delta)
  <2>1. IsModerate(d.mean)
    BY MeanIsModerate
  <2> QED
    BY <1>1, <2>1, ModerateDifference
<1>4. mean = NextMean(d, v) /\ delta = FSub(v, d.mean)
  BY <1>1 DEF NextMean
<1>5. mean \in Floats /\ IsFinite(mean)
  <2>1. IsFinite(s.means[i]) /\ (s.counts[i] = 0 => s.means[i] = 0)
    BY <1>1 DEF MeanHolds, FiniteFloat
  <2> QED
    BY <1>1, <1>2, <1>3, <2>1, MeanMoves
<1>6. CanCount(s.counts[i])
  BY DEF CanCount
<1>7. r = Done(taken)
  BY <1>3, <1>5, <1>6, Zenon DEF TakeIntoMean
<1>8. MeanUpdate(d, v) = Done([count |-> s.counts[i] + 1, mean |-> mean])
  BY <1>1, <1>2, <1>3, <1>4, <1>5, <1>6 DEF MeanUpdate
<1> HIDE DEF r, mean, delta
<1>9. MeanHolds([count |-> s.counts[i] + 1, mean |-> mean], W \cup {v})
  <2> DEFINE u == MeanUpdate(d, v)
  <2>1. u.ok /\ u.state = [count |-> s.counts[i] + 1, mean |-> mean]
    BY <1>8 DEF Done
  <2>2. \/ ~u.ok /\ u.state = d
        \/ u.ok /\ u.state.count # 0 /\ MeanHolds(u.state, W \cup {v})
    BY <1>2, MeanTakes
  <2> HIDE DEF u
  <2> QED
    BY <2>1, <2>2
<1>10. /\ counted \in ImputerStates /\ counted.samples = s.samples /\ counted.means = s.means
       /\ counted.counts[i] = s.counts[i] + 1
       /\ \A j \in Features \ {i} : counted.counts[j] = s.counts[j]
  BY <1>1 DEF ImputerStates
<1> HIDE DEF counted
<1>11. /\ taken \in ImputerStates /\ taken.samples = s.samples /\ taken.counts = counted.counts
       /\ taken.means[i] = mean /\ \A j \in Features \ {i} : taken.means[j] = s.means[j]
  <2>1. mean \in FiniteNumbers
    BY <1>5 DEF FiniteNumbers
  <2> QED
    BY <1>10, <2>1 DEF ImputerStates
<1> HIDE DEF taken
<1>12. r.ok /\ r.state = taken
  BY <1>7 DEF Done
<1>13. MeanAt(taken, i) = [count |-> s.counts[i] + 1, mean |-> mean]
  BY <1>10, <1>11 DEF MeanAt
<1>14. \A j \in Features \ {i} : MeanAt(taken, j) = MeanAt(s, j)
  BY <1>10, <1>11 DEF MeanAt
<1> QED
  BY <1>9, <1>10, <1>11, <1>12, <1>13, <1>14

\* What MeanImputer keeps of the values that were there.
ImputerSeen(s, l) ==
    /\ l \in Seq(Vectors) /\ s \in ImputerStates /\ s.samples = Len(l)
    /\ \A i \in Features :
          /\ \A v \in SeenIn(i, l) : IsModerate(v)
          /\ MeanHolds(MeanAt(s, i), SeenIn(i, l))
          /\ s.counts[i] <= Len(l)
          /\ s.counts[i] = 0 <=> SeenIn(i, l) = {}

LEMMA ImputerUpdateFills ==
    ASSUME NEW s \in ImputerStates, NEW l, ImputerSeen(s, l), Len(l) < MaxCount, NEW x \in Vectors,
           \A i \in DOMAIN x : x[i] = NaN \/ IsModerate(x[i])
    PROVE  LET r == MeanImputerUpdate(s, x)
           IN  \/ r = Refused(s)
               \/ /\ r.ok /\ r.state.samples = s.samples + 1
                  /\ \A i \in Features :
                        IF x[i] # NaN
                        THEN /\ r.state.counts[i] = s.counts[i] + 1
                             /\ MeanHolds(MeanAt(r.state, i), SeenIn(i, l) \cup {x[i]})
                        ELSE MeanAt(r.state, i) = MeanAt(s, i)
<1> DEFINE n == FeatureCount
<1> DEFINE r == MeanImputerUpdate(s, x)
<1> DEFINE after == CHOOSE f : Imputation(f, s, x, n)
<1> DEFINE taken == after[n]
<1> DEFINE v == taken.state
<1> DEFINE counted == [v EXCEPT !.samples = v.samples + 1]
<1> DEFINE Added(u, i) == IF x[i] # NaN
                          THEN /\ u.counts[i] = s.counts[i] + 1
                               /\ MeanHolds(MeanAt(u, i), SeenIn(i, l) \cup {x[i]})
                          ELSE MeanAt(u, i) = MeanAt(s, i)
<1> DEFINE Left(u, i) == MeanAt(u, i) = MeanAt(s, i)
<1>1. \/ r = Refused(s)
      \/ /\ Len(x) = n
         /\ r = IF ~taken.ok \/ ~CanCount(v.samples) THEN Refused(v) ELSE Done(counted)
  BY Zenon DEF MeanImputerUpdate, ImputerUpdate, Imputation, Imputing
<1>2. n \in Nat /\ Features = 1..n
  BY FeaturesAre
<1> DEFINE Upto(k, u) ==
       /\ u.ok /\ u.state \in ImputerStates /\ u.state.samples = s.samples
       /\ \A i \in Features : IF i <= k THEN Added(u.state, i) ELSE Left(u.state, i)
<1>3. ASSUME Len(x) = n
      PROVE  Upto(n, taken)
  <2>1. Imputation(after, s, x, n)
    BY <1>2, ImputationExists
  <2> HIDE DEF after, n
  <2> DEFINE T == {k \in Nat : k <= n => Upto(k, after[k])}
  <2>2. 0 \in T
    <3>1. after[0] = Done(s)
      BY <1>2, <2>1 DEF Imputation
    <3>2. Done(s).ok /\ Done(s).state = s
      BY DEF Done
    <3>3. \A i \in Features : ~(i <= 0)
      BY <1>2
    <3> QED
      BY <3>1, <3>2, <3>3
  <2>3. ASSUME NEW k \in T
        PROVE  k + 1 \in T
    <3> SUFFICES ASSUME k + 1 <= n
                 PROVE  Upto(k + 1, after[k + 1])
      OBVIOUS
    <3> DEFINE j == k + 1
    <3>1. k \in Nat /\ j \in Features /\ j \in 0..n /\ j # 0 /\ j - 1 = k /\ k <= n
      BY <1>2
    <3> DEFINE u == after[k]
    <3>2. Upto(k, u)
      BY <3>1
    <3>3. after[j] = Imputing(x, u, j)
      BY <2>1, <3>1 DEF Imputation
    <3>4. x[j] = NaN \/ (IsModerate(x[j]) /\ IsFinite(x[j]))
      BY <1>2, <1>3, <3>1 DEF Vectors, IsModerate, FiniteFloat
    <3>5. IF x[j] = NaN THEN after[j] = u ELSE after[j] = TakeIntoMean(u.state, j, x[j])
      BY <3>2, <3>3, <3>4, Zenon DEF Imputing
    <3>6. \A i \in Features : (i <= j) <=> (i <= k \/ i = j)
      BY <1>2, <3>1
    <3>7. u.ok /\ u.state \in ImputerStates /\ u.state.samples = s.samples /\ Left(u.state, j)
          /\ \A i \in Features \ {j} : IF i <= j THEN Added(u.state, i) ELSE Left(u.state, i)
      <4>1. ~(j <= k)
        BY <3>1
      <4> HIDE DEF u, j, Added, Left
      <4> QED
        BY <3>1, <3>2, <3>6, <4>1
    <3>8. CASE x[j] = NaN
      <4>1. after[j] = u /\ Added(u.state, j)
        BY <3>5, <3>7, <3>8
      <4> HIDE DEF u, Added, Left
      <4>2. \A i \in Features : IF i <= j THEN Added(u.state, i) ELSE Left(u.state, i)
        <5>1. j <= j
          BY <3>1
        <5> HIDE DEF j
        <5> QED
          BY <3>7, <4>1, <5>1
      <4> HIDE DEF j
      <4>3. Upto(j, after[j])
        BY <3>7, <4>1, <4>2
      <4> QED
        BY <4>3 DEF j
    <3>9. CASE x[j] # NaN
      <4> DEFINE y == u.state
      <4> DEFINE w == after[j]
      <4> DEFINE W == SeenIn(j, l)
      <4>1. /\ MeanHolds(MeanAt(s, j), W) /\ (\A e \in W : IsModerate(e))
            /\ s.counts[j] <= Len(l) /\ s.counts[j] \in Nat /\ Len(l) \in Nat
        BY <3>1 DEF ImputerSeen, ImputerStates
      <4>2. MeanAt(y, j) = MeanAt(s, j) /\ y \in ImputerStates /\ y.samples = s.samples
        BY <3>7
      <4>3. y.counts[j] = s.counts[j] /\ s.counts[j] < MaxCount
        BY <4>1, <4>2, FormatAssumption DEF MeanAt
      <4>4. w = TakeIntoMean(y, j, x[j]) /\ IsModerate(x[j])
        BY <3>4, <3>5, <3>9
      <4> HIDE DEF y, w, u, W, j
      <4>5. /\ w.ok /\ w.state \in ImputerStates /\ w.state.samples = y.samples
            /\ MeanHolds(MeanAt(w.state, j), W \cup {x[j]}) /\ w.state.counts[j] = y.counts[j] + 1
            /\ \A i \in Features \ {j} : MeanAt(w.state, i) = MeanAt(y, i)
        <5>1. MeanHolds(MeanAt(y, j), W) /\ y.counts[j] < MaxCount /\ j \in Features
          BY <3>1, <4>1, <4>2, <4>3
        <5>2. y \in ImputerStates /\ IsModerate(x[j]) /\ \A e \in W : IsModerate(e)
          BY <4>1, <4>2, <4>4, Zenon
        <5>3. IsTaken(TakeIntoMean(y, j, x[j]), y, j, W \cup {x[j]})
          BY <5>1, <5>2, ModerateIsTaken
        <5> QED
          BY <4>4, <5>3, Zenon DEF IsTaken
      <4>6. Added(w.state, j)
        BY <3>9, <4>3, <4>5 DEF W
      <4>7. \A i \in Features \ {j} : w.state.counts[i] = y.counts[i]
        BY <4>5 DEF MeanAt
      <4>8. \A i \in Features \ {j} : IF i <= j THEN Added(w.state, i) ELSE Left(w.state, i)
        <5>1. \A i \in Features \ {j} : IF i <= j THEN Added(y, i) ELSE Left(y, i)
          BY <3>7 DEF y
        <5>2. \A i \in Features \ {j} : (Added(y, i) => Added(w.state, i)) /\ (Left(y, i) => Left(w.state, i))
          BY <4>5, <4>7
        <5> HIDE DEF Added, Left
        <5> QED
          BY <5>1, <5>2
      <4>9. j <= j
        BY <3>1
      <4> HIDE DEF Added, Left
      <4>10. \A i \in Features : IF i <= j THEN Added(w.state, i) ELSE Left(w.state, i)
        BY <4>6, <4>8, <4>9
      <4>11. Upto(j, w)
        BY <4>2, <4>5, <4>10
      <4> QED
        BY <4>11 DEF w, j
    <3> QED
      BY <3>8, <3>9
  <2>4. T = Nat
    <3>1. T \in SUBSET Nat
      OBVIOUS
    <3> HIDE DEF T
    <3> QED
      BY <2>2, <2>3, <3>1, Induction
  <2> HIDE DEF Upto
  <2>5. \A k \in Nat : k <= n => Upto(k, after[k])
    BY <2>4
  <2>6. n \in Nat /\ n <= n
    BY <1>2
  <2> QED
    BY <2>5, <2>6
<1> SUFFICES \/ r = Refused(s)
             \/ r.ok /\ r.state.samples = s.samples + 1 /\ \A i \in Features : Added(r.state, i)
  OBVIOUS
<1> SUFFICES ASSUME r # Refused(s)
             PROVE  r.ok /\ r.state.samples = s.samples + 1 /\ \A i \in Features : Added(r.state, i)
  OBVIOUS
<1>4. Upto(n, taken)
  BY <1>1, <1>3
<1>5. CanCount(v.samples)
  BY <1>4 DEF CanCount, ImputerSeen
<1>6. r = Done(counted)
  BY <1>1, <1>4, <1>5
<1>7. \A i \in Features : i <= n
  BY <1>2
<1>8. v \in ImputerStates /\ v.samples = s.samples /\ \A i \in Features : Added(v, i)
  <2> HIDE DEF taken, n, Added, Left
  <2> QED
    BY <1>4, <1>7
<1> HIDE DEF r, v
<1>9. counted.samples = s.samples + 1 /\ counted.counts = v.counts /\ counted.means = v.means
  BY <1>8 DEF ImputerStates
<1> HIDE DEF counted
<1>10. \A i \in Features : MeanAt(counted, i) = MeanAt(v, i) /\ counted.counts[i] = v.counts[i]
  BY <1>9 DEF MeanAt
<1>11. r.ok /\ r.state = counted
  BY <1>6 DEF Done
<1> QED
  BY <1>8, <1>9, <1>10, <1>11

LEMMA ImputerTakesSample ==
    ASSUME NEW s, NEW l, ImputerSeen(s, l), Len(l) < MaxCount, NEW x \in Vectors,
           \A i \in DOMAIN x : x[i] = NaN \/ IsModerate(x[i])
    PROVE  LET r == MeanImputerUpdate(s, x)
           IN  ImputerSeen(r.state, IF r.ok THEN Append(l, x) ELSE l)
<1> DEFINE r == MeanImputerUpdate(s, x)
<1> DEFINE m == Append(l, x)
<1> DEFINE t == r.state
<1> SUFFICES ImputerSeen(t, IF r.ok THEN m ELSE l)
  OBVIOUS
<1>1. s \in ImputerStates /\ l \in Seq(Vectors) /\ s.samples = Len(l)
  BY DEF ImputerSeen
<1>2. \/ r = Refused(s)
      \/ /\ r.ok /\ t.samples = s.samples + 1
         /\ \A i \in Features :
               IF x[i] # NaN
               THEN t.counts[i] = s.counts[i] + 1 /\ MeanHolds(MeanAt(t, i), SeenIn(i, l) \cup {x[i]})
               ELSE MeanAt(t, i) = MeanAt(s, i)
  BY <1>1, ImputerUpdateFills
<1>3. t \in ImputerStates
  BY <1>1, ImputerUpdateHolds
<1>4. m \in Seq(Vectors) /\ Len(m) = Len(l) + 1 /\ Len(l) \in Nat
  BY <1>1
<1>5. \A i \in Features : SeenIn(i, m) = IF x[i] # NaN THEN SeenIn(i, l) \cup {x[i]} ELSE SeenIn(i, l)
  BY <1>1, SeenAppend
<1>6. CASE r = Refused(s)
  BY <1>6 DEF Refused
<1>7. CASE r # Refused(s)
  <2>1. ASSUME NEW i \in Features
        PROVE  /\ \A v \in SeenIn(i, m) : IsModerate(v)
               /\ MeanHolds(MeanAt(t, i), SeenIn(i, m))
               /\ t.counts[i] <= Len(m)
               /\ t.counts[i] = 0 <=> SeenIn(i, m) = {}
    <3>1. /\ \A v \in SeenIn(i, l) : IsModerate(v)
          /\ MeanHolds(MeanAt(s, i), SeenIn(i, l))
          /\ s.counts[i] <= Len(l) /\ s.counts[i] \in Nat
          /\ s.counts[i] = 0 <=> SeenIn(i, l) = {}
      BY DEF ImputerSeen, ImputerStates
    <3> HIDE DEF r, t, m
    <3>2. CASE x[i] # NaN
      <4>1. IsModerate(x[i])
        <5>1. Len(x) = FeatureCount
          BY <1>7, <1>2 DEF r, t, MeanImputerUpdate, ImputerUpdate
        <5> QED
          BY <3>2, <5>1, FeaturesAre DEF Vectors
      <4>2. t.counts[i] = s.counts[i] + 1 /\ MeanHolds(MeanAt(t, i), SeenIn(i, m))
            /\ SeenIn(i, m) = SeenIn(i, l) \cup {x[i]}
        BY <1>2, <1>5, <1>7, <3>2
      <4> QED
        BY <1>4, <3>1, <4>1, <4>2
    <3>3. CASE x[i] = NaN
      <4>1. MeanAt(t, i) = MeanAt(s, i) /\ SeenIn(i, m) = SeenIn(i, l)
        BY <1>2, <1>5, <1>7, <3>3
      <4>2. t.counts[i] = s.counts[i]
        BY <4>1 DEF MeanAt
      <4> QED
        BY <1>4, <3>1, <4>1, <4>2
    <3> QED
      BY <3>2, <3>3
  <2> HIDE DEF r, t, m
  <2> QED
    BY <1>1, <1>2, <1>3, <1>4, <1>7, <2>1 DEF ImputerSeen
<1> QED
  BY <1>6, <1>7

-----------------------------------------------------------------------------
(* ConstantImputer and MissingIndicator count what they could transform.   *)

Passing(x, r, i) ==
    IF ~r.ok \/ x[i] = NaN THEN r
    ELSE IF ~IsFinite(x[i]) THEN Refused(r.state)
    ELSE Done(r.state)

Passed(f, s, x, n) == f = [i \in 0..n |-> IF i = 0 THEN Done(s) ELSE Passing(x, f[i - 1], i)]

LEMMA PassingExists ==
    ASSUME NEW s, NEW x, NEW n \in Nat
    PROVE  \E f : Passed(f, s, x, n)
<1> DEFINE V == {Done(s), Refused(s)}
<1>1. ASSUME NEW u \in V, NEW i \in 1..n
      PROVE  Passing(x, u, i) \in V
  <2>1. u.state = s
    BY DEF Done, Refused
  <2>2. Passing(x, u, i) \in {u, Refused(u.state), Done(u.state)}
    BY DEF Passing
  <2> QED
    BY <2>1, <2>2
<1>2. Done(s) \in V
  OBVIOUS
<1> HIDE DEF V
<1> DEFINE F == [p \in V \X (1..n) |-> Passing(x, p[1], p[2])]
<1>3. F \in [V \X (1..n) -> V] /\ \A u \in V, i \in 1..n : F[u, i] = Passing(x, u, i)
  BY <1>1
<1> HIDE DEF F
<1>4. PICK g \in [0..n -> V] : Recursion(g, Done(s), F, n)
  BY <1>2, <1>3, RecursionExists
<1>5. g = [i \in 0..n |-> IF i = 0 THEN Done(s) ELSE F[g[i - 1], i]]
  BY <1>4 DEF Recursion
<1>6. \A i \in 0..n : (IF i = 0 THEN Done(s) ELSE F[g[i - 1], i])
                        = IF i = 0 THEN Done(s) ELSE Passing(x, g[i - 1], i)
  <2> SUFFICES ASSUME NEW i \in 0..n, i # 0
               PROVE  F[g[i - 1], i] = Passing(x, g[i - 1], i)
    OBVIOUS
  <2>1. i - 1 \in 0..n /\ i \in 1..n
    OBVIOUS
  <2> QED
    BY <1>3, <1>4, <2>1
<1> QED
  BY <1>5, <1>6 DEF Passed

IsTransformable(x) == Len(x) = FeatureCount /\ \A i \in Features : IsUsable(x[i])

LEMMA CountingAccepts ==
    ASSUME NEW s, NEW x, CountingUpdate(s, x).ok
    PROVE  IsTransformable(x)
<1> DEFINE n == FeatureCount
<1> DEFINE r == CountingUpdate(s, x)
<1> DEFINE after == CHOOSE f : Passed(f, s, x, n)
<1> DEFINE taken == after[n]
<1> DEFINE v == taken.state
<1> DEFINE counted == [v EXCEPT !.samples = v.samples + 1]
<1>1. \/ r = Refused(s)
      \/ /\ Len(x) = n
         /\ r = IF ~taken.ok \/ ~CanCount(v.samples) THEN Refused(v) ELSE Done(counted)
  BY Zenon DEF CountingUpdate, ImputerUpdate, Passed, Passing
<1>2. n \in Nat /\ Features = 1..n
  BY FeaturesAre
<1>3. Passed(after, s, x, n)
  BY <1>2, PassingExists
<1> HIDE DEF after, n
<1> DEFINE Upto(k) == after[k].ok => \A i \in Features : i <= k => IsUsable(x[i])
<1> DEFINE T == {k \in Nat : k <= n => Upto(k)}
<1>4. 0 \in T
  <2>1. \A i \in Features : ~(i <= 0)
    BY <1>2
  <2> QED
    BY <2>1
<1>5. ASSUME NEW k \in T
      PROVE  k + 1 \in T
  <2> SUFFICES ASSUME k + 1 <= n, after[k + 1].ok
               PROVE  \A i \in Features : i <= k + 1 => IsUsable(x[i])
    OBVIOUS
  <2> DEFINE j == k + 1
  <2>1. k \in Nat /\ j \in Features /\ j \in 0..n /\ j # 0 /\ j - 1 = k /\ k <= n
    BY <1>2
  <2>2. after[j] = Passing(x, after[k], j)
    BY <1>3, <2>1 DEF Passed
  <2>3. Upto(k)
    BY <2>1
  <2>4. after[k].ok /\ IsUsable(x[j])
    <3> HIDE DEF j
    <3>1. after[j].ok
      BY DEF j
    <3>2. \A u : ~Refused(u).ok
      BY DEF Refused
    <3> QED
      BY <2>2, <3>1, <3>2 DEF Passing, IsUsable
  <2>5. \A i \in Features : (i <= j) <=> (i <= k \/ i = j)
    BY <1>2, <2>1
  <2> QED
    BY <2>3, <2>4, <2>5
<1>6. T = Nat
  <2>1. T \in SUBSET Nat
    OBVIOUS
  <2> HIDE DEF T
  <2> QED
    BY <1>4, <1>5, <2>1, Induction
<1>7. Upto(n)
  <2> HIDE DEF Upto
  <2>1. \A k \in Nat : k <= n => Upto(k)
    BY <1>6
  <2>2. n \in Nat /\ n <= n
    BY <1>2
  <2> QED
    BY <2>1, <2>2
<1>8. Len(x) = n /\ taken.ok
  <2>1. \A u : ~Refused(u).ok
    BY DEF Refused
  <2>2. r.ok
    OBVIOUS
  <2> HIDE DEF r, taken, counted
  <2> QED
    BY <1>1, <2>1, <2>2
<1>9. \A i \in Features : i <= n
  BY <1>2
<1> QED
  BY <1>7, <1>8, <1>9 DEF IsTransformable, n

TransformableSeen(l) == l \in Seq(Vectors) /\ \A k \in DOMAIN l : IsTransformable(l[k])

LEMMA CountingTakes ==
    ASSUME NEW s, NEW l, TransformableSeen(l), NEW x \in Vectors
    PROVE  TransformableSeen(IF CountingUpdate(s, x).ok THEN Append(l, x) ELSE l)
<1> DEFINE m == Append(l, x)
<1>1. /\ m \in Seq(Vectors) /\ DOMAIN m = (DOMAIN l) \cup {Len(l) + 1}
      /\ m[Len(l) + 1] = x /\ \A k \in DOMAIN l : m[k] = l[k]
  BY DEF TransformableSeen
<1> HIDE DEF m
<1>2. CASE CountingUpdate(s, x).ok
  <2>1. IsTransformable(x)
    BY <1>2, CountingAccepts
  <2>2. TransformableSeen(m)
    BY <1>1, <2>1 DEF TransformableSeen
  <2> QED
    BY <1>2, <2>2 DEF m
<1>3. CASE ~CountingUpdate(s, x).ok
  BY <1>3
<1> QED
  BY <1>2, <1>3

-----------------------------------------------------------------------------
(* The invariant: what each kind keeps of the log.                         *)

SparseKinds == {"ftrl", "ftrl_classifier", "ftrl_hashed"}

SamplesKept(kind, s, l) ==
    /\ kind = "min_max" => MinMaxSeen(s, l)
    /\ kind = "mean_imputer" => ImputerSeen(s, l)
    /\ kind = "forward_fill" => FillSeen(s, l)
    /\ kind = "counting" => TransformableSeen(l)
    /\ kind = "one_hot" => CategoriesSeen(s, l)
    /\ kind = "ordinal" => CategoriesSeen(s, l) /\ s.samples = Len(l)
    /\ kind = "bernoulli" => BernoulliSeen(s, l)
    /\ kind \in SparseKinds => FtrlSeen(kind, s, l)

\* Where an update that is refused leaves a part of its input behind, no call
\* runs into a limit: the count of the samples, a value that is infinite, and for
\* a mean one so large that the distance to another might be.
StreamFits(s) ==
    /\ s.kind \in {"mean_imputer", "forward_fill", "ordinal"} => s.length <= MaxCount
    /\ \A input \in s.inputs :
          /\ s.kind = "forward_fill" => \A i \in DOMAIN input : IsUsable(input[i])
          /\ s.kind = "mean_imputer" => \A i \in DOMAIN input : input[i] = NaN \/ IsModerate(input[i])

\* A refused call leaves nothing of its input behind: the object of a kind that
\* keeps something of the log keeps it of exactly the accepted samples.
SeenInv ==
    /\ stream \in Streams
    /\ stream.kind \in Models \cup Transformers => log \in Seq(stream.inputs)
    /\ StreamFits(stream) => SamplesKept(stream.kind, object, log)

LEMMA NewSamplesKept ==
    ASSUME NEW kind
    PROVE  SamplesKept(kind, New(kind), <<>>)
<1> DEFINE o == New(kind)
<1>1. kind \in Transformers => kind \notin Models /\ o = NewTransformerOf(kind)
  BY KindsApart DEF New
<1>2. kind \in Models => o = NewModel(kind)
  BY KindsApart DEF New
<1>3. CASE kind = "min_max"
  <2>1. o = NewMinMax
    BY <1>1, <1>3 DEF Transformers, NewTransformerOf
  <2>2. MinMaxSeen(NewMinMax, <<>>)
    BY DEF MinMaxSeen, NewMinMax, PerFeature
  <2> QED
    BY <1>3, <2>1, <2>2 DEF SamplesKept, SparseKinds
<1>4. CASE kind = "mean_imputer"
  <2>1. o = NewMeanImputer
    BY <1>1, <1>4 DEF Transformers, NewTransformerOf
  <2>2. \A i \in Features : MeanHolds(MeanAt(NewMeanImputer, i), {}) /\ NewMeanImputer.counts[i] = 0
    BY ZeroIsFinite DEF MeanHolds, MeanAt, NewMeanImputer, PerFeature
  <2>3. NewMeanImputer.samples = 0
    BY DEF NewMeanImputer
  <2>4. <<>> \in Seq(Vectors) /\ Len(<<>>) = 0 /\ 0 <= 0
    OBVIOUS
  <2>5. \A i : SeenIn(i, <<>>) = {}
    BY NothingSeen
  <2>6. ImputerSeen(NewMeanImputer, <<>>)
    <3> DEFINE l == <<>>
               d == NewMeanImputer
    <3>1. /\ l \in Seq(Vectors) /\ Len(l) = 0 /\ 0 <= 0 /\ \A i : SeenIn(i, l) = {}
          /\ d \in ImputerStates /\ d.samples = 0
          /\ \A i \in Features : MeanHolds(MeanAt(d, i), {}) /\ d.counts[i] = 0
      BY <2>2, <2>3, <2>4, <2>5, NewImputerHolds
    <3> HIDE DEF l, d
    <3>2. ImputerSeen(d, l)
      BY <3>1, Zenon DEF ImputerSeen
    <3> QED
      BY <3>2 DEF l, d
  <2> QED
    BY <1>4, <2>1, <2>6 DEF SamplesKept, SparseKinds
<1>5. CASE kind = "forward_fill"
  <2>1. o = NewForwardFill
    BY <1>1, <1>5 DEF Transformers, NewTransformerOf
  <2>2. NewForwardFill.samples = 0 /\ \A i \in Features : NewForwardFill.last[i] = NoValue
    BY DEF NewForwardFill, PerFeature
  <2>3. \A i \in Features : LastSeen(i, <<>>, NoValue) = NoValue
    BY NothingSeen DEF LastSeen
  <2>4. FillSeen(NewForwardFill, <<>>)
    BY <2>2, <2>3, NewFillHolds DEF FillSeen
  <2> QED
    BY <1>5, <2>1, <2>4 DEF SamplesKept, SparseKinds
<1>6. CASE kind \in {"one_hot", "ordinal"}
  <2>1. o = NewEncoder
    BY <1>1, <1>6 DEF Transformers, NewTransformerOf
  <2>2. NewEncoder.samples = 0 /\ NewEncoder.categories = <<>>
    BY DEF NewEncoder
  <2>3. ToSet(<<>>) = {} /\ UNION {ToSet(<<>>[k]) : k \in DOMAIN <<>>} = {}
    BY DEF ToSet
  <2>4. CategoriesSeen(NewEncoder, <<>>)
    BY <2>2, <2>3, NewEncoderHolds DEF CategoriesSeen
  <2> QED
    BY <1>6, <2>1, <2>2, <2>4 DEF SamplesKept, SparseKinds
<1>7. CASE kind = "bernoulli"
  <2>1. o = NewBernoulli
    BY <1>2, <1>7 DEF Models, NewModel
  <2>2. ASSUME NEW c \in BOOLEAN
        PROVE  /\ NewBernoulli.classes[c].count = 0
               /\ \A i \in Features : NewBernoulli.classes[c].on[i] = 0
    BY DEF NewBernoulli, PerClass
  <2>3. \A c, i : OfClass(c, <<>>) = {} /\ OnIn(c, i, <<>>) = {}
    BY DEF OfClass, OnIn
  <2>4. Cardinality({}) = 0
    BY FS_EmptySet
  <2>5. BernoulliSeen(NewBernoulli, <<>>)
    <3> DEFINE l == <<>>
               m == NewBernoulli
    <3>1. /\ l \in Seq(Vectors \X BOOLEAN) /\ BernoulliHolds(m)
          /\ \A c, i : OfClass(c, l) = {} /\ OnIn(c, i, l) = {}
          /\ \A c \in BOOLEAN : m.classes[c].count = 0 /\ \A i \in Features : m.classes[c].on[i] = 0
      BY <2>2, <2>3, NewBernoulliHolds
    <3> HIDE DEF l, m
    <3>2. BernoulliSeen(m, l)
      BY <3>1, <2>4, Zenon DEF BernoulliSeen
    <3> QED
      BY <3>2 DEF l, m
  <2> QED
    BY <1>7, <2>1, <2>5 DEF SamplesKept, SparseKinds
<1>8. CASE kind \in SparseKinds
  <2>1. o = NewFtrl
    BY <1>2, <1>8 DEF Models, NewModel, SparseKinds
  <2>2. DOMAIN NewFtrl.params = {}
    BY DEF NewFtrl
  <2>3. KnownAfter(kind, <<>>) = {}
    <3>1. <<>> \in Seq({1}) /\ 1 \in {1}
      OBVIOUS
    <3> QED
      BY <3>1, KnownAppend
  <2>4. FtrlSeen(kind, NewFtrl, <<>>)
    BY <2>2, <2>3, NewFtrlHolds DEF FtrlSeen
  <2> QED
    BY <1>8, <2>1, <2>4 DEF SamplesKept, SparseKinds
<1>9. CASE kind = "counting"
  BY <1>9 DEF SamplesKept, TransformableSeen, SparseKinds
<1> QED
  BY <1>3, <1>4, <1>5, <1>6, <1>7, <1>8, <1>9 DEF SamplesKept

LEMMA SeenInit == LearningInit => SeenInv
<1> SUFFICES ASSUME LearningInit
             PROVE  SeenInv
  OBVIOUS
<1>1. stream \in Streams /\ object = New(stream.kind) /\ log = <<>>
  BY DEF LearningInit
<1>2. <<>> \in Seq(stream.inputs)
  OBVIOUS
<1> QED
  BY <1>1, <1>2, NewSamplesKept DEF SeenInv

LEMMA KeptByLearning ==
    ASSUME NEW kind \in Models, NEW m, NEW S, NEW l \in Seq(S), SamplesKept(kind, m, l),
           NEW input \in S,
           kind = "bernoulli" => input \in Vectors \X BOOLEAN,
           kind \in SparseKinds => input[1] \in Seq(Int \X Floats)
    PROVE  LET r == LearnModel(kind, m, input)
           IN  SamplesKept(kind, r.state, IF r.ok THEN Append(l, input) ELSE l)
<1> DEFINE r == LearnModel(kind, m, input)
           n == IF r.ok THEN Append(l, input) ELSE l
<1> SUFFICES SamplesKept(kind, r.state, n)
  OBVIOUS
<1>1. CASE kind = "bernoulli"
  <2>1. PICK x \in Vectors, class \in BOOLEAN : input = <<x, class>>
    BY <1>1
  <2>2. input[1] = x /\ input[2] = class
    BY <2>1
  <2>3. r = BernoulliLearn(m, x, class)
    BY <1>1, <2>2 DEF LearnModel
  <2>4. BernoulliSeen(m, l)
    BY <1>1 DEF SamplesKept
  <2>5. BernoulliSeen(BernoulliLearn(m, x, class).state,
                      IF BernoulliLearn(m, x, class).ok THEN Append(l, <<x, class>>) ELSE l)
    BY <2>4, BernoulliTakes
  <2>6. BernoulliSeen(r.state, n)
    <3> HIDE DEF r
    <3> QED
      BY <2>1, <2>3, <2>5
  <2> HIDE DEF r, n
  <2> QED
    BY <1>1, <2>6 DEF SamplesKept, SparseKinds
<1>2. CASE kind \in SparseKinds
  <2>1. FtrlSeen(kind, m, l)
    BY <1>2 DEF SamplesKept
  <2>2. kind \in {"ftrl", "ftrl_classifier", "ftrl_hashed"} /\ input[1] \in Seq(Int \X Floats)
    BY <1>2 DEF SparseKinds
  <2>3. FtrlSeen(kind, r.state, n)
    BY <2>1, <2>2, FtrlKnows
  <2> HIDE DEF r, n
  <2> QED
    BY <1>2, <2>3 DEF SamplesKept, SparseKinds
<1>3. CASE kind \notin SparseKinds \cup {"bernoulli"}
  <2> HIDE DEF r, n
  <2> QED
    BY <1>3 DEF SamplesKept, Models, SparseKinds
<1> QED
  BY <1>1, <1>2, <1>3

LEMMA KeptByFitting ==
    ASSUME NEW kind \in Transformers, NEW s, NEW l, SamplesKept(kind, s, l), NEW input,
           kind \in {"mean_imputer", "forward_fill", "ordinal"} => Len(l) < MaxCount,
           kind \in {"min_max", "mean_imputer", "forward_fill", "counting"} => input \in Vectors,
           kind \in {"one_hot", "ordinal"} => input \in Seq(Int),
           kind = "forward_fill" => \A i \in DOMAIN input : IsUsable(input[i]),
           kind = "mean_imputer" => \A i \in DOMAIN input : input[i] = NaN \/ IsModerate(input[i])
    PROVE  LET r == FitTransformer(kind, s, input)
           IN  SamplesKept(kind, r.state, IF r.ok THEN Append(l, input) ELSE l)
<1> DEFINE r == FitTransformer(kind, s, input)
           n == IF r.ok THEN Append(l, input) ELSE l
<1> SUFFICES SamplesKept(kind, r.state, n)
  OBVIOUS
<1>1. CASE kind = "min_max"
  <2>1. r = MinMaxUpdate(s, input) /\ MinMaxSeen(s, l) /\ input \in Vectors
    BY <1>1 DEF FitTransformer, SamplesKept
  <2> DEFINE t == MinMaxUpdate(s, input)
  <2>2. IF t.ok THEN MinMaxSeen(t.state, Append(l, input)) ELSE t.state = s
    BY <2>1, MinMaxTakes
  <2> HIDE DEF r, t
  <2>3. MinMaxSeen(r.state, n)
    BY <2>1, <2>2 DEF t
  <2> HIDE DEF n
  <2> QED
    BY <1>1, <2>3 DEF SamplesKept, SparseKinds
<1>2. CASE kind = "mean_imputer"
  <2>1. r = MeanImputerUpdate(s, input) /\ ImputerSeen(s, l) /\ input \in Vectors /\ Len(l) < MaxCount
        /\ \A i \in DOMAIN input : input[i] = NaN \/ IsModerate(input[i])
    BY <1>2 DEF FitTransformer, SamplesKept
  <2> DEFINE t == MeanImputerUpdate(s, input)
  <2>2. ImputerSeen(t.state, IF t.ok THEN Append(l, input) ELSE l)
    BY <2>1, ImputerTakesSample
  <2> HIDE DEF r, t
  <2>3. ImputerSeen(r.state, n)
    BY <2>1, <2>2 DEF t
  <2> HIDE DEF n
  <2> QED
    BY <1>2, <2>3 DEF SamplesKept, SparseKinds
<1>3. CASE kind = "forward_fill"
  <2>1. r = ForwardFillUpdate(s, input) /\ FillSeen(s, l) /\ input \in Vectors /\ Len(l) < MaxCount
        /\ \A i \in DOMAIN input : IsUsable(input[i])
    BY <1>3 DEF FitTransformer, SamplesKept
  <2> DEFINE t == ForwardFillUpdate(s, input)
  <2>2. FillSeen(t.state, IF t.ok THEN Append(l, input) ELSE l)
    BY <2>1, FillTakes
  <2> HIDE DEF r, t
  <2>3. FillSeen(r.state, n)
    BY <2>1, <2>2 DEF t
  <2> HIDE DEF n
  <2> QED
    BY <1>3, <2>3 DEF SamplesKept, SparseKinds
<1>4. CASE kind = "counting"
  <2>1. r = CountingUpdate(s, input) /\ TransformableSeen(l) /\ input \in Vectors
    BY <1>4 DEF FitTransformer, SamplesKept
  <2> DEFINE t == CountingUpdate(s, input)
  <2>2. TransformableSeen(IF t.ok THEN Append(l, input) ELSE l)
    BY <2>1, CountingTakes
  <2> HIDE DEF r, t
  <2>3. TransformableSeen(n)
    BY <2>1, <2>2 DEF t
  <2> HIDE DEF n
  <2> QED
    BY <1>4, <2>3 DEF SamplesKept, SparseKinds
<1>5. CASE kind = "one_hot"
  <2>1. r = OneHotUpdate(s, input) /\ CategoriesSeen(s, l) /\ input \in Seq(Int)
    BY <1>5 DEF FitTransformer, SamplesKept
  <2> DEFINE t == OneHotUpdate(s, input)
  <2>2. CategoriesSeen(t.state, IF t.ok THEN Append(l, input) ELSE l)
    BY <2>1, OneHotTakes
  <2> HIDE DEF r, t
  <2>3. CategoriesSeen(r.state, n)
    BY <2>1, <2>2 DEF t
  <2> HIDE DEF n
  <2> QED
    BY <1>5, <2>3 DEF SamplesKept, SparseKinds
<1>6. CASE kind = "ordinal"
  <2>1. r = OrdinalUpdate(s, input) /\ CategoriesSeen(s, l) /\ s.samples = Len(l)
        /\ input \in Seq(Int) /\ Len(l) < MaxCount
    BY <1>6 DEF FitTransformer, SamplesKept
  <2> DEFINE t == OrdinalUpdate(s, input)
             k == IF t.ok THEN Append(l, input) ELSE l
  <2>2. CategoriesSeen(t.state, k) /\ t.state.samples = Len(k)
    BY <2>1, OrdinalTakes
  <2>3. t = r /\ k = n
    BY <2>1
  <2> HIDE DEF r, t, k, n
  <2>4. CategoriesSeen(r.state, n) /\ r.state.samples = Len(n)
    BY <2>2, <2>3
  <2> QED
    BY <1>6, <2>4 DEF SamplesKept, SparseKinds
<1>7. CASE kind \in {"scaler", "frequency"}
  <2> HIDE DEF r, n
  <2> QED
    BY <1>7 DEF SamplesKept, SparseKinds
<1> QED
  BY <1>1, <1>2, <1>3, <1>4, <1>5, <1>6, <1>7 DEF Transformers

LEMMA SeenNext == SeenInv /\ [LearningNext]_vars => SeenInv'
<1> SUFFICES ASSUME SeenInv, [LearningNext]_vars
             PROVE  SeenInv'
  OBVIOUS
<1>1. CASE vars' = vars
  <2>1. stream' = stream /\ object' = object /\ log' = log
    BY <1>1 DEF vars
  <2> QED
    BY <2>1 DEF SeenInv
<1>2. CASE LearningNext
  <2> DEFINE kind == stream.kind
  <2>1. stream' = stream /\ stream \in Streams
    BY <1>2, StepsByKind DEF SeenInv
  <2>2. CASE kind \in Models
    <3>1. Learn /\ log \in Seq(stream.inputs)
      BY <1>2, <2>2, StepsOfModels DEF SeenInv
    <3>2. PICK input \in stream.inputs : Took(LearnModel(kind, object, input), input)
      BY <3>1, Zenon DEF Learn
    <3> DEFINE r == LearnModel(kind, object, input)
               n == IF r.ok THEN Append(log, input) ELSE log
    <3>3. object' = r.state /\ log' = n
      BY <3>2 DEF Took
    <3>4. n \in Seq(stream.inputs)
      <4>1. \A S : \A l \in Seq(S), x \in S : Append(l, x) \in Seq(S)
        OBVIOUS
      <4>2. Append(log, input) \in Seq(stream.inputs)
        BY <3>1, <4>1
      <4> QED
        BY <3>1, <4>2
    <3>5. StreamFits(stream) => SamplesKept(kind, r.state, n)
      <4> SUFFICES ASSUME StreamFits(stream)
                   PROVE  SamplesKept(kind, r.state, n)
        OBVIOUS
      <4>1. SamplesKept(kind, object, log)
        BY DEF SeenInv
      <4>2. /\ kind = "bernoulli" => input \in Vectors \X BOOLEAN
            /\ kind \in SparseKinds => input[1] \in Seq(Int \X Floats)
        BY <2>1, SamplesAssumption DEF SparseKinds
      <4> HIDE DEF kind
      <4> QED
        BY <2>2, <3>1, <4>1, <4>2, KeptByLearning
    <3> HIDE DEF n, r
    <3> QED
      BY <2>1, <3>3, <3>4, <3>5 DEF SeenInv
  <2>3. CASE kind \in Transformers
    <3>1. Fit /\ log \in Seq(stream.inputs)
      BY <1>2, <2>3, StepsOfModels DEF SeenInv
    <3>2. PICK input \in stream.inputs : Took(FitTransformer(kind, object, input), input)
      BY <3>1, Zenon DEF Fit
    <3> DEFINE r == FitTransformer(kind, object, input)
               n == IF r.ok THEN Append(log, input) ELSE log
    <3>3. object' = r.state /\ log' = n
      BY <3>2 DEF Took
    <3>4. n \in Seq(stream.inputs)
      <4>1. \A S : \A l \in Seq(S), x \in S : Append(l, x) \in Seq(S)
        OBVIOUS
      <4>2. Append(log, input) \in Seq(stream.inputs)
        BY <3>1, <4>1
      <4> QED
        BY <3>1, <4>2
    <3>5. StreamFits(stream) => SamplesKept(kind, r.state, n)
      <4> SUFFICES ASSUME StreamFits(stream)
                   PROVE  SamplesKept(kind, r.state, n)
        OBVIOUS
      <4>1. SamplesKept(kind, object, log)
        BY DEF SeenInv
      <4>2. /\ kind \in {"min_max", "mean_imputer", "forward_fill", "counting"} => input \in Vectors
            /\ kind \in {"one_hot", "ordinal"} => input \in Seq(Int)
        BY <2>1, SamplesAssumption
      <4>3. Len(log) < stream.length /\ stream.length \in Nat /\ Len(log) \in Nat
        BY <2>1, <3>1, LearningAssumption DEF Fit, MayFeed
      <4>4. kind \in {"mean_imputer", "forward_fill", "ordinal"} => Len(log) < MaxCount
        BY <4>3, FormatAssumption DEF StreamFits
      <4>5. /\ kind = "forward_fill" => \A i \in DOMAIN input : IsUsable(input[i])
            /\ kind = "mean_imputer" => \A i \in DOMAIN input : input[i] = NaN \/ IsModerate(input[i])
        BY DEF StreamFits
      <4> HIDE DEF kind
      <4> QED
        BY <2>3, <4>1, <4>2, <4>4, <4>5, KeptByFitting
    <3> HIDE DEF n, r
    <3> QED
      BY <2>1, <3>3, <3>4, <3>5 DEF SeenInv
  <2>4. CASE kind \notin Models \cup Transformers
    <3>1. \A s, l : SamplesKept(kind, s, l)
      BY <2>4 DEF SamplesKept, Models, Transformers, SparseKinds
    <3> QED
      BY <2>1, <2>4, <3>1 DEF SeenInv
  <2> QED
    BY <2>2, <2>3, <2>4
<1> QED
  BY <1>1, <1>2

LEMMA SeenAlways == LearningSpec => []SeenInv
<1>1. LearningInit => SeenInv
  BY SeenInit
<1>2. SeenInv /\ [LearningNext]_vars => SeenInv'
  BY SeenNext
<1> QED
  BY <1>1, <1>2, PTL DEF LearningSpec

-----------------------------------------------------------------------------
(* What is kept is what the computation over the log yields.               *)

LEMMA ExtremesAre ==
    ASSUME NEW S \in SUBSET Int, NEW a \in S, NEW b \in S, \A v \in S : a <= v /\ v <= b
    PROVE  a = Min(S) /\ b = Max(S)
<1>1. /\ Min(S) \in S /\ \A v \in S : Min(S) <= v
      /\ Max(S) \in S /\ \A v \in S : Max(S) >= v
  BY DEF Min, Max
<1>2. {a, b, Min(S), Max(S)} \subseteq Int
  BY <1>1
<1>3. a <= Min(S) /\ Min(S) <= a /\ b >= Max(S) /\ Max(S) >= b
  BY <1>1
<1> QED
  BY <1>2, <1>3

\* The kinds whose state is a function of the log without sums of products.
SeenKinds == {"min_max", "forward_fill", "one_hot", "ordinal", "bernoulli"} \cup SparseKinds

CanAgree == stream.kind \in SeenKinds /\ StreamFits(stream)

LEMMA AgreeFollows == SeenInv /\ CanAgree => AgreesWithSamples
<1> SUFFICES ASSUME SeenInv, CanAgree, stream.exact
             PROVE  AgreesWithSamples
  BY DEF AgreesWithSamples
<1>1. SamplesKept(stream.kind, object, log) /\ stream.kind \in SeenKinds
  BY DEF SeenInv, CanAgree
<1>2. CASE stream.kind = "min_max"
  <2>1. MinMaxSeen(object, log)
    BY <1>1, <1>2 DEF SamplesKept
  <2>2. ASSUME NEW i \in Features, log # <<>>
        PROVE  object.mins[i] = Min(SeenIn(i, log)) /\ object.maxs[i] = Max(SeenIn(i, log))
    <3>1. SeenIn(i, log) \in SUBSET Int
      BY <2>1, SeenAreFinite DEF MinMaxSeen
    <3> QED
      BY <2>1, <2>2, <3>1, ExtremesAre DEF MinMaxSeen
  <2>3. \A i \in Features : MatchesFeature(i)
    BY <1>2, <2>2 DEF MatchesFeature
  <2> QED
    BY <1>2, <2>3 DEF AgreesWithSamples, Players
<1>3. CASE stream.kind = "forward_fill"
  <2>1. \A i \in Features : object.last[i] = LastSeen(i, log, NoValue)
    BY <1>1, <1>3 DEF SamplesKept, FillSeen
  <2>2. \A i \in Features : MatchesFeature(i)
    BY <1>3, <2>1 DEF MatchesFeature
  <2> QED
    BY <1>3, <2>2 DEF AgreesWithSamples, Players
<1>4. CASE stream.kind \in {"one_hot", "ordinal"}
  <2>1. CategoriesSeen(object, log)
    BY <1>1, <1>4 DEF SamplesKept
  <2>2. EncoderIsValid(object)
    BY <2>1, EncoderAccepted DEF CategoriesSeen
  <2>3. ToSet(object.categories) = Categories
    BY <2>1 DEF CategoriesSeen, Categories
  <2> QED
    BY <1>4, <2>2, <2>3 DEF AgreesWithSamples, Players
<1>5. CASE stream.kind = "bernoulli"
  <2>1. BernoulliSeen(object, log)
    BY <1>1, <1>5 DEF SamplesKept
  <2>2. \A c \in BOOLEAN : MatchesClass(c)
    BY <1>5, <2>1 DEF BernoulliSeen, MatchesClass, OnIn
  <2> QED
    BY <1>5, <2>2 DEF AgreesWithSamples, Players
<1>6. CASE stream.kind \in SparseKinds
  <2>1. DOMAIN object.params = KnownAfter(stream.kind, log)
    BY <1>1, <1>6 DEF SamplesKept, FtrlSeen
  <2> QED
    BY <1>6, <2>1 DEF AgreesWithSamples, SparseKinds, Players
<1> QED
  BY <1>1, <1>2, <1>3, <1>4, <1>5, <1>6 DEF SeenKinds, SparseKinds

\* The least and the greatest value of a scaler, the last values of ForwardFill,
\* the categories of the encoders, the counts of a Bernoulli model and the features
\* of FTRL are what a computation over all the accepted samples yields, whatever
\* was refused between them.
THEOREM SamplesAgree == LearningSpec => [](CanAgree => AgreesWithSamples)
<1>1. LearningSpec => []SeenInv
  BY SeenAlways
<1>2. SeenInv => (CanAgree => AgreesWithSamples)
  BY AgreeFollows
<1> QED
  BY <1>1, <1>2, PTL

-----------------------------------------------------------------------------
(* MinMaxScaler keeps what it has seen within the target.                  *)

LEMMA ShareIsBelowOne ==
    ASSUME NEW d \in Floats, NEW s \in Floats, IsFinite(d), IsFinite(s), 0 <= d, d <= s, 0 < s
    PROVE  FiniteFloat(FDiv(d, s)) /\ 0 <= FDiv(d, s) /\ FDiv(d, s) <= Unit
<1> DEFINE p == d * Unit
           y == ToFloat(p, s)
<1>1. d \in Int /\ s \in Nat /\ d # NaN /\ s # NaN /\ Unit \in Nat /\ Unit > 0
  BY FormatAssumption, FiniteFloats DEF IsFinite, NaN
<1>2. FDiv(d, s) = y
  BY <1>1 DEF FDiv
<1>3. Representable(0) /\ Representable(Unit) /\ IsFinite(0) /\ IsFinite(Unit)
  BY ConstantsAreFloats, FiniteFloats
<1>4. p \in Int /\ 0 * s <= p
  BY <1>1
<1>5. p <= Unit * s
  <2>1. \A u, v, w \in Nat : u <= v => u * w <= w * v
    OBVIOUS
  <2> QED
    BY <1>1, <2>1
<1> HIDE DEF p
<1>6. y \in Int /\ y <= Unit /\ y >= 0
  BY <1>1, <1>3, <1>4, <1>5, ToFloatBounds
<1>7. y \in Floats
  BY <1>1, <1>4, ToFloatIsFloat
<1>8. IsFinite(y)
  <2> HIDE DEF y
  <2> QED
    BY <1>3, <1>6, FormatAssumption DEF IsFinite
<1> QED
  BY <1>2, <1>6, <1>7, <1>8 DEF FiniteFloat

LEMMA PartIsBelowWhole ==
    ASSUME NEW q \in Floats, IsFinite(q), 0 <= q, q <= Unit, NEW m \in Floats, IsFinite(m), 0 <= m
    PROVE  FiniteFloat(FMul(q, m)) /\ 0 <= FMul(q, m) /\ FMul(q, m) <= m
<1> DEFINE p == q * m
           y == ToFloat(p, Unit)
<1>1. q \in Int /\ m \in Nat /\ Unit \in Nat /\ Unit > 0
  BY FormatAssumption, FiniteFloats
<1>2. FMul(q, m) = y
  BY DEF FMul
<1>3. Representable(0) /\ Representable(m) /\ IsFinite(0)
  BY ConstantsAreFloats, FiniteFloats
<1>4. p \in Int /\ 0 * Unit <= p
  BY <1>1
<1>5. p <= m * Unit
  <2>1. \A u, v, w \in Nat : u <= v => u * w <= w * v
    OBVIOUS
  <2> QED
    BY <1>1, <2>1
<1> HIDE DEF p
<1>6. y \in Int /\ y <= m /\ y >= 0
  BY <1>1, <1>3, <1>4, <1>5, ToFloatBounds
<1>7. y \in Floats
  BY <1>1, <1>4, ToFloatIsFloat
<1>8. IsFinite(y)
  <2> HIDE DEF y
  <2> QED
    BY <1>1, <1>3, <1>6, FormatAssumption DEF IsFinite
<1> QED
  BY <1>2, <1>6, <1>7, <1>8 DEF FiniteFloat

LEMMA HalfIsBelowWhole ==
    ASSUME NEW m \in Floats, IsFinite(m), 0 <= m
    PROVE  FiniteFloat(FDiv(m, 2 * Unit)) /\ 0 <= FDiv(m, 2 * Unit) /\ FDiv(m, 2 * Unit) <= m
<1> DEFINE s == 2 * Unit
           p == m * Unit
           y == ToFloat(p, s)
<1>1. m \in Nat /\ Unit \in Nat /\ Unit > 0
  BY FormatAssumption, FiniteFloats
<1>2. s \in Nat /\ s > 0 /\ s <= Largest /\ Largest \in Nat
  <2>1. MaxCount \in Nat /\ MaxCount >= 1 /\ 2 * MaxCount * Unit <= Largest /\ Largest \in Nat
    BY FormatAssumption
  <2>2. \A u \in Nat \ {0}, v \in Nat : 2 * v <= 2 * u * v
    OBVIOUS
  <2> QED
    BY <1>1, <2>1, <2>2
<1>3. IsFinite(s) /\ s # NaN /\ m # NaN
  BY <1>1, <1>2 DEF IsFinite, NaN
<1>4. FDiv(m, s) = y
  <2> HIDE DEF s
  <2> QED
    BY <1>1, <1>2, <1>3 DEF FDiv
<1>5. Representable(0) /\ Representable(m) /\ IsFinite(0)
  BY ConstantsAreFloats, FiniteFloats
<1>6. p \in Int /\ 0 * s <= p /\ p <= m * s
  <2>1. \A u, v \in Nat : u * v <= u * (2 * v) /\ u * v \in Nat
    OBVIOUS
  <2> QED
    BY <1>1, <2>1
<1> HIDE DEF p, s
<1>7. y \in Int /\ y <= m /\ y >= 0
  BY <1>1, <1>2, <1>5, <1>6, ToFloatBounds
<1>8. y \in Floats
  BY <1>2, <1>6, ToFloatIsFloat
<1>9. IsFinite(y)
  <2> HIDE DEF y
  <2> QED
    BY <1>1, <1>5, <1>7, FormatAssumption DEF IsFinite
<1> QED
  BY <1>4, <1>7, <1>8, <1>9 DEF FiniteFloat, s

\* The bounds of the target are so that f64 does not round their distance.
TargetIsExact ==
    FSub(TargetMax, TargetMin) = TargetMax - TargetMin /\ IsFinite(TargetMax - TargetMin)

TargetRange == FSub(TargetMax, TargetMin)

LEMMA RangeIsPositive ==
    ASSUME TargetIsExact
    PROVE  FiniteFloat(TargetRange) /\ 0 <= TargetRange
<1>1. /\ TargetMin \in Floats /\ TargetMax \in Floats /\ IsFinite(TargetMin) /\ IsFinite(TargetMax)
      /\ TargetMin < TargetMax
  BY PreprocessingAssumption
<1>2. TargetMin \in Int /\ TargetMax \in Int
  BY <1>1, FiniteFloats
<1>3. TargetRange \in Floats /\ TargetRange = TargetMax - TargetMin /\ IsFinite(TargetRange)
  BY <1>1, DifferenceIsFloat DEF TargetIsExact, TargetRange
<1> QED
  BY <1>1, <1>2, <1>3 DEF FiniteFloat

LEMMA TargetIsKept ==
    ASSUME TargetIsExact, NEW y, FiniteFloat(y), 0 <= y, y <= TargetRange
    PROVE  TargetMin <= FAdd(TargetMin, y) /\ FAdd(TargetMin, y) <= TargetMax
           /\ FAdd(TargetMin, y) \in Int
<1>1. /\ TargetMin \in Floats /\ TargetMax \in Floats /\ IsFinite(TargetMin) /\ IsFinite(TargetMax)
      /\ y \in Floats /\ IsFinite(y)
  BY PreprocessingAssumption DEF FiniteFloat
<1>2. TargetMin \in Int /\ TargetMax \in Int /\ y \in Int
  BY <1>1, FiniteFloats
<1>3. TargetRange = TargetMax - TargetMin
  BY DEF TargetIsExact, TargetRange
<1>4. TargetMin + y <= TargetMax /\ TargetMin + y >= TargetMin
  BY <1>2, <1>3
<1>5. /\ FAdd(TargetMin, y) \in Int
      /\ \A r \in Floats : IsFinite(r) =>
           (TargetMin + y <= r => FAdd(TargetMin, y) <= r)
           /\ (TargetMin + y >= r => FAdd(TargetMin, y) >= r)
  BY <1>1, SumBounds
<1>6. FAdd(TargetMin, y) >= TargetMin /\ FAdd(TargetMin, y) <= TargetMax
  BY <1>1, <1>4, <1>5
<1> QED
  BY <1>2, <1>5, <1>6

LEMMA DistanceGrows ==
    ASSUME NEW a, FiniteFloat(a), NEW x, FiniteFloat(x), NEW b, FiniteFloat(b), a <= x, x <= b,
           IsFinite(FSub(b, a))
    PROVE  FiniteFloat(FSub(x, a)) /\ 0 <= FSub(x, a) /\ FSub(x, a) <= FSub(b, a)
<1>1. a \in Int /\ x \in Int /\ b \in Int /\ a \in Floats /\ x \in Floats /\ b \in Floats
      /\ IsFinite(a) /\ IsFinite(x) /\ IsFinite(b)
  BY FiniteFloats DEF FiniteFloat
<1>2. FNeg(a) = -a /\ IsFinite(FNeg(a))
  BY <1>1, NegativeIsFloat
<1> DEFINE p == x - a
           t == b - a
<1>3. FSub(x, a) = ToFloat(p, 1) /\ FSub(b, a) = ToFloat(t, 1)
  <2>1. x + (-a) = p /\ b + (-a) = t
    BY <1>1
  <2> QED
    BY <1>1, <1>2, <2>1 DEF FSub, FAdd
<1>4. p \in Nat /\ t \in Nat /\ p <= t
  BY <1>1
<1> HIDE DEF p, t
<1>5. ToFloat(p, 1) <= ToFloat(t, 1)
  BY <1>4, RoundingGrows
<1>6. ToFloat(0, 1) <= ToFloat(p, 1)
  BY <1>4, RoundingGrows
<1>7. ToFloat(0, 1) = 0
  BY ZeroIsDivided
<1>8. FSub(x, a) \in Floats /\ FSub(b, a) \in Floats
  BY <1>1, DifferenceIsFloat
<1>9. FSub(x, a) \in Int /\ FSub(b, a) \in Int
  BY <1>8, FiniteFloats
<1>10. IsFinite(FSub(x, a))
  BY <1>3, <1>5, <1>6, <1>7, <1>9, FormatAssumption DEF IsFinite
<1> QED
  BY <1>3, <1>5, <1>6, <1>7, <1>8, <1>10 DEF FiniteFloat

LEMMA ScaledBetween ==
    ASSUME TargetIsExact, NEW a, FiniteFloat(a), NEW x, FiniteFloat(x), NEW b, FiniteFloat(b),
           a <= x, x <= b, IsFinite(FSub(b, a))
    PROVE  LET v == IF FLess(FAbs(FSub(b, a)), MachineEpsilon)
                    THEN FAdd(TargetMin, FDiv(TargetRange, 2 * Unit))
                    ELSE FAdd(TargetMin, FMul(FDiv(FSub(x, a), FSub(b, a)), TargetRange))
           IN  v \in Int /\ TargetMin <= v /\ v <= TargetMax
<1> DEFINE d == FSub(x, a)
           s == FSub(b, a)
           half == FDiv(TargetRange, 2 * Unit)
           share == FDiv(d, s)
           part == FMul(share, TargetRange)
<1>1. TargetRange \in Floats /\ IsFinite(TargetRange) /\ 0 <= TargetRange
  BY RangeIsPositive DEF FiniteFloat
<1>2. FiniteFloat(half) /\ 0 <= half /\ half <= TargetRange
  BY <1>1, HalfIsBelowWhole
<1>3. FAdd(TargetMin, half) \in Int /\ TargetMin <= FAdd(TargetMin, half)
      /\ FAdd(TargetMin, half) <= TargetMax
  <2> HIDE DEF half
  <2> QED
    BY <1>2, TargetIsKept
<1>4. ASSUME ~FLess(FAbs(s), MachineEpsilon)
      PROVE  FAdd(TargetMin, part) \in Int /\ TargetMin <= FAdd(TargetMin, part)
             /\ FAdd(TargetMin, part) <= TargetMax
  <2>1. FiniteFloat(d) /\ 0 <= d /\ d <= s
    BY DistanceGrows
  <2>2. s \in Floats /\ IsFinite(s)
    BY DifferenceIsFloat DEF FiniteFloat
  <2>3. MachineEpsilon \in Int /\ 0 < MachineEpsilon /\ MachineEpsilon # NaN
    BY PreprocessingAssumption, FormatAssumption DEF IsFinite, NaN
  <2>4. s \in Int /\ d \in Int /\ s # NaN
    BY <2>1, <2>2, FiniteFloats, FormatAssumption DEF FiniteFloat, IsFinite, NaN
  <2>5. FAbs(s) = s
    <3> HIDE DEF s, d
    <3> QED
      BY <2>1, <2>4 DEF FAbs, Magnitude
  <2>6. 0 < s
    <3> HIDE DEF s, d
    <3> QED
      BY <1>4, <2>3, <2>4, <2>5 DEF FLess
  <2> HIDE DEF s, d
  <2>7. FiniteFloat(share) /\ 0 <= share /\ share <= Unit
    BY <2>1, <2>2, <2>6, ShareIsBelowOne DEF FiniteFloat
  <2> HIDE DEF share
  <2>8. FiniteFloat(part) /\ 0 <= part /\ part <= TargetRange
    BY <1>1, <2>7, PartIsBelowWhole DEF FiniteFloat
  <2> HIDE DEF part
  <2> QED
    BY <2>8, TargetIsKept
<1> QED
  <2> HIDE DEF half, part
  <2> QED
    BY <1>3, <1>4 DEF half, part, share, d, s

\* No distance between two values is too large for f64.
ValuesAreModerate(l) == \A k \in DOMAIN l : \A i \in Features : IsModerate(l[k][i])

LEMMA ScalerKeepsTarget ==
    ASSUME TargetIsExact, MinMaxSeen(object, log), log # <<>>, ValuesAreModerate(log)
    PROVE  ScaledIntoTarget
<1>1. log \in Seq(Vectors) /\ \A k \in DOMAIN log : FeaturesAreValid(log[k]) /\ log[k] \in Vectors
  BY DEF MinMaxSeen
<1>2. ASSUME NEW i \in Features
      PROVE  /\ IsModerate(object.mins[i]) /\ IsModerate(object.maxs[i])
             /\ object.mins[i] # NoValue
             /\ \A k \in DOMAIN log : /\ FiniteFloat(log[k][i]) /\ object.mins[i] <= log[k][i]
                                      /\ log[k][i] <= object.maxs[i]
  <2>1. {object.mins[i], object.maxs[i]} \subseteq SeenIn(i, log)
        /\ \A v \in SeenIn(i, log) : object.mins[i] <= v /\ v <= object.maxs[i]
    BY DEF MinMaxSeen
  <2>2. \A v \in SeenIn(i, log) : IsModerate(v)
    BY DEF SeenIn, PresentAt, ValuesAreModerate
  <2>3. \A v \in SeenIn(i, log) : v # NoValue
    BY <1>1, SeenAreFinite
  <2>4. ASSUME NEW k \in DOMAIN log
        PROVE  FiniteFloat(log[k][i]) /\ log[k][i] \in SeenIn(i, log)
    <3>1. log[k][i] \in Floats /\ IsFinite(log[k][i])
      BY <1>1, VectorFeatures
    <3>2. log[k][i] # NaN
      BY <3>1, FiniteIsNotMissing
    <3> QED
      BY <3>1, <3>2 DEF FiniteFloat, SeenIn, PresentAt
  <2> QED
    BY <2>1, <2>2, <2>3, <2>4
<1>3. MinMaxSamples(object) = FeatureCount
  <2>1. {i \in Features : object.mins[i] # NoValue} = Features
    BY <1>2
  <2>2. FeatureCount \in Nat /\ Cardinality(1..FeatureCount) = FeatureCount
    <3>1. FeatureCount \in Nat
      BY FeatureAssumption
    <3>2. 1 \in Int /\ FeatureCount \in Int
      BY <3>1
    <3>3. Cardinality(1..FeatureCount) = IF 1 > FeatureCount THEN 0 ELSE FeatureCount - 1 + 1
      BY <3>2, FS_Interval
    <3> QED
      BY <3>1, <3>3
  <2> QED
    BY <2>1, <2>2 DEF MinMaxSamples, Features
<1>4. ASSUME NEW k \in DOMAIN log
      PROVE  LET scaled == MinMaxTransform(object, log[k])
             IN  /\ \A i \in Features : TargetMin <= scaled.values[i] /\ scaled.values[i] <= TargetMax
                 /\ ClipMin = TargetMin /\ ClipMax = TargetMax => ClipperTransform(scaled.values) = scaled
  <2> DEFINE scaled == MinMaxTransform(object, log[k])
             scale(i) == IF FLess(FAbs(FSub(object.maxs[i], object.mins[i])), MachineEpsilon)
                         THEN FAdd(TargetMin, FDiv(TargetRange, 2 * Unit))
                         ELSE FAdd(TargetMin, FMul(FDiv(FSub(log[k][i], object.mins[i]),
                                                        FSub(object.maxs[i], object.mins[i])), TargetRange))
             v == [i \in Features |-> scale(i)]
  <2>1. \A i \in Features : scale(i) \in Int /\ TargetMin <= scale(i) /\ scale(i) <= TargetMax
    <3> SUFFICES ASSUME NEW i \in Features
                 PROVE  scale(i) \in Int /\ TargetMin <= scale(i) /\ scale(i) <= TargetMax
      OBVIOUS
    <3>1. IsFinite(FSub(object.maxs[i], object.mins[i]))
      BY <1>2, ModerateDifference
    <3>2. FiniteFloat(object.mins[i]) /\ FiniteFloat(object.maxs[i])
      BY <1>2 DEF IsModerate
    <3>3. FiniteFloat(log[k][i]) /\ object.mins[i] <= log[k][i] /\ log[k][i] <= object.maxs[i]
      BY <1>2
    <3> QED
      BY <3>1, <3>2, <3>3, ScaledBetween
  <2>2. scaled = Transformed(v)
    <3>1. FeaturesAreValid(log[k])
      BY <1>1
    <3>2. \A i \in Features : object.mins[i] # NoValue
      BY <1>2
    <3> QED
      BY <3>1, <3>2, Zenon DEF MinMaxTransform, TargetRange
  <2> HIDE DEF scale
  <2>3. v \in Seq(Int) /\ Len(v) = FeatureCount /\ DOMAIN v = Features
        /\ \A i \in Features : v[i] = scale(i)
    BY <2>1, FeatureAssumption DEF Features
  <2>4. \A i \in Features : v[i] \in Int /\ TargetMin <= v[i] /\ v[i] <= TargetMax
    BY <2>1, <2>3
  <2> HIDE DEF v
  <2>5. TargetMin \in Int /\ TargetMax \in Int /\ IsFinite(TargetMin) /\ IsFinite(TargetMax)
    BY PreprocessingAssumption, FiniteFloats
  <2>6. FeaturesAreValid(v)
    BY <2>3, <2>4, <2>5, FormatAssumption DEF FeaturesAreValid, AllFinite, IsFinite
  <2>7. ASSUME ClipMin = TargetMin, ClipMax = TargetMax
        PROVE  ClipperTransform(v) = Transformed(v)
    <3>1. \A i \in Features : Lower(Higher(v[i], ClipMin), ClipMax) = v[i]
      BY <2>4, <2>5, <2>7 DEF Lower, Higher
    <3>2. [i \in Features |-> Lower(Higher(v[i], ClipMin), ClipMax)] = v
      BY <2>3, <3>1
    <3> QED
      BY <2>6, <3>2 DEF ClipperTransform
  <2>8. Transformed(v).values = v
    BY DEF Transformed
  <2> HIDE DEF scaled
  <2>9. /\ \A i \in Features : TargetMin <= scaled.values[i] /\ scaled.values[i] <= TargetMax
        /\ ClipMin = TargetMin /\ ClipMax = TargetMax => ClipperTransform(scaled.values) = scaled
    BY <2>2, <2>4, <2>7, <2>8
  <2> QED
    BY <2>9 DEF scaled
<1> QED
  BY <1>3, <1>4 DEF ScaledIntoTarget

-----------------------------------------------------------------------------
(* What the imputers fill in.                                              *)

\* A vector of missing values is one that an imputer takes.
LEMMA MissingIsUsable ==
    LET x == PerFeature(NaN)
    IN  Len(x) = FeatureCount /\ \A j \in Features : x[j] = NaN /\ IsUsable(x[j])
<1>1. FeatureCount \in Nat
  BY FeatureAssumption
<1> QED
  BY <1>1 DEF PerFeature, Features, IsUsable

LEMMA FillerKeepsLast ==
    ASSUME FillSeen(object, log)
    PROVE  FilledWithLast
<1> SUFFICES ASSUME NEW i \in Features
             PROVE  ForwardFillTransform(object, PerFeature(NaN)).values[i] = LastSeen(i, log, 0)
  BY DEF FilledWithLast
<1>1. ForwardFillTransform(object, PerFeature(NaN)).values[i]
        = IF object.last[i] = NoValue THEN 0 ELSE object.last[i]
  <2> DEFINE x == PerFeature(NaN)
  <2>1. Len(x) = FeatureCount /\ \A j \in Features : x[j] = NaN /\ IsUsable(x[j])
    BY MissingIsUsable
  <2> HIDE DEF x
  <2>2. ForwardFillTransform(object, x)
          = Transformed([j \in Features |-> IF x[j] = NaN
                                           THEN IF object.last[j] = NoValue THEN 0 ELSE object.last[j] ELSE x[j]])
    BY <2>1, Zenon DEF ForwardFillTransform, Imputed
  <2> QED
    BY <2>1, <2>2 DEF Transformed, x
<1>2. object.last[i] = LastSeen(i, log, NoValue)
  BY DEF FillSeen
<1>3. CASE PresentAt(i, log) = {}
  BY <1>1, <1>2, <1>3 DEF LastSeen
<1>4. CASE PresentAt(i, log) # {}
  <2> DEFINE P == PresentAt(i, log)
             m == Max(P)
  <2>1. P \subseteq DOMAIN log /\ \A k \in P : log[k][i] # NaN
    BY DEF PresentAt
  <2>2. m \in P
    <3>1. log \in Seq(Vectors)
      BY DEF FillSeen
    <3>2. P \subseteq 1..Len(log) /\ P # {} /\ Len(log) \in Nat
      BY <1>4, <2>1, <3>1
    <3> HIDE DEF P
    <3>3. PICK y \in P : \A z \in P : y >= z
      <4>1. P \in SUBSET (0..Len(log))
        BY <3>2
      <4> QED
        BY <3>2, <4>1, GreatestOf
    <3> QED
      BY <3>3 DEF Max
  <2>3. object.last[i] = log[m][i] /\ LastSeen(i, log, 0) = log[m][i]
    BY <1>2, <1>4 DEF LastSeen
  <2>4. log[m][i] # NoValue
    <3>1. IsUsable(log[m][i])
      BY <2>1, <2>2 DEF FillSeen
    <3> HIDE DEF m
    <3>2. IsFinite(log[m][i])
      BY <2>1, <2>2, <3>1 DEF IsUsable
    <3> QED
      BY <3>2, FiniteIsNotMissing
  <2> HIDE DEF m
  <2> QED
    BY <1>1, <2>3, <2>4
<1> QED
  BY <1>3, <1>4

LEMMA MarkedAreFilled ==
    ASSUME TransformableSeen(log)
    PROVE  FilledWhereMarked
<1> SUFFICES ASSUME NEW k \in DOMAIN log, NEW i \in Features
             PROVE  ConstantTransform(log[k]).values[i] =
                      IF IndicatorTransform(log[k]).values[2 * i] = Unit THEN FillValue ELSE log[k][i]
  BY DEF FilledWhereMarked
<1> DEFINE x == log[k]
<1>1. Len(x) = FeatureCount /\ \A j \in Features : IsUsable(x[j])
  BY DEF TransformableSeen, IsTransformable
<1> HIDE DEF x
<1>2. ConstantTransform(x).values[i] = IF x[i] = NaN THEN FillValue ELSE x[i]
  <2>1. ConstantTransform(x) = Transformed([j \in Features |-> IF x[j] = NaN THEN FillValue ELSE x[j]])
    BY <1>1, Zenon DEF ConstantTransform, Imputed
  <2> QED
    BY <2>1 DEF Transformed
<1>3. IndicatorTransform(x).values[2 * i] = IF x[i] = NaN THEN Unit ELSE 0
  <2> DEFINE marks == [j \in 1..(2 * FeatureCount) |->
                         IF j % 2 = 1 THEN x[(j + 1) \div 2]
                         ELSE IF x[(j + 1) \div 2] = NaN THEN Unit ELSE 0]
  <2>1. IndicatorTransform(x) = Transformed(marks)
    BY <1>1, Zenon DEF IndicatorTransform
  <2>2. FeatureCount \in Nat /\ i \in Nat /\ 1 <= i /\ i <= FeatureCount
    BY FeatureAssumption DEF Features
  <2>3. 2 * i \in 1..(2 * FeatureCount) /\ (2 * i) % 2 # 1 /\ (2 * i + 1) \div 2 = i
    BY <2>2
  <2>4. marks[2 * i] = IF x[i] = NaN THEN Unit ELSE 0
    BY <2>3
  <2> QED
    BY <2>1, <2>4 DEF Transformed
<1>4. Unit # 0
  BY FormatAssumption
<1> QED
  BY <1>2, <1>3, <1>4 DEF x

\* There is a least and a greatest of values that are finite.
LEMMA FiniteExtremes ==
    ASSUME NEW S, S # {}, \A v \in S : v \in Int /\ IsFinite(v)
    PROVE  /\ Min(S) \in S /\ \A v \in S : Min(S) <= v
           /\ Max(S) \in S /\ \A v \in S : v <= Max(S)
<1> DEFINE T == {v + Largest : v \in S}
           n == 2 * Largest
<1>1. Largest \in Nat
  BY FormatAssumption
<1>2. \A v \in S : v \in Int /\ -Largest <= v /\ v <= Largest
  BY <1>1 DEF IsFinite
<1>3. T \in SUBSET (0..n) /\ n \in Nat /\ T # {} /\ T \in SUBSET Nat
  BY <1>1, <1>2
<1>4. PICK u \in T : \A y \in T : u <= y
  <2> HIDE DEF T
  <2> QED
    BY <1>3, SmallestOf
<1>5. PICK w \in T : \A y \in T : w >= y
  <2> HIDE DEF T, n
  <2> QED
    BY <1>3, GreatestOf
<1>6. PICK a \in S : u = a + Largest
  BY <1>4
<1>7. PICK b \in S : w = b + Largest
  BY <1>5
<1>8. \A v \in S : a <= v /\ v <= b
  <2> SUFFICES ASSUME NEW v \in S
               PROVE  a <= v /\ v <= b
    OBVIOUS
  <2>1. u <= v + Largest /\ w >= v + Largest
    BY <1>4, <1>5
  <2> QED
    BY <1>1, <1>2, <1>6, <1>7, <2>1
<1>9. S \in SUBSET Int
  BY <1>2
<1>10. a = Min(S) /\ b = Max(S)
  BY <1>8, <1>9, ExtremesAre
<1> QED
  BY <1>8, <1>10

LEMMA MeansAreAmongSeen ==
    ASSUME ImputerSeen(object, log)
    PROVE  FilledAmongSeen
<1> SUFFICES ASSUME NEW i \in Features
             PROVE  LET filled == MeanImputerTransform(object, PerFeature(NaN)).values[i]
                        seen   == SeenIn(i, log)
                    IN  IF seen = {} THEN filled = 0 ELSE Min(seen) <= filled /\ filled <= Max(seen)
  BY DEF FilledAmongSeen
<1> DEFINE filled == MeanImputerTransform(object, PerFeature(NaN)).values[i]
           W == SeenIn(i, log)
<1>1. filled = IF object.counts[i] = 0 THEN 0 ELSE object.means[i]
  <2> DEFINE x == PerFeature(NaN)
  <2>1. Len(x) = FeatureCount /\ \A j \in Features : x[j] = NaN /\ IsUsable(x[j])
    BY MissingIsUsable
  <2> HIDE DEF x
  <2>2. MeanImputerTransform(object, x)
          = Transformed([j \in Features |-> IF x[j] = NaN
                                           THEN IF object.counts[j] = 0 THEN 0 ELSE object.means[j] ELSE x[j]])
    BY <2>1, Zenon DEF MeanImputerTransform, Imputed
  <2> QED
    BY <2>1, <2>2 DEF Transformed, x
<1>2. MeanHolds(MeanAt(object, i), W) /\ (object.counts[i] = 0 <=> W = {})
  BY DEF ImputerSeen
<1> HIDE DEF filled, W
<1>3. CASE W = {}
  BY <1>1, <1>2, <1>3 DEF filled, W
<1>4. CASE W # {}
  <2>1. object.counts[i] # 0 /\ filled = object.means[i]
    BY <1>1, <1>2, <1>4
  <2>2. MeanAt(object, i).count = object.counts[i] /\ MeanAt(object, i).mean = object.means[i]
    BY DEF MeanAt
  <2>3. \A v \in W : FiniteFloat(v)
    BY <1>2 DEF MeanHolds
  <2>4. FiniteFloat(filled) /\ Spans(filled, W)
    BY <1>2, <2>1, <2>2 DEF MeanHolds
  <2>5. PICK a \in W, b \in W : a <= filled /\ filled <= b
    BY <2>4 DEF Spans
  <2>6. \A v \in W : v \in Int /\ IsFinite(v)
    BY <2>3, FiniteIsInteger DEF FiniteFloat
  <2>7. /\ Min(W) \in W /\ Min(W) <= a
        /\ Max(W) \in W /\ b <= Max(W)
    BY <1>4, <2>6, FiniteExtremes
  <2>8. {filled, a, b, Min(W), Max(W)} \subseteq Int
    BY <2>4, <2>6, <2>7, FiniteIsInteger
  <2>9. Min(W) <= filled /\ filled <= Max(W)
    BY <2>5, <2>7, <2>8
  <2> QED
    BY <1>4, <2>9 DEF filled, W
<1> QED
  BY <1>3, <1>4

-----------------------------------------------------------------------------
(* The codes of OrdinalEncoder.                                            *)

LEMMA IndexOfCategory ==
    ASSUME NEW s \in EncoderStates, NEW c \in ToSet(s.categories)
    PROVE  /\ CategoryIndex(s, c) \in 0..Len(s.categories)
           /\ CategoryIndex(s, c) + 1 \in 1..Len(s.categories)
           /\ s.categories[CategoryIndex(s, c) + 1] = c
<1> DEFINE l == s.categories
           p == CHOOSE i \in DOMAIN l : l[i] = c
<1>1. l \in Seq(Int) /\ Len(l) \in Nat /\ DOMAIN l = 1..Len(l)
  BY DEF EncoderStates, Ascending
<1>2. p \in DOMAIN l /\ l[p] = c
  BY DEF ToSet
<1>3. CategoryIndex(s, c) = p - 1
  BY DEF CategoryIndex
<1> HIDE DEF p
<1>4. p \in 1..Len(l) /\ (p - 1) + 1 = p /\ p - 1 \in 0..Len(l)
  BY <1>1, <1>2
<1> QED
  BY <1>2, <1>3, <1>4

LEMMA CodesAscend ==
    ASSUME CategoriesSeen(object, log), CountsAreExact(Len(object.categories))
    PROVE  CodesFollowOrder
<1> SUFFICES ASSUME NEW k \in DOMAIN log, NEW i \in DOMAIN log[k], NEW j \in DOMAIN log[k]
             PROVE  LET code == OrdinalTransform(object, log[k]).values
                    IN  (code[i] < code[j]) = (log[k][i] < log[k][j])
  BY DEF CodesFollowOrder
<1> DEFINE x == log[k]
           l == object.categories
           Code(v) == OfInt(CategoryIndex(object, v))
           code == [m \in DOMAIN x |-> Code(x[m])]
<1>1. x \in Seq(Int) /\ x # <<>> /\ object \in EncoderStates /\ ToSet(x) \subseteq ToSet(l)
  BY DEF CategoriesSeen
<1>2. l \in Seq(Int) /\ \A a, b \in 1..Len(l) : a < b => l[a] < l[b]
  BY <1>1 DEF EncoderStates, Ascending
<1>3. \A m \in DOMAIN x : x[m] \in ToSet(l) /\ x[m] \in Int
  <2> SUFFICES ASSUME NEW m \in DOMAIN x
               PROVE  x[m] \in ToSet(l) /\ x[m] \in Int
    OBVIOUS
  <2>1. x[m] \in ToSet(x)
    BY DEF ToSet
  <2> QED
    BY <1>1, <2>1
<1>4. OrdinalTransform(object, x).values = code
  <2>1. l # <<>>
    <3>1. x[i] \in ToSet(l)
      BY <1>3
    <3>2. ToSet(<<>>) = {}
      BY DEF ToSet
    <3> QED
      BY <3>1, <3>2
  <2> HIDE DEF x
  <2>2. OrdinalTransform(object, x) = Transformed(code)
    BY <1>1, <2>1, Zenon DEF OrdinalTransform, Encoded
  <2> QED
    BY <2>2 DEF Transformed
<1>5. code[i] = Code(x[i]) /\ code[j] = Code(x[j])
  OBVIOUS
<1> DEFINE p == CategoryIndex(object, x[i])
           q == CategoryIndex(object, x[j])
<1>6. p \in 0..Len(l) /\ p + 1 \in 1..Len(l) /\ l[p + 1] = x[i]
  BY <1>1, <1>3, IndexOfCategory
<1>7. q \in 0..Len(l) /\ q + 1 \in 1..Len(l) /\ l[q + 1] = x[j]
  BY <1>1, <1>3, IndexOfCategory
<1>8. Code(x[i]) = p * Unit /\ Code(x[j]) = q * Unit
  BY <1>6, <1>7 DEF CountsAreExact
<1> HIDE DEF p, q, code, x, l
<1>9. p \in Int /\ q \in Int /\ x[i] \in Int /\ x[j] \in Int /\ Unit \in Nat /\ Unit > 0
  BY <1>3, <1>6, <1>7, FormatAssumption DEF x
<1>10. (p * Unit < q * Unit) <=> (p < q)
  <2>1. \A a, b \in Int, u \in Nat : u > 0 => ((a * u < b * u) <=> (a < b))
    <3> SUFFICES ASSUME NEW a \in Int, NEW b \in Int, NEW u \in Nat, u > 0
                 PROVE  (a * u < b * u) <=> (a < b)
      OBVIOUS
    <3>1. a < b => (b - a) * u > 0
      OBVIOUS
    <3>2. a >= b => (a - b) * u >= 0
      OBVIOUS
    <3>3. (b - a) * u = b * u - a * u /\ (a - b) * u = a * u - b * u /\ a * u \in Int /\ b * u \in Int
      OBVIOUS
    <3> QED
      BY <3>1, <3>2, <3>3
  <2> QED
    BY <1>9, <2>1
<1>11. (p < q) <=> (x[i] < x[j])
  <2>1. p < q => x[i] < x[j]
    BY <1>2, <1>6, <1>7, <1>9
  <2>2. q < p => x[j] < x[i]
    BY <1>2, <1>6, <1>7, <1>9
  <2>3. p = q => x[i] = x[j]
    BY <1>6, <1>7
  <2> QED
    BY <1>9, <2>1, <2>2, <2>3
<1>12. (code[i] < code[j]) <=> (x[i] < x[j])
  BY <1>5, <1>8, <1>10, <1>11
<1> QED
  BY <1>4, <1>12 DEF x

-----------------------------------------------------------------------------
(* What is made of the values that were seen.                              *)

\* As StreamFits; for the scaler also that no distance between two values is
\* infinite and that the target's is not rounded, for the codes that they are
\* not (which is so below 2^53).
RangeFits ==
    /\ StreamFits(stream)
    /\ stream.kind \in {"min_max", "mean_imputer", "forward_fill", "counting", "ordinal"}
    /\ stream.kind = "min_max" =>
         /\ TargetIsExact
         /\ \A input \in stream.inputs : \A i \in DOMAIN input :
               IsFinite(input[i]) => IsModerate(input[i])
    /\ stream.kind = "ordinal" => CountsAreExact(Len(object.categories))

LEMMA RangeFollows == SeenInv /\ RangeFits => SeenValuesStayInRange
<1> SUFFICES ASSUME SeenInv, RangeFits, log # <<>>
             PROVE  SeenValuesStayInRange
  BY DEF SeenValuesStayInRange
<1>1. SamplesKept(stream.kind, object, log)
  BY DEF SeenInv, RangeFits
<1>2. stream.kind \in Transformers
  BY DEF RangeFits, Transformers
<1>3. log \in Seq(stream.inputs)
  BY <1>2 DEF SeenInv
<1>4. \A k \in DOMAIN log : log[k] \in stream.inputs
  BY <1>3
<1>5. CASE stream.kind = "min_max"
  <2>1. MinMaxSeen(object, log) /\ TargetIsExact
    BY <1>1, <1>5 DEF SamplesKept, RangeFits
  <2>2. ValuesAreModerate(log)
    <3> SUFFICES ASSUME NEW k \in DOMAIN log, NEW i \in Features
                 PROVE  IsModerate(log[k][i])
      BY DEF ValuesAreModerate
    <3>1. log[k] \in Vectors /\ FeaturesAreValid(log[k])
      BY <2>1 DEF MinMaxSeen
    <3>2. IsFinite(log[k][i])
      BY <3>1, VectorFeatures
    <3>3. i \in DOMAIN log[k]
      BY <3>1 DEF FeaturesAreValid, Features, Vectors
    <3> QED
      BY <1>4, <1>5, <3>2, <3>3 DEF RangeFits
  <2>3. ScaledIntoTarget
    BY <2>1, <2>2, ScalerKeepsTarget
  <2> QED
    BY <1>5, <2>3 DEF SeenValuesStayInRange
<1>6. CASE stream.kind = "mean_imputer"
  <2>1. FilledAmongSeen
    BY <1>1, <1>6, MeansAreAmongSeen DEF SamplesKept
  <2> QED
    BY <1>6, <2>1 DEF SeenValuesStayInRange
<1>7. CASE stream.kind = "forward_fill"
  <2>1. FilledWithLast
    BY <1>1, <1>7, FillerKeepsLast DEF SamplesKept
  <2> QED
    BY <1>7, <2>1 DEF SeenValuesStayInRange
<1>8. CASE stream.kind = "counting"
  <2>1. FilledWhereMarked
    BY <1>1, <1>8, MarkedAreFilled DEF SamplesKept
  <2> QED
    BY <1>8, <2>1 DEF SeenValuesStayInRange
<1>9. CASE stream.kind = "ordinal"
  <2>1. CodesFollowOrder
    BY <1>1, <1>9, CodesAscend DEF SamplesKept, RangeFits
  <2> QED
    BY <1>9, <2>1 DEF SeenValuesStayInRange
<1> QED
  BY <1>5, <1>6, <1>7, <1>8, <1>9 DEF RangeFits

\* MinMaxScaler keeps every value it has seen within the target and Clipper agrees,
\* MeanImputer fills in a value between the least and the greatest it has seen,
\* ForwardFill the last one, what ConstantImputer fills in is what MissingIndicator
\* marks, and the codes of OrdinalEncoder follow the order of the categories.
THEOREM RangesAreKept == LearningSpec => [](RangeFits => SeenValuesStayInRange)
<1>1. LearningSpec => []SeenInv
  BY SeenAlways
<1>2. SeenInv => (RangeFits => SeenValuesStayInRange)
  BY RangeFollows
<1> QED
  BY <1>1, <1>2, PTL
=============================================================================
