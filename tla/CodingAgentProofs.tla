-------------------------- MODULE CodingAgentProofs --------------------------
(***************************************************************************)
(* Theorems about two parts of the coding agent: AgentSession, for any     *)
(* number of callers, messages, failures, compactions and retries; and     *)
(* Settings, for any number of processes, files and paths.                 *)
(*                                                                         *)
(* Of AgentSession: every safety property that its run checks, until a     *)
(* prompt begins in the preflight of another.  The invariant Control says  *)
(* who drives the agent and what may stand where; Kept counts each message *)
(* over all places, and Agree compares the context with the session.  What *)
(* is left of Control when prompts overlap, Drives, is enough for          *)
(* IdleIsIdle.                                                             *)
(***************************************************************************)
EXTENDS AgentSession, Settings, FiniteSetTheorems, SequenceTheorems, WellFoundedInduction,
        NaturalsInduction, TLAPS

(* Sequences: the members of some kinds of a sequence, in their order.     *)
\* A set of numbers that has members has a least one.
LEMMA LeastNumber ==
  ASSUME NEW T, T \subseteq Nat, T # {}
  PROVE  \E m \in T : \A n \in T : m <= n
<1>1. IsWellFoundedOn(OpToRel(<, Nat), Nat)
  BY NatLessThanWellFounded
<1>2. \E x \in T : \A y \in T : ~ (<<y, x>> \in OpToRel(<, Nat))
  BY <1>1, WFMin
<1>3. PICK m \in T : \A y \in T : ~ (<<y, m>> \in OpToRel(<, Nat))
  BY <1>2
<1>4. ASSUME NEW n \in T PROVE m <= n
  <2>1. ~ (n < m) BY <1>3 DEF OpToRel
  <2> QED BY <2>1
<1> QED BY <1>4

\* Induction up to a bound, over a set of numbers.
LEMMA CountingUp ==
  ASSUME NEW N \in Nat, NEW T, 0 \in T, \A n \in 0..N : n \in T /\ n < N => n + 1 \in T
  PROVE  0..N \subseteq T
<1> DEFINE Missed == {n \in 0..N : n \notin T}
<1>1. ASSUME Missed # {} PROVE FALSE
  <2>1. PICK m \in Missed : \A n \in Missed : m <= n
    BY <1>1, LeastNumber, Missed \subseteq Nat
  <2>2. m # 0 /\ m \in 0..N
    BY <2>1
  <2>3. m - 1 \in 0..N /\ m - 1 < N /\ m - 1 + 1 = m
    BY <2>2
  <2>4. m - 1 \in T
    BY <2>1, <2>3
  <2> QED BY <2>1, <2>3, <2>4
<1> QED BY <1>1

-----------------------------------------------------------------------------
\* What Picked computes at k from what it has at k - 1.
Pick(kinds, s, f, k) ==
  IF k = 0 THEN <<>> ELSE IF s[k].kind \in kinds THEN Append(f[k - 1], s[k]) ELSE f[k - 1]

\* There is such a function: it is built up from its first members.
LEMMA PickedExists ==
  ASSUME NEW kinds, NEW s, NEW N \in Nat
  PROVE  \E f : f = [k \in 0..N |-> Pick(kinds, s, f, k)]
<1> DEFINE T == {n \in Nat : \E f : f = [k \in 0..n |-> Pick(kinds, s, f, k)]}
<1>1. 0 \in T
  <2> DEFINE g == [k \in 0..0 |-> <<>>]
  <2>1. g = [k \in 0..0 |-> Pick(kinds, s, g, k)]
    BY DEF Pick
  <2> QED BY <2>1
<1>2. ASSUME NEW n \in 0..N, n \in T, n < N PROVE n + 1 \in T
  <2>1. PICK f : f = [k \in 0..n |-> Pick(kinds, s, f, k)]
    BY <1>2
  <2> DEFINE g == [k \in 0..(n + 1) |-> IF k = n + 1 THEN Pick(kinds, s, f, k) ELSE f[k]]
  <2>2. ASSUME NEW k \in 0..(n + 1) PROVE g[k] = Pick(kinds, s, g, k)
    <3>1. CASE k = 0
      BY <3>1, <2>1, n \in Nat DEF Pick
    <3>2. CASE k # 0
      <4>1. k - 1 \in 0..(n + 1) /\ k - 1 # n + 1 /\ k - 1 \in 0..n
        BY <3>2, n \in Nat
      <4>2. g[k - 1] = f[k - 1]
        BY <4>1
      <4>3. Pick(kinds, s, g, k) = Pick(kinds, s, f, k)
        <5> HIDE DEF g
        <5> QED BY <4>2, <3>2 DEF Pick
      <4>4. CASE k = n + 1
        BY <4>4, <4>3
      <4>5. CASE k # n + 1
        <5>1. k \in 0..n BY <4>5, n \in Nat
        <5>2. g[k] = f[k] BY <4>5
        <5>3. f[k] = Pick(kinds, s, f, k)
          <6> HIDE DEF g
          <6> QED BY <5>1, <2>1
        <5> QED BY <4>3, <5>2, <5>3
      <4> QED BY <4>4, <4>5
    <3> QED BY <3>1, <3>2
  <2>3. g = [k \in 0..(n + 1) |-> g[k]]
    OBVIOUS
  <2>4. g = [k \in 0..(n + 1) |-> Pick(kinds, s, g, k)]
    <3> HIDE DEF g
    <3> QED BY <2>2, <2>3
  <2>5. n + 1 \in Nat
    BY n \in 0..N
  <2> HIDE DEF g
  <2> QED BY <2>4, <2>5
<1>3. 0..N \subseteq T
  <2> HIDE DEF T
  <2> QED BY <1>1, <1>2, CountingUp
<1> QED BY <1>3

\* What Picked computes, step by step.
LEMMA PickedStep ==
  ASSUME NEW kinds, NEW s, Len(s) \in Nat
  PROVE  /\ Picked(kinds, s)[0] = <<>>
         /\ \A k \in 1..Len(s) :
              Picked(kinds, s)[k] =
                IF s[k].kind \in kinds THEN Append(Picked(kinds, s)[k - 1], s[k])
                ELSE Picked(kinds, s)[k - 1]
<1>1. \E f : f = [k \in 0..Len(s) |-> IF k = 0 THEN <<>>
                   ELSE IF s[k].kind \in kinds THEN Append(f[k - 1], s[k]) ELSE f[k - 1]]
  <2>1. PICK f : f = [k \in 0..Len(s) |-> Pick(kinds, s, f, k)]
    BY PickedExists
  <2> QED BY <2>1 DEF Pick
<1> DEFINE of[k \in 0..Len(s)] ==
        IF k = 0 THEN <<>>
        ELSE IF s[k].kind \in kinds THEN Append(of[k - 1], s[k]) ELSE of[k - 1]
<1>2. Picked(kinds, s) = of
  BY DEF Picked
<1>3. of = [k \in 0..Len(s) |-> IF k = 0 THEN <<>>
        ELSE IF s[k].kind \in kinds THEN Append(of[k - 1], s[k])
        ELSE of[k - 1]]
  BY <1>1
<1> HIDE DEF of
<1>4. ASSUME NEW k \in 1..Len(s) PROVE k \in 0..Len(s) /\ k # 0
  OBVIOUS
<1>5. 0 \in 0..Len(s)
  OBVIOUS
<1>6. of[0] = <<>>
  BY <1>3, <1>5
<1>7. ASSUME NEW k \in 1..Len(s) PROVE of[k] = IF s[k].kind \in kinds THEN Append(of[k - 1], s[k]) ELSE of[k - 1]
  BY <1>3, <1>4
<1> QED BY <1>2, <1>6, <1>7

LEMMA PickedNext ==
  ASSUME NEW kinds, NEW s, NEW n \in Nat, Len(s) \in Nat, n < Len(s)
  PROVE  Picked(kinds, s)[n + 1] =
           IF s[n + 1].kind \in kinds THEN Append(Picked(kinds, s)[n], s[n + 1])
           ELSE Picked(kinds, s)[n]
<1> DEFINE k == n + 1
<1>1. k \in 1..Len(s) /\ k - 1 = n
  OBVIOUS
<1> HIDE DEF k
<1>2. Picked(kinds, s)[k] = IF s[k].kind \in kinds THEN Append(Picked(kinds, s)[k - 1], s[k])
                            ELSE Picked(kinds, s)[k - 1]
  BY <1>1, PickedStep
<1>3. Picked(kinds, s)[k] = IF s[k].kind \in kinds THEN Append(Picked(kinds, s)[n], s[k])
                            ELSE Picked(kinds, s)[n]
  BY <1>1, <1>2
<1> QED BY <1>3 DEF k

LEMMA PickedType ==
  ASSUME NEW kinds, NEW S, NEW s \in Seq(S)
  PROVE  \A k \in 0..Len(s) : Picked(kinds, s)[k] \in Seq({m \in S : m.kind \in kinds})
<1> DEFINE R == {m \in S : m.kind \in kinds}
           T == {k \in Nat : Picked(kinds, s)[k] \in Seq(R)}
<1>0. Len(s) \in Nat /\ \A k \in 1..Len(s) : s[k] \in S
  OBVIOUS
<1>1. 0 \in T
  <2>1. <<>> \in Seq(R) BY EmptySeq
  <2>2. Picked(kinds, s)[0] = <<>> BY <1>0, PickedStep
  <2> QED BY <2>1, <2>2
<1>2. ASSUME NEW n \in 0..Len(s), n \in T, n < Len(s) PROVE n + 1 \in T
  <2>1. n + 1 \in 1..Len(s) /\ (n + 1) - 1 = n /\ n + 1 \in Nat
    BY <1>0, <1>2
  <2>2. Picked(kinds, s)[n + 1] = IF s[n + 1].kind \in kinds THEN Append(Picked(kinds, s)[n], s[n + 1])
                                  ELSE Picked(kinds, s)[n]
    BY <1>0, <2>1, PickedStep
  <2>3. Picked(kinds, s)[n] \in Seq(R)
    BY <1>2
  <2>4. s[n + 1].kind \in kinds => Append(Picked(kinds, s)[n], s[n + 1]) \in Seq(R)
    <3>1. s[n + 1].kind \in kinds => s[n + 1] \in R BY <1>0, <2>1
    <3> HIDE DEF R
    <3> QED BY <2>3, <3>1, AppendProperties
  <2> QED BY <2>1, <2>2, <2>3, <2>4
<1>3. 0..Len(s) \subseteq T
  <2> HIDE DEF T
  <2> QED BY <1>0, <1>1, <1>2, CountingUp
<1> QED BY <1>3

\* Of returns messages of s, of these kinds.
LEMMA OfType ==
  ASSUME NEW kinds, NEW S, NEW s \in Seq(S)
  PROVE  Of(kinds, s) \in Seq({m \in S : m.kind \in kinds})
BY PickedType, Len(s) \in 0..Len(s) DEF Of

\* Nothing is picked from nothing.
LEMMA OfEmpty ==
  ASSUME NEW kinds
  PROVE  Of(kinds, <<>>) = <<>>
<1>1. Len(<<>>) = 0 OBVIOUS
<1> QED BY <1>1, PickedStep, 0 \in Nat DEF Of

\* Of a concatenation is the concatenation.
LEMMA OfConcat ==
  ASSUME NEW kinds, NEW S, NEW s \in Seq(S), NEW t \in Seq(S)
  PROVE  Of(kinds, s \o t) = Of(kinds, s) \o Of(kinds, t)
<1> DEFINE u == s \o t
           P(v, k) == Picked(kinds, v)[k]
           T1 == {k \in Nat : P(u, k) = P(s, k)}
           T2 == {k \in Nat : P(u, Len(s) + k) = Of(kinds, s) \o P(t, k)}
<1>a. u \in Seq(S) /\ Len(u) = Len(s) + Len(t)
  BY ConcatProperties
<1>b. \A k \in 1..Len(s) : u[k] = s[k]
  BY ConcatProperties
<1>c. \A k \in 1..Len(t) : u[Len(s) + k] = t[k]
  BY ConcatProperties
<1> HIDE DEF u
<1>0. /\ Len(s) \in Nat /\ Len(t) \in Nat /\ u \in Seq(S) /\ Len(u) \in Nat /\ Len(u) = Len(s) + Len(t)
      /\ \A k \in 1..Len(s) : u[k] = s[k]
      /\ \A k \in 1..Len(t) : u[Len(s) + k] = t[k] /\ t[k] \in S
  BY <1>a, <1>b, <1>c
<1>1. 0 \in T1
  BY <1>0, PickedStep
<1>2. ASSUME NEW n \in 0..Len(s), n \in T1, n < Len(s) PROVE n + 1 \in T1
  <2>1. n + 1 \in 1..Len(s) /\ n + 1 \in 1..Len(u) /\ (n + 1) - 1 = n
    BY <1>0, <1>2
  <2>2a. Len(u) \in Nat /\ n \in Nat /\ n < Len(u)
    BY <1>0, <2>1
  <2>2. P(u, n + 1) = IF u[n + 1].kind \in kinds THEN Append(P(u, n), u[n + 1]) ELSE P(u, n)
    BY ONLY <2>2a, PickedNext
  <2>3. P(s, n + 1) = IF s[n + 1].kind \in kinds THEN Append(P(s, n), s[n + 1]) ELSE P(s, n)
    BY <1>0, <2>1, PickedStep
  <2> QED BY <1>0, <1>2, <2>1, <2>2, <2>3
<1>3. P(u, Len(s)) = Of(kinds, s)
  <2>1. 0..Len(s) \subseteq T1
    <3> HIDE DEF T1
    <3> QED BY <1>0, <1>1, <1>2, CountingUp
  <2> QED BY <1>0, <2>1 DEF Of
<1>4. Of(kinds, s) \in Seq(S)
  <2>1. {m \in S : m.kind \in kinds} \subseteq S OBVIOUS
  <2> QED BY OfType, <2>1, SeqMonotonic
<1>5. 0 \in T2
  <2>1. P(t, 0) = <<>> BY <1>0, PickedStep
  <2>2. Of(kinds, s) \o <<>> = Of(kinds, s) BY <1>4, ConcatEmptySeq
  <2>3. Len(s) + 0 = Len(s) BY <1>0
  <2> QED BY <2>1, <2>2, <2>3, <1>3
<1>6. ASSUME NEW n \in 0..Len(t), n \in T2, n < Len(t) PROVE n + 1 \in T2
  <2>1. /\ n + 1 \in 1..Len(t) /\ Len(s) + (n + 1) \in 1..Len(u)
        /\ (n + 1) - 1 = n /\ (Len(s) + (n + 1)) - 1 = Len(s) + n /\ n \in 0..Len(t)
    BY <1>0, <1>6
  <2>2. P(u, Len(s) + (n + 1)) = IF u[Len(s) + (n + 1)].kind \in kinds
          THEN Append(P(u, Len(s) + n), u[Len(s) + (n + 1)]) ELSE P(u, Len(s) + n)
    <3> DEFINE k == Len(s) + n
    <3>1. Len(u) \in Nat /\ k \in Nat /\ k < Len(u) /\ k + 1 = Len(s) + (n + 1)
      BY <1>0, <2>1
    <3> HIDE DEF k
    <3>2. P(u, k + 1) = IF u[k + 1].kind \in kinds THEN Append(P(u, k), u[k + 1]) ELSE P(u, k)
      BY ONLY <3>1, PickedNext
    <3>3. P(u, Len(s) + (n + 1)) = IF u[Len(s) + (n + 1)].kind \in kinds
            THEN Append(P(u, k), u[Len(s) + (n + 1)]) ELSE P(u, k)
      BY <3>1, <3>2
    <3> QED BY <3>3 DEF k
  <2>3. P(t, n + 1) = IF t[n + 1].kind \in kinds THEN Append(P(t, n), t[n + 1]) ELSE P(t, n)
    BY <1>0, <2>1, PickedStep
  <2>4. P(t, n) \in Seq(S)
    <3>1. {m \in S : m.kind \in kinds} \subseteq S OBVIOUS
    <3> QED BY PickedType, <2>1, <3>1, SeqMonotonic
  <2>5. t[n + 1] \in S /\ u[Len(s) + (n + 1)] = t[n + 1]
    BY <1>0, <2>1
  <2>6. Append(Of(kinds, s) \o P(t, n), t[n + 1]) = Of(kinds, s) \o Append(P(t, n), t[n + 1])
    <3> DEFINE a == Of(kinds, s)
               b == P(t, n)
               m == t[n + 1]
    <3>1. a \in Seq(S)
      BY <1>4
    <3>2. b \in Seq(S)
      BY <2>4
    <3>3. m \in S
      BY <2>5
    <3> HIDE DEF a, b, m
    <3>4. <<m>> \in Seq(S)
      BY ONLY <3>3
    <3>5. Append(b, m) = b \o <<m>>
      BY ONLY <3>2, <3>3, AppendIsConcat
    <3>6. a \o b \in Seq(S)
      BY ONLY <3>1, <3>2
    <3>7. Append(a \o b, m) = (a \o b) \o <<m>>
      BY ONLY <3>3, <3>6, AppendIsConcat
    <3>8. (a \o b) \o <<m>> = a \o (b \o <<m>>)
      BY ONLY <3>1, <3>2, <3>4, ConcatAssociative
    <3> QED BY ONLY <3>5, <3>7, <3>8 DEF a, b, m
  <2>7. P(u, Len(s) + n) = Of(kinds, s) \o P(t, n)
    BY <1>6
  <2>8. n + 1 \in Nat
    BY <2>1
  <2> QED BY <2>2, <2>3, <2>5, <2>6, <2>7, <2>8
<1>7. 0..Len(t) \subseteq T2
  <2> HIDE DEF T2
  <2> QED BY <1>0, <1>5, <1>6, CountingUp
<1>8. P(u, Len(u)) = Of(kinds, s) \o P(t, Len(t))
  <2>1. Len(t) \in T2
    <3> HIDE DEF T2
    <3> QED BY <1>0, <1>7
  <2>2. P(u, Len(s) + Len(t)) = Of(kinds, s) \o P(t, Len(t))
    BY <2>1
  <2> QED BY ONLY <1>0, <2>2
<1> QED BY <1>8 DEF Of, u

LEMMA OfOne ==
  ASSUME NEW kinds, NEW m
  PROVE  Of(kinds, <<m>>) = IF m.kind \in kinds THEN <<m>> ELSE <<>>
<1> DEFINE s == <<m>>
<1>1. Len(s) = 1 /\ Len(s) \in Nat /\ s[1] = m /\ Append(<<>>, m) = s
  OBVIOUS
<1> HIDE DEF s
<1>2. Picked(kinds, s)[0] = <<>> /\ 1 - 1 = 0 /\ 1 \in 1..Len(s)
  BY <1>1, PickedStep
<1>3. Picked(kinds, s)[1] = IF s[1].kind \in kinds THEN Append(Picked(kinds, s)[1 - 1], s[1]) ELSE Picked(kinds, s)[1 - 1]
  BY <1>1, <1>2, PickedStep
<1>4. Of(kinds, s) = IF m.kind \in kinds THEN s ELSE <<>>
  BY <1>1, <1>2, <1>3 DEF Of
<1> QED BY <1>4 DEF s

\* The next member is picked or left out.
LEMMA OfAppend ==
  ASSUME NEW kinds, NEW S, NEW s \in Seq(S), NEW m \in S
  PROVE  Of(kinds, Append(s, m)) = IF m.kind \in kinds THEN Append(Of(kinds, s), m) ELSE Of(kinds, s)
<1>1. Append(s, m) = s \o <<m>> /\ <<m>> \in Seq(S)
  BY AppendIsConcat
<1>2. Of(kinds, s) \in Seq(S)
  <2>1. {x \in S : x.kind \in kinds} \subseteq S OBVIOUS
  <2> QED BY OfType, <2>1, SeqMonotonic
<1>3. Of(kinds, s) \o <<m>> = Append(Of(kinds, s), m) /\ Of(kinds, s) \o <<>> = Of(kinds, s)
  BY <1>2, AppendIsConcat, ConcatEmptySeq
<1>4. Of(kinds, s \o <<m>>) = Of(kinds, s) \o Of(kinds, <<m>>)
  BY <1>1, OfConcat
<1> QED BY <1>1, <1>3, <1>4, OfOne

\* All messages of these kinds, and no other.
LEMMA OfElements ==
  ASSUME NEW kinds, NEW S, NEW s \in Seq(S)
  PROVE  ToSet(Of(kinds, s)) = {m \in ToSet(s) : m.kind \in kinds}
<1> DEFINE T == {k \in Nat : ToSet(Picked(kinds, s)[k]) = {s[i] : i \in {j \in 1..k : s[j].kind \in kinds}}}
<1>0. Len(s) \in Nat /\ \A k \in 1..Len(s) : s[k] \in S
  OBVIOUS
<1>1. 0 \in T
  BY <1>0, PickedStep DEF ToSet
<1>2. ASSUME NEW n \in 0..Len(s), n \in T, n < Len(s) PROVE n + 1 \in T
  <2> DEFINE p == Picked(kinds, s)[n]
             m == s[n + 1]
             E == {s[i] : i \in {j \in 1..n : s[j].kind \in kinds}}
             F == {s[i] : i \in {j \in 1..(n + 1) : s[j].kind \in kinds}}
  <2>1. n + 1 \in 1..Len(s) /\ (n + 1) - 1 = n /\ m \in S /\ n \in Nat
    BY <1>0, <1>2
  <2>2. Picked(kinds, s)[n + 1] = IF m.kind \in kinds THEN Append(p, m) ELSE p
    BY <1>0, <2>1, PickedStep
  <2>3. p \in Seq(S)
    <3>1. {x \in S : x.kind \in kinds} \subseteq S OBVIOUS
    <3> QED BY PickedType, <2>1, <3>1, SeqMonotonic
  <2>4. F = E \cup (IF m.kind \in kinds THEN {m} ELSE {})
    <3>1. \A j : j \in 1..(n + 1) <=> j \in 1..n \/ j = n + 1 BY <2>1
    <3> QED BY <3>1
  <2>5. ToSet(Append(p, m)) = ToSet(p) \cup {m}
    <3> HIDE DEF p, m
    <3>1. /\ Len(p) \in Nat /\ DOMAIN p = 1..Len(p) /\ DOMAIN Append(p, m) = 1..(Len(p) + 1)
          /\ Append(p, m)[Len(p) + 1] = m /\ \A i \in 1..Len(p) : Append(p, m)[i] = p[i]
      BY <2>1, <2>3, AppendProperties
    <3>2. \A i : i \in 1..(Len(p) + 1) <=> i \in 1..Len(p) \/ i = Len(p) + 1
      BY <3>1
    <3> QED BY <3>1, <3>2 DEF ToSet
  <2>6. ToSet(p) = E
    BY <1>2
  <2> HIDE DEF p, m, E
  <2>7. ToSet(Picked(kinds, s)[n + 1]) = F
    BY <2>2, <2>4, <2>5, <2>6
  <2> QED BY <2>1, <2>7
<1>3. 0..Len(s) \subseteq T
  <2> HIDE DEF T
  <2> QED BY <1>0, <1>1, <1>2, CountingUp
<1>4. Len(s) \in T
  <2> HIDE DEF T
  <2> QED BY <1>0, <1>3
<1>5. DOMAIN s = 1..Len(s)
  OBVIOUS
<1> QED BY <1>4, <1>5 DEF Of, ToSet

-----------------------------------------------------------------------------
(* Who drives the session.  Control is the inductive invariant that all    *)
(* theorems about AgentSession rest on.                                     *)

\* Every prompt that was accepted found none that had still to start its run, and
\* compactions by hand found none either.
Apart == overlap = "none"

\* A message of a client that was sent.
ClientMessage == [kind : Client, n : 1..sent]

\* Something stands in ms besides replies.
Grounded(ms) == \E k \in DOMAIN ms : ms[k].kind \notin Reply

\* What is where: messages of clients wait, and are not summaries.
Kinds ==
  /\ {steering, followUp, nextTurn, bash, hand} \subseteq Seq(ClientMessage)
  /\ \A k \in DOMAIN bash : bash[k].kind = "bash"
  /\ \A c \in Caller : held[c] \in Seq(ClientMessage)
  /\ \A c \in Caller : held[c] # <<>> <=> at[c] \in Preflight
  /\ Len(unsaved) <= 1 /\ \A k \in DOMAIN unsaved : unsaved[k].kind # "summary"
  /\ last = NoMessage \/ last.kind \in Reply

\* The entries that compactions keep, and will keep, are entries.
Cuts ==
  /\ \A k \in DOMAIN log : log[k].kind = "summary" => log[k].n >= 1
  /\ \A c \in Caller : at[c] \in {"precompact", "recover"} => cut[c] >= 1
  /\ manual = "summary" => manualCut >= 1

\* At most one caller drives the agent, which runs only while it waits for the run.
OneRun ==
  /\ IdleIsAlwaysIdle
  /\ \A c, d \in Caller : at[c] \in Working /\ at[d] \in Working => c = d
  /\ \A c \in Caller : at[c] \in Working /\ at[c] # "running" => pc = "off"
  /\ pc = "off" => unsaved = <<>>
  /\ pc \notin {"prompts", "inject"} => hand = <<>>

\* At most one prompt is being prepared, on an idle session that is not compacted by hand.
OnePreflight ==
  /\ \A c, d \in Caller : at[c] \in Preflight /\ at[d] \in Preflight => c = d
  /\ \A c \in Caller : at[c] \in Preflight => ~active /\ manual = "off"
  /\ manual \in {"ready", "summary", "saved"} => ~active

\* The reply a run ends with is the last message, but for what clients add.
ReplyIsLast ==
  pc \in {"tool", "replied", "end"} =>
    /\ unsaved = <<>> => last.kind \in Reply
    /\ unsaved # <<>> => unsaved[1].kind \in Reply
    /\ unsaved = <<>> /\ IsReply(messages) => Last(messages) = last
    /\ unsaved # <<>> /\ IsReply(messages) => Last(messages) = unsaved[1]

\* A recovery from an overflow is noted before it begins, and none begins after that.
Recovery ==
  /\ recoveries <= 1
  /\ recoveries >= 1 => recovered
  /\ \A c \in Caller : at[c] \in {"recover", "restored"} /\ retry[c] => recoveries = 0 /\ recovered

\* The agent never has a context of replies alone.
Prompted ==
  /\ pc \notin {"off", "prompts"} => Grounded(messages)
  /\ pc = "prompts" => hand # <<>> \/ Grounded(messages)
  /\ \A c \in Caller : at[c] \in Working /\ at[c] # "running" => Grounded(messages)

\* The inductive invariant.
Control == TypeOK /\ Kinds /\ Cuts /\ OneRun /\ OnePreflight /\ ReplyIsLast /\ Recovery /\ Prompted

-----------------------------------------------------------------------------
(* What a caller does once it is at work, by what becomes of it.           *)

\* The context has lost nothing, or the failed reply it ended with.
Shortened(ms) ==
  \/ ms = messages
  \/ messages # <<>> /\ Last(messages).kind \in Failed /\ ms = Front(messages)

\* The prompt of a caller takes along what waits for the next turn.
Builds(c, ms) ==
  /\ at[c] \in Preflight
  /\ at' = [at EXCEPT ![c] = "before"]
  /\ held' = [held EXCEPT ![c] = @ \o nextTurn] /\ nextTurn' = <<>>
  /\ messages' = ms
  /\ UNCHANGED <<log, unsaved, queues, bash, run, idling, cut, retry, refused>>

\* A compaction begins.
Compacts(c, ms, willRetry) ==
  /\ Preparable(log)
  /\ at' = [at EXCEPT ![c] = IF @ \in Preflight THEN "precompact" ELSE "recover"]
  /\ cut' = [cut EXCEPT ![c] = CutPoint(log)]
  /\ retry' = [retry EXCEPT ![c] = willRetry]
  /\ messages' = ms /\ pc' = PcAfter(c)
  /\ UNCHANGED <<log, unsaved, queues, pending, hand, skip, aborted, idling, held, refused>>

\* The caller is done, with nothing queued.
Ends(c, ms) ==
  /\ at[c] \in Working /\ steering = <<>> /\ followUp = <<>>
  /\ Finally(c, ms) /\ refused' \in BOOLEAN

\* The agent runs, with a queued message or with what it has.
Begins(c, ms) ==
  /\ at[c] \in Working /\ messages' = ms
  /\ \E skipPoll \in BOOLEAN :
       \/ StartRun(c, <<>>, skipPoll) /\ UNCHANGED <<steering, followUp>>
       \/ /\ steering # <<>> /\ StartRun(c, <<Head(steering)>>, skipPoll)
          /\ steering' = Tail(steering) /\ UNCHANGED followUp
       \/ /\ followUp # <<>> /\ StartRun(c, <<Head(followUp)>>, skipPoll)
          /\ followUp' = Tail(followUp) /\ UNCHANGED steering
  /\ UNCHANGED <<log, unsaved, pending, idling, held, cut, retry, refused>>

\* A retry waits.
BacksOff(c, ms) ==
  /\ at[c] \in Working /\ messages' = ms
  /\ at' = [at EXCEPT ![c] = "backoff"] /\ pc' = "off"
  /\ UNCHANGED <<log, unsaved, queues, pending, hand, skip, aborted, idling, held, cut, retry, refused>>

\* A summary is saved, and the context is read again.
Saves(c) ==
  /\ at[c] \in {"precompact", "recover"}
  /\ log' = Append(log, Summary(cut[c]))
  /\ messages' = Context(log')
  /\ at' = [at EXCEPT ![c] = IF @ = "precompact" THEN "presaved" ELSE "restored"]
  /\ UNCHANGED <<unsaved, queues, pending, run, idling, held, cut, retry, refused,
                 post, sent, gone, recoveries>>

\* The history of these moves.
Remembers(c, willRetry) ==
  /\ UNCHANGED <<sent, gone>>
  /\ last' \in {last, NoMessage} /\ retryAttempt' \in 0..MaxRetries
  /\ recovered' = recovered \/ recovered' = TRUE
  /\ recoveries' = recoveries \/ (recoveries' = recoveries + 1 /\ retry[c] /\ at[c] = "restored")
  /\ willRetry => recovered' /\ ~recovered /\ recoveries' = recoveries

\* c is where the agent does not run, or its run is over.
Free(c) ==
  /\ at[c] \in (Preflight \cup Working) \ {"before"}
  /\ at[c] = "running" => pc = "end" /\ unsaved = <<>>

\* All that the code behind a run or before a prompt comes to.
Moves(c, ms, willRetry) ==
  /\ Free(c) /\ Shortened(ms) /\ Remembers(c, willRetry)
  /\ Builds(c, ms) \/ Compacts(c, ms, willRetry) \/ Ends(c, ms) \/ Begins(c, ms) \/ BacksOff(c, ms)

-----------------------------------------------------------------------------
\* A context that is not of replies alone is not empty, and stays so.
LEMMA GroundedStays ==
  ASSUME TypeOK, NEW ms, Shortened(ms), Grounded(messages)
  PROVE  ms # <<>> /\ Grounded(ms) /\ ms \in Seq(Message)
<1>1. messages \in Seq(Message) /\ Len(messages) \in Nat /\ DOMAIN messages = 1..Len(messages)
  BY DEF TypeOK
<1>2. PICK k \in 1..Len(messages) : messages[k].kind \notin Reply
  BY <1>1 DEF Grounded
<1>3. CASE ms = messages
  BY <1>1, <1>3 DEF Grounded
<1>4. CASE messages # <<>> /\ Last(messages).kind \in Failed /\ ms = Front(messages)
  <2>1. /\ Len(messages) - 1 \in Nat /\ ms = [i \in 1..(Len(messages) - 1) |-> messages[i]]
        /\ messages[Len(messages)].kind \in Reply
    BY <1>1, <1>4 DEF Front, Last, Reply
  <2>2. k \in 1..(Len(messages) - 1)
    BY <1>1, <1>2, <2>1
  <2>3. ms \in Seq(Message) /\ Len(ms) = Len(messages) - 1 /\ ms[k] = messages[k]
    BY <1>1, <2>1, <2>2
  <2> QED BY <1>1, <1>2, <2>2, <2>3 DEF Grounded
<1> QED BY <1>3, <1>4 DEF Shortened

LEMMA ShortenedType ==
  ASSUME TypeOK, NEW ms, Shortened(ms)
  PROVE  ms \in Seq(Message)
<1>1. messages \in Seq(Message) /\ Len(messages) \in Nat
  BY DEF TypeOK
<1>2. CASE messages # <<>> /\ ms = Front(messages)
  BY <1>1, <1>2 DEF Front
<1> QED BY <1>1, <1>2 DEF Shortened

LEMMA Disjoint ==
  /\ \A c \in Caller : at[c] \in Preflight => at[c] \notin Working
  /\ \A c \in Caller : at[c] \in {"idle", "settling"} => at[c] \notin Working /\ at[c] \notin Preflight
BY DEF Preflight, Working

LEMMA FreeIsOff ==
  ASSUME Control, NEW c \in Caller, Free(c), at[c] \in Working
  PROVE  PcAfter(c) = "off" /\ Grounded(messages) /\ unsaved = <<>> /\ hand = <<>> /\ active
<1>1. active
  BY DEF Control, OneRun, IdleIsAlwaysIdle
<1>2. CASE at[c] = "running"
  BY <1>1, <1>2 DEF Free, PcAfter, Control, OneRun, Prompted
<1>3. CASE at[c] # "running"
  BY <1>1, <1>3 DEF PcAfter, Control, OneRun, Prompted
<1> QED BY <1>2, <1>3

\* The pieces of that code, from the last to the first.
LEMMA ContinueMoves ==
  ASSUME Control, NEW c \in Caller, Free(c), at[c] \in Working,
         NEW ms, Shortened(ms), Continue(c, ms)
  PROVE  Ends(c, ms) \/ Begins(c, ms)
<1>1. PcAfter(c) = "off" /\ ms # <<>>
  BY FreeIsOff, GroundedStays DEF Control
<1>2. CASE CanContinue(c, ms)
  <2>1. Begins(c, ms)
    BY <1>2, TRUE \in BOOLEAN, FALSE \in BOOLEAN DEF Continue, Begins, CanContinue
  <2> QED BY <2>1
<1>3. CASE ~CanContinue(c, ms)
  <2>1. steering = <<>> /\ followUp = <<>>
    BY <1>1, <1>3 DEF CanContinue
  <2>2. Finally(c, ms) /\ refused' = TRUE
    BY <1>3 DEF Continue
  <2> QED BY <2>1, <2>2 DEF Ends
<1> QED BY <1>2, <1>3

LEMMA ProceedMoves ==
  ASSUME Control, NEW c \in Caller, Free(c), NEW ms, Shortened(ms), NEW go, Proceed(c, ms, go)
  PROVE  Builds(c, ms) \/ Ends(c, ms) \/ Begins(c, ms)
<1>1. CASE at[c] \in Preflight
  BY <1>1 DEF Proceed, Builds
<1>2. CASE at[c] \notin Preflight
  <2>1. at[c] \in Working
    BY <1>2 DEF Free
  <2>2. CASE GoesOn(go)
    BY <1>2, <2>1, <2>2, ContinueMoves DEF Proceed
  <2>3. CASE ~GoesOn(go)
    <3>1. steering = <<>> /\ followUp = <<>>
      BY <2>3 DEF GoesOn, Queued
    <3>2. Finally(c, ms) /\ refused' = refused
      BY <1>2, <2>3 DEF Proceed
    <3>3. refused \in BOOLEAN
      BY DEF Control, TypeOK
    <3> QED BY <2>1, <3>1, <3>2, <3>3 DEF Ends
  <2> QED BY <2>2, <2>3
<1> QED BY <1>1, <1>2

LEMMA StartCompactionMoves ==
  ASSUME Control, NEW c \in Caller, Free(c), NEW ms, Shortened(ms), NEW wr, StartCompaction(c, ms, wr)
  PROVE  Builds(c, ms) \/ Ends(c, ms) \/ Begins(c, ms) \/ Compacts(c, ms, wr)
<1>1. CASE ~Preparable(log)
  BY <1>1, ProceedMoves DEF StartCompaction
<1>2. CASE Preparable(log)
  BY <1>2 DEF StartCompaction, Compacts
<1> QED BY <1>1, <1>2

\* The check of the last reply takes it out only if it failed.
LEMMA WithoutReplyShortens ==
  ASSUME NEW m, m.kind \in Failed, IsReply(messages) => Last(messages) = m
  PROVE  Shortened(WithoutReply(messages))
BY DEF WithoutReply, Shortened, IsReply

LEMMA CheckCompactionMoves ==
  ASSUME Control, NEW c \in Caller, Free(c), NEW m,
         m.kind \in {"overflow", "length"} /\ IsReply(messages) => Last(messages) = m,
         CheckCompaction(c, m)
  PROVE  \E ms, wr :
           /\ Shortened(ms)
           /\ Builds(c, ms) \/ Compacts(c, ms, wr) \/ Ends(c, ms) \/ Begins(c, ms)
           /\ recovered' = recovered \/ recovered' = TRUE
           /\ wr \in BOOLEAN /\ (wr => recovered' /\ ~recovered)
<1> DEFINE looked == ~Stale(m) /\ (m.kind = "aborted" => at[c] \in Preflight)
           overflow == looked /\ m.kind \in {"overflow", "length"}
<1>0. Shortened(messages)
  BY DEF Shortened
<1>1. CASE /\ overflow /\ ~recovered
           /\ recovered' = TRUE
           /\ StartCompaction(c, WithoutReply(messages), TRUE)
  <2>1. Shortened(WithoutReply(messages))
    BY <1>1, WithoutReplyShortens DEF Failed
  <2>2. \/ Builds(c, WithoutReply(messages)) \/ Ends(c, WithoutReply(messages))
        \/ Begins(c, WithoutReply(messages)) \/ Compacts(c, WithoutReply(messages), TRUE)
    BY <1>1, <2>1, StartCompactionMoves
  <2> QED BY <1>1, <2>1, <2>2, TRUE \in BOOLEAN
<1>2. CASE Proceed(c, messages, FALSE) /\ recovered' = recovered
  <2>1. Builds(c, messages) \/ Ends(c, messages) \/ Begins(c, messages)
    BY <1>0, <1>2, ProceedMoves
  <2> QED BY <1>0, <1>2, <2>1, FALSE \in BOOLEAN
<1>3. CASE StartCompaction(c, messages, FALSE) /\ recovered' = recovered
  <2>1. \/ Builds(c, messages) \/ Ends(c, messages)
        \/ Begins(c, messages) \/ Compacts(c, messages, FALSE)
    BY <1>0, <1>3, StartCompactionMoves
  <2> QED BY <1>0, <1>3, <2>1, FALSE \in BOOLEAN
<1>4. \/ /\ overflow /\ ~recovered
         /\ recovered' = TRUE
         /\ StartCompaction(c, WithoutReply(messages), TRUE)
      \/ Proceed(c, messages, FALSE) /\ recovered' = recovered
      \/ StartCompaction(c, messages, FALSE) /\ recovered' = recovered
  BY DEF CheckCompaction
<1> QED BY ONLY <1>1, <1>2, <1>3, <1>4

\* The last reply of the context, when the context ends in it.
LEMMA LastReply ==
  ASSUME NEW s \in Seq(Message), IsReply(s)
  PROVE  Of(Reply, s) # <<>> /\ Last(Of(Reply, s)) = Last(s)
<1>1. Len(s) \in Nat /\ Len(s) # 0 /\ Len(s) - 1 \in Nat /\ Len(s) - 1 < Len(s) /\ s[Len(s)].kind \in Reply
  BY DEF IsReply, Last
<1> DEFINE n == Len(s) - 1
           p == Picked(Reply, s)[n]
<1>2. n \in Nat /\ n < Len(s) /\ n + 1 = Len(s) /\ n \in 0..Len(s)
  BY <1>1
<1>3. p \in Seq({m \in Message : m.kind \in Reply})
  BY <1>2, PickedType
<1> HIDE DEF n
<1>4. Picked(Reply, s)[n + 1] = Append(p, s[n + 1])
  <2>1. Picked(Reply, s)[n + 1] = IF s[n + 1].kind \in Reply THEN Append(Picked(Reply, s)[n], s[n + 1])
                                 ELSE Picked(Reply, s)[n]
    BY ONLY <1>1, <1>2, PickedNext
  <2> QED BY <2>1, <1>1, <1>2
<1> HIDE DEF p
<1>5. Of(Reply, s) = Append(p, s[Len(s)])
  BY <1>2, <1>4 DEF Of
<1>6. Append(p, s[Len(s)]) # <<>> /\ Append(p, s[Len(s)])[Len(Append(p, s[Len(s)]))] = s[Len(s)]
  BY <1>3
<1> QED BY <1>5, <1>6 DEF Last

LEMMA CheckBeforeMoves ==
  ASSUME Control, NEW c \in Caller, CheckBefore(c)
  PROVE  \E ms : \E wr \in BOOLEAN : Moves(c, ms, wr)
<1>1. Free(c) /\ Shortened(messages)
  BY DEF CheckBefore, Free, Preflight, Shortened
<1>2. /\ UNCHANGED <<last, retryAttempt, sent, gone, recoveries>>
      /\ retryAttempt \in 0..MaxRetries /\ messages \in Seq(Message)
  BY DEF CheckBefore, Control, TypeOK
<1>3. CASE Proceed(c, messages, FALSE) /\ recovered' = recovered
  <2>1. Builds(c, messages) \/ Ends(c, messages) \/ Begins(c, messages)
    BY <1>1, <1>3, ProceedMoves
  <2>2. Remembers(c, FALSE)
    BY <1>2, <1>3 DEF Remembers
  <2> QED BY <1>1, <2>1, <2>2, FALSE \in BOOLEAN DEF Moves
<1>4. ASSUME NEW m, m = Last(Of(Reply, messages)), CheckCompaction(c, m)
      PROVE  \E ms : \E wr \in BOOLEAN : Moves(c, ms, wr)
  <2>1. IsReply(messages) => Last(messages) = m
    BY <1>2, <1>4, LastReply
  <2>2. PICK ms, wr :
           /\ Shortened(ms)
           /\ Builds(c, ms) \/ Compacts(c, ms, wr) \/ Ends(c, ms) \/ Begins(c, ms)
           /\ recovered' = recovered \/ recovered' = TRUE
           /\ wr \in BOOLEAN /\ (wr => recovered' /\ ~recovered)
    BY <1>1, <1>4, <2>1, CheckCompactionMoves
  <2>3. Remembers(c, wr)
    BY <1>2, <2>2 DEF Remembers
  <2> QED BY <1>1, <2>2, <2>3 DEF Moves
<1> QED BY <1>3, <1>4 DEF CheckBefore

LEMMA PostRunMoves ==
  ASSUME Control, NEW c \in Caller, PostRun(c)
  PROVE  \E ms : \E wr \in BOOLEAN : Moves(c, ms, wr)
<1>1. /\ at[c] = "running" /\ pc = "end" /\ unsaved = <<>>
      /\ last' = NoMessage /\ UNCHANGED <<sent, gone, recoveries>>
  BY DEF PostRun, Quiet
<1>2. Free(c) /\ at[c] \in Working
  BY <1>1 DEF Free, Working
<1>3. last.kind \in Reply /\ (IsReply(messages) => Last(messages) = last)
  BY <1>1 DEF Control, ReplyIsLast
<1>4. last # NoMessage
  BY <1>3 DEF NoMessage, Reply, Failed
<1>5. retryAttempt \in 0..MaxRetries /\ MaxRetries \in Nat
  BY BoundsAssumption DEF Control, TypeOK
<1>6. CASE Retryable(last) /\ PrepareRetry(c)
  <2> DEFINE ms == WithoutReply(messages)
  <2>1. Shortened(ms)
    BY <1>3, <1>6, WithoutReplyShortens DEF Retryable, Failed
  <2>2. BacksOff(c, ms)
    BY <1>2, <1>6 DEF PrepareRetry, BacksOff, queues, pending, idling, ActiveMeanwhile
  <2>3. Remembers(c, FALSE)
    <3>1. retryAttempt' = retryAttempt + 1 /\ retryAttempt < MaxRetries /\ recovered' = recovered
      BY <1>6 DEF PrepareRetry, Retryable
    <3> QED BY <1>1, <1>5, <3>1 DEF Remembers
  <2> QED BY <1>2, <2>1, <2>2, <2>3, FALSE \in BOOLEAN DEF Moves
<1>7. CASE /\ retryAttempt' = IF last.kind \in {"error", "overflow"} THEN 0 ELSE retryAttempt
           /\ CheckCompaction(c, last)
  <2>1. PICK ms, wr :
           /\ Shortened(ms)
           /\ Builds(c, ms) \/ Compacts(c, ms, wr) \/ Ends(c, ms) \/ Begins(c, ms)
           /\ recovered' = recovered \/ recovered' = TRUE
           /\ wr \in BOOLEAN /\ (wr => recovered' /\ ~recovered)
    BY <1>2, <1>3, <1>7, CheckCompactionMoves
  <2>2. retryAttempt' \in 0..MaxRetries
    BY <1>5, <1>7
  <2>3. Remembers(c, wr)
    BY <1>1, <2>1, <2>2 DEF Remembers
  <2> QED BY <1>2, <2>1, <2>3 DEF Moves
<1> QED BY <1>4, <1>6, <1>7 DEF PostRun

LEMMA BackoffMoves ==
  ASSUME Control, NEW c \in Caller, BackoffOver(c)
  PROVE  \E ms : \E wr \in BOOLEAN : Moves(c, ms, wr)
<1>1. Free(c) /\ at[c] \in Working /\ Shortened(messages)
  BY DEF BackoffOver, Free, Working, Shortened
<1>2. /\ UNCHANGED <<last, recovered, sent, gone, recoveries>>
      /\ retryAttempt' \in 0..MaxRetries
  <2>1. MaxRetries \in Nat /\ 0 \in 0..MaxRetries /\ retryAttempt \in 0..MaxRetries
    BY BoundsAssumption DEF Control, TypeOK
  <2>2. retryAttempt' = retryAttempt \/ retryAttempt' = 0
    BY DEF BackoffOver, CancelledAttempt
  <2> QED BY <2>1, <2>2 DEF BackoffOver
<1>3. Remembers(c, FALSE)
  BY <1>2 DEF Remembers
<1>4. \/ Builds(c, messages) \/ Compacts(c, messages, FALSE)
      \/ Ends(c, messages) \/ Begins(c, messages)
  BY <1>1, ContinueMoves, ProceedMoves, StartCompactionMoves DEF BackoffOver
<1> QED BY <1>1, <1>3, <1>4, FALSE \in BOOLEAN DEF Moves

LEMMA SummaryMoves ==
  ASSUME Control, NEW c \in Caller, SummaryEnds(c)
  PROVE  Saves(c) \/ \E ms : \E wr \in BOOLEAN : Moves(c, ms, wr)
<1>1. Free(c) /\ Shortened(messages) /\ at[c] \in {"precompact", "recover"}
  BY DEF SummaryEnds, Free, Working, Preflight, Shortened
<1>2. UNCHANGED <<post, sent, gone, recoveries>>
  BY DEF SummaryEnds
<1>3. CASE Proceed(c, messages, FALSE)
  <2>1. Builds(c, messages) \/ Ends(c, messages) \/ Begins(c, messages)
    BY <1>1, <1>3, ProceedMoves
  <2>2. retryAttempt \in 0..MaxRetries
    BY DEF Control, TypeOK
  <2>3. Remembers(c, FALSE)
    BY <1>2, <2>2 DEF Remembers, post
  <2> QED BY <1>1, <2>1, <2>3, FALSE \in BOOLEAN DEF Moves
<1>4. CASE ~Proceed(c, messages, FALSE)
  BY <1>1, <1>2, <1>4 DEF SummaryEnds, Saves
<1> QED BY <1>3, <1>4

LEMMA CompactionMoves ==
  ASSUME Control, NEW c \in Caller, CompactionEnds(c)
  PROVE  \E ms : \E wr \in BOOLEAN : Moves(c, ms, wr)
<1> DEFINE ms == IF retry[c] THEN WithoutFailure(messages) ELSE messages
<1>1. Free(c) /\ Shortened(ms)
  BY DEF CompactionEnds, Free, Working, Preflight, Shortened, WithoutFailure
<1>2. Builds(c, ms) \/ Ends(c, ms) \/ Begins(c, ms)
  BY <1>1, ProceedMoves DEF CompactionEnds
<1>3. /\ UNCHANGED <<post, sent, gone>> /\ retryAttempt \in 0..MaxRetries
      /\ recoveries' = recoveries \/ (recoveries' = recoveries + 1 /\ retry[c] /\ at[c] = "restored")
  <2>1. recoveries \in Nat /\ recoveries' = recoveries + (IF retry[c] /\ at[c] = "restored" THEN 1 ELSE 0)
    BY DEF CompactionEnds, Control, TypeOK
  <2>2. CASE retry[c] /\ at[c] = "restored"
    BY <2>1, <2>2 DEF CompactionEnds, Control, TypeOK
  <2>3. CASE ~(retry[c] /\ at[c] = "restored")
    BY <2>1, <2>3 DEF CompactionEnds, Control, TypeOK
  <2> QED BY <2>2, <2>3
<1>4. Remembers(c, FALSE)
  BY <1>3 DEF Remembers, post
<1> QED BY <1>1, <1>2, <1>4, FALSE \in BOOLEAN DEF Moves

LEMMA CallerMoves ==
  ASSUME Control, NEW c \in Caller, CallerStep(c)
  PROVE  \/ PreflightFails(c) \/ Run(c) \/ Settled(c) \/ Saves(c)
         \/ \E ms : \E wr \in BOOLEAN : Moves(c, ms, wr)
BY CheckBeforeMoves, PostRunMoves, BackoffMoves, SummaryMoves, CompactionMoves DEF CallerStep

-----------------------------------------------------------------------------
(* Compactions: the last one, the context it leaves, and where it cuts.    *)

\* A set of places in a sequence has a last and a first.
LEMMA MaxOfPlaces ==
  ASSUME NEW N \in Nat, NEW P, P \subseteq 1..N, P # {}
  PROVE  Max(P) \in P /\ \A x \in P : x <= Max(P)
<1> DEFINE Q == {N - x : x \in P}
<1>1. Q \subseteq Nat /\ Q # {}
  <2>1. \A x \in P : x \in 1..N /\ N - x \in Nat
    OBVIOUS
  <2> QED BY <2>1
<1>2. PICK q \in Q : \A r \in Q : q <= r
  BY <1>1, LeastNumber
<1>3. PICK p \in P : q = N - p
  BY <1>2
<1>4. \A x \in P : p >= x
  <2> TAKE x \in P
  <2>1. N - p <= N - x BY <1>2, <1>3
  <2> QED BY <2>1
<1>5. Max(P) \in P /\ \A x \in P : Max(P) >= x
  BY <1>4 DEF Max
<1> QED BY <1>5

LEMMA MinOfPlaces ==
  ASSUME NEW P, P \subseteq Nat, P # {}
  PROVE  Min(P) \in P /\ \A x \in P : Min(P) <= x
<1>1. PICK p \in P : \A x \in P : p <= x
  BY LeastNumber
<1> QED BY <1>1 DEF Min

\* The latest compaction of a log.
LEMMA LastCompactionIs ==
  ASSUME NEW l \in Seq(Message)
  PROVE  /\ LastCompaction(l) \in 0..Len(l)
         /\ LastCompaction(l) # 0 => l[LastCompaction(l)].kind = "summary"
         /\ \A i \in 1..Len(l) : l[i].kind = "summary" => i <= LastCompaction(l)
<1>1. Len(l) \in Nat /\ Compactions(l) \subseteq 1..Len(l)
  BY DEF Compactions
<1>2. CASE Compactions(l) = {}
  <2>1. LastCompaction(l) = 0
    BY <1>2 DEF LastCompaction
  <2> QED BY <1>1, <1>2, <2>1 DEF Compactions
<1>3. CASE Compactions(l) # {}
  <2>1. LastCompaction(l) = Max(Compactions(l))
    BY <1>3 DEF LastCompaction
  <2>2. LastCompaction(l) \in Compactions(l) /\ \A x \in Compactions(l) : x <= LastCompaction(l)
    BY <1>1, <1>3, <2>1, MaxOfPlaces
  <2> QED BY <1>1, <2>2 DEF Compactions
<1> QED BY <1>2, <1>3

\* The context after a reload is made of messages.
LEMMA ContextType ==
  ASSUME NEW l \in Seq(Message), \A k \in DOMAIN l : l[k].kind = "summary" => l[k].n >= 1
  PROVE  Context(l) \in Seq(Message)
<1> DEFINE k == LastCompaction(l)
<1>1. k \in 0..Len(l) /\ Len(l) \in Nat /\ (k # 0 => l[k].kind = "summary")
  BY LastCompactionIs
<1>2. CASE k = 0
  BY <1>2 DEF Context
<1>3. CASE k # 0
  <2>1. k \in 1..Len(l) /\ l[k] \in Message /\ l[k].n >= 1 /\ l[k].n \in Nat
    <3>1. k \in 1..Len(l) /\ l[k].kind = "summary"
      BY <1>1, <1>3
    <3> HIDE DEF k
    <3>2. l[k] \in Message /\ k \in DOMAIN l
      BY <3>1
    <3> QED BY <3>1, <3>2 DEF Message
  <2> DEFINE a == SubSeq(l, l[k].n, k - 1)
             b == SubSeq(l, k + 1, Len(l))
  <2>2. a \in Seq(Message)
    BY <1>1, <2>1
  <2>3. b \in Seq(Message)
    BY <1>1, <2>1
  <2>4. <<l[k]>> \in Seq(Message)
    BY <2>1
  <2>5. Context(l) = <<l[k]>> \o a \o b
    BY <1>3 DEF Context
  <2> HIDE DEF a, b, k
  <2> QED BY <2>2, <2>3, <2>4, <2>5
<1> QED BY <1>2, <1>3

\* Right after a compaction the context begins with its summary.
LEMMA ContextOfCompaction ==
  ASSUME NEW l \in Seq(Message), \A k \in DOMAIN l : l[k].kind = "summary" => l[k].n >= 1,
         NEW n \in Nat, n >= 1
  PROVE  /\ Append(l, Summary(n)) \in Seq(Message)
         /\ \A k \in DOMAIN Append(l, Summary(n)) :
              Append(l, Summary(n))[k].kind = "summary" => Append(l, Summary(n))[k].n >= 1
         /\ Grounded(Context(Append(l, Summary(n))))
<1> DEFINE m == Summary(n)
           t == Append(l, m)
           N == Len(l) + 1
<1>1. m \in Message /\ m.kind = "summary" /\ m.n = n
  BY DEF Summary, Message
<1> HIDE DEF m
<1>2. /\ Len(l) \in Nat /\ t \in Seq(Message) /\ Len(t) = N /\ N \in 1..N /\ t[N] = m
      /\ \A k \in 1..Len(l) : t[k] = l[k]
  BY <1>1
<1>3. \A k \in DOMAIN t : t[k].kind = "summary" => t[k].n >= 1
  <2>1. ASSUME NEW k \in DOMAIN t, t[k].kind = "summary" PROVE t[k].n >= 1
    <3>1. k \in 1..Len(l) \/ k = N
      BY <1>2
    <3> QED BY <3>1, <2>1, <1>1, <1>2
  <2> QED BY <2>1
<1> HIDE DEF t
<1>4. LastCompaction(t) = N
  BY <1>1, <1>2, LastCompactionIs
<1>5. Context(t) \in Seq(Message)
  BY <1>2, <1>3, ContextType
<1>6. Context(t) = <<m>> \o SubSeq(t, m.n, N - 1) \o SubSeq(t, N + 1, Len(t))
  <2>1. N # 0 BY <1>2
  <2> QED BY <1>2, <1>4, <2>1 DEF Context
<1>7. SubSeq(t, m.n, N - 1) \in Seq(Message) /\ SubSeq(t, N + 1, Len(t)) \in Seq(Message)
  BY <1>1, <1>2
<1>8. 1 \in DOMAIN Context(t) /\ Context(t)[1] = m
  <2> DEFINE a == SubSeq(t, m.n, N - 1)
             b == SubSeq(t, N + 1, Len(t))
  <2> HIDE DEF a, b
  <2>1. a \in Seq(Message) /\ b \in Seq(Message) BY <1>7 DEF a, b
  <2>2. Context(t) = <<m>> \o a \o b BY <1>6 DEF a, b
  <2> QED BY <1>1, <2>1, <2>2
<1>9. Grounded(Context(t))
  BY <1>1, <1>8 DEF Grounded, Reply, Failed
<1> QED BY <1>2, <1>3, <1>9 DEF m, t

\* A cut is at an entry.
LEMMA CutPointIs ==
  ASSUME NEW l \in Seq(Message), \A k \in DOMAIN l : l[k].kind = "summary" => l[k].n >= 1, Preparable(l)
  PROVE  CutPoint(l) \in Nat /\ CutPoint(l) >= 1
<1>1. Boundary(l) \in Nat /\ Boundary(l) >= 1
  <2> DEFINE k == LastCompaction(l)
  <2>1. k \in 0..Len(l) /\ Len(l) \in Nat /\ (k # 0 => l[k].kind = "summary")
    BY LastCompactionIs
  <2>2. Boundary(l) = IF k = 0 THEN 1 ELSE l[k].n
    BY DEF Boundary
  <2> HIDE DEF k
  <2>3. k # 0 => l[k] \in Message /\ k \in DOMAIN l
    BY <2>1
  <2>4. k # 0 => l[k].n \in Nat /\ l[k].n >= 1
    BY <2>1, <2>3 DEF Message
  <2> QED BY <2>2, <2>4
<1>2. CutPoints(l) \subseteq Nat /\ CutPoints(l) # {} /\ \A i \in CutPoints(l) : i >= 1
  BY <1>1 DEF CutPoints, Preparable
<1> DEFINE recent == {i \in CutPoints(l) : i > Len(l) - KeepRecent}
<1>3. CutPoint(l) \in CutPoints(l)
  <2>1. Min(CutPoints(l)) \in CutPoints(l)
    BY <1>2, MinOfPlaces
  <2>2. recent # {} => Min(recent) \in recent
    BY <1>2, MinOfPlaces, recent \subseteq Nat
  <2> QED BY <2>1, <2>2 DEF CutPoint
<1> QED BY <1>2, <1>3

-----------------------------------------------------------------------------
(* The steps, each by what it leaves alone.                                 *)

\* The requests that only leave something behind.
Asking ==
  \/ Queue("user") \/ (active /\ Queue("aside"))
  \/ SendNextTurn \/ SendAside \/ RecordBash \/ ClearQueue

\* Requests that are only queued disturb no caller and no run.
LEMMA AskingFrame ==
  ASSUME Asking
  PROVE  UNCHANGED <<unsaved, pc, hand, skip, aborted, last, retryAttempt, recovered,
                     active, waiter, manual, manualCut, at, held, cut, retry, recoveries, refused>>
BY DEF Asking, Queue, SendNextTurn, SendAside, RecordBash, ClearQueue, context, run, post, idling, callers

\* An abort, or a compaction by hand, ends the backoffs.
LEMMA InterruptFrame ==
  ASSUME TypeOK, Abort \/ Compact
  PROVE  /\ at' = [c \in Caller |-> IF at[c] = "backoff" THEN "cancelled" ELSE at[c]]
         /\ at \in [Caller -> Stage]
         /\ aborted' \in BOOLEAN /\ waiter' \in BOOLEAN
         /\ UNCHANGED <<messages, log, unsaved, steering, followUp, nextTurn, bash, pc, hand, skip,
                        last, retryAttempt, recovered, active, manualCut, held, cut, retry,
                        sent, gone, recoveries, refused>>
         /\ \/ manual' = manual
            \/ /\ manual = "off" /\ (Apart' => \A c \in Caller : at[c] \notin Preflight)
               /\ manual' = IF active THEN "wait" ELSE "ready"
BY DEF Abort, Compact, Interrupt, context, queues, pending, post, history, TypeOK, Apart, Noted, NoPreflight

\* A run disturbs no caller.
LEMMA RunFrame ==
  ASSUME RunStep
  PROVE  UNCHANGED <<active, waiter, manual, manualCut, at, held, cut, retry, nextTurn, bash,
                     aborted, sent, gone, refused>>
BY DEF RunStep, Emit, Save, Poll, ToolResult, EndTurn, ReplyWith, runRest, pending, idling, callers,
       history, context, queues

\* A compaction by hand disturbs no caller and no run.
LEMMA ManualFrame ==
  ASSUME Manual
  PROVE  UNCHANGED <<unsaved, steering, followUp, nextTurn, bash, pc, hand, skip, aborted,
                     last, retryAttempt, recovered, active, waiter, at, held, cut, retry,
                     sent, gone, recoveries, refused>>
BY DEF Manual, queues, pending, run, post, callers, history

\* Every step is one of these.
LEMMA Steps ==
  ASSUME Control, Next
  PROVE  \/ Asking \/ Abort \/ Compact \/ RunStep \/ Manual
         \/ \E c \in Caller : \/ Prompt(c) \/ Trigger(c)
                              \/ PreflightFails(c) \/ Run(c) \/ Settled(c) \/ Saves(c)
                              \/ \E ms : \E wr \in BOOLEAN : Moves(c, ms, wr)
BY CallerMoves DEF Next, Request, Asking

\* A prompt reaches an agent that is free.
LEMMA RunStarts ==
  ASSUME Control, NEW c \in Caller, Run(c)
  PROVE  /\ pc = "off" /\ ~active /\ manual = "off" /\ at[c] = "before"
         /\ StartRun(c, held[c], FALSE) /\ active' = TRUE
         /\ held' = [held EXCEPT ![c] = <<>>] /\ held[c] # <<>>
         /\ UNCHANGED <<messages, log, unsaved, steering, followUp, nextTurn, bash, waiter, manual,
                        manualCut, cut, retry, gone, refused, last, retryAttempt, recovered, sent, recoveries>>
<1>1. at[c] = "before" /\ at[c] \in Preflight
  BY DEF Run, Preflight
<1>2. ~active /\ manual = "off"
  BY <1>1 DEF Control, OnePreflight
<1>3. pc = "off"
  BY <1>2 DEF Control, OneRun, IdleIsAlwaysIdle
<1>4. held[c] # <<>>
  BY <1>1 DEF Control, Kinds
<1> QED BY <1>1, <1>2, <1>3, <1>4 DEF Run, RunPrompt, context, queues, pending, post

LEMMA TriggerStarts ==
  ASSUME Control, Apart', NEW c \in Caller, Trigger(c)
  PROVE  /\ pc = "off" /\ ~active /\ manual = "off" /\ at[c] = "idle" /\ Send
         /\ \A d \in Caller : at[d] \notin Preflight
         /\ StartRun(c, <<Accept("aside")>>, FALSE) /\ active' = TRUE
         /\ held' = [held EXCEPT ![c] = <<>>]
         /\ UNCHANGED <<messages, log, unsaved, steering, followUp, nextTurn, bash, waiter, manual,
                        manualCut, cut, retry, gone, refused, last, retryAttempt, recovered, recoveries>>
<1>1. ~active /\ manual = "off" /\ at[c] = "idle" /\ Send /\ \A d \in Caller : at[d] \notin Preflight
  BY DEF Trigger, Undisturbed, NoPreflight, Noted, Apart, Fresh
<1>2. pc = "off"
  BY <1>1 DEF Control, OneRun, IdleIsAlwaysIdle
<1> QED BY <1>1, <1>2 DEF Trigger, RunPrompt, context, queues, pending, post

LEMMA PromptStarts ==
  ASSUME Control, Apart', NEW c \in Caller, Prompt(c)
  PROVE  /\ pc = "off" /\ ~active /\ manual = "off" /\ at[c] = "idle" /\ Send /\ unsaved = <<>>
         /\ \A d \in Caller : at[d] \notin Preflight
         /\ at' = [at EXCEPT ![c] = "preflight"]
         /\ held' = [held EXCEPT ![c] = <<Accept("user")>>]
         /\ messages' = messages \o bash /\ log' = log \o bash /\ bash' = <<>>
         /\ UNCHANGED <<unsaved, steering, followUp, nextTurn, pc, hand, skip, aborted, active, waiter, manual,
                        manualCut, cut, retry, gone, refused, last, retryAttempt, recovered, recoveries>>
<1>1. ~active /\ manual = "off" /\ at[c] = "idle" /\ Send /\ \A d \in Caller : at[d] \notin Preflight
  BY DEF Prompt, Undisturbed, NoPreflight, Noted, Apart, Fresh
<1>2. pc = "off" /\ unsaved = <<>>
  BY <1>1 DEF Control, OneRun, IdleIsAlwaysIdle
<1> QED BY <1>1, <1>2 DEF Prompt, Flush, queues, run, post, idling

-----------------------------------------------------------------------------
\* One run at a time.
LEMMA OneRunStep ==
  ASSUME Control, Apart', Next
  PROVE  OneRun'
<1> USE DEF OneRun, IdleIsAlwaysIdle
<1>0. at \in [Caller -> Stage] /\ OneRun /\ pc \in {"off", "prompts", "inject", "tool", "called", "replied", "end"}
  BY DEF Control, TypeOK
<1>1. CASE Asking
  BY <1>0, <1>1, AskingFrame
<1>2. CASE Abort \/ Compact
  <2>1. /\ at' = [c \in Caller |-> IF at[c] = "backoff" THEN "cancelled" ELSE at[c]]
        /\ UNCHANGED <<unsaved, pc, hand, active>>
    BY <1>2, InterruptFrame DEF Control
  <2>2. \A d \in Caller : /\ at'[d] \in Working <=> at[d] \in Working
                          /\ at'[d] = "running" <=> at[d] = "running"
    BY <1>0, <2>1 DEF Working
  <2> QED BY <1>0, <2>1, <2>2
<1>3. CASE RunStep
  <2>1. UNCHANGED <<active, at>>
    BY <1>3, RunFrame
  <2>2. pc # "off" /\ pc' # "off"
    <3>1. CASE Save
      BY <1>0, <3>1 DEF Save
    <3>2. CASE Emit \/ Poll \/ ToolResult \/ EndTurn \/ \E kind \in Reply : ReplyWith(kind)
      BY <3>2 DEF Emit, Poll, ToolResult, EndTurn, ReplyWith
    <3> QED BY <1>3, <3>1, <3>2 DEF RunStep
  <2>3. pc' \notin {"prompts", "inject"} => hand' = <<>>
    <3>1. CASE Emit \/ Save
      BY <1>0, <3>1 DEF Emit, Save
    <3>2. CASE Poll \/ ToolResult \/ \E kind \in Reply : ReplyWith(kind)
      BY <1>0, <3>2 DEF Poll, ToolResult, ReplyWith
    <3>3. CASE EndTurn
      BY <1>0, <3>3 DEF EndTurn
    <3> QED BY <1>3, <3>1, <3>2, <3>3 DEF RunStep
  <2> QED BY <1>0, <2>1, <2>2, <2>3
<1>4. CASE Manual
  BY <1>0, <1>4, ManualFrame
<1>5. ASSUME NEW c \in Caller, Prompt(c) PROVE OneRun'
  <2>1. \A d \in Caller : at'[d] = IF d = c THEN "preflight" ELSE at[d]
    BY <1>0, <1>5, PromptStarts
  <2>2. "preflight" \notin Working BY DEF Working
  <2>3. UNCHANGED <<pc, hand, active, unsaved>> BY <1>5, PromptStarts
  <2> QED BY <1>0, <2>1, <2>2, <2>3
<1>6. ASSUME NEW c \in Caller, Trigger(c) \/ Run(c) PROVE OneRun'
  <2>1. /\ ~active /\ active' = TRUE /\ pc' = "prompts"
        /\ \A d \in Caller : at'[d] = IF d = c THEN "running" ELSE at[d]
    BY <1>0, <1>6, TriggerStarts, RunStarts DEF StartRun
  <2>2. \A d \in Caller : at[d] \notin Working
    BY <1>0, <2>1
  <2> QED BY <2>1, <2>2
<1>7. ASSUME NEW c \in Caller, PreflightFails(c) \/ Settled(c) PROVE OneRun'
  <2>1. /\ \A d \in Caller : at'[d] = IF d = c THEN "idle" ELSE at[d]
        /\ UNCHANGED <<pc, hand, active, unsaved>>
    BY <1>0, <1>7 DEF PreflightFails, Settled, context, run, idling
  <2>2. "idle" \notin Working BY DEF Working
  <2> QED BY <1>0, <2>1, <2>2
<1>8. ASSUME NEW c \in Caller, Saves(c) PROVE OneRun'
  <2>1. /\ \A d \in Caller : at'[d] = IF d = c THEN IF at[c] = "precompact" THEN "presaved" ELSE "restored" ELSE at[d]
        /\ UNCHANGED <<pc, hand, active, unsaved>> /\ at[c] \in {"precompact", "recover"}
    BY <1>0, <1>8 DEF Saves, run, idling
  <2>2. /\ \A d \in Caller : at'[d] \in Working <=> at[d] \in Working
        /\ at'[c] # "running" /\ at[c] # "running"
    BY <2>1 DEF Working
  <2> QED BY <1>0, <2>1, <2>2
<1>9. ASSUME NEW c \in Caller, NEW ms, NEW wr \in BOOLEAN, Moves(c, ms, wr) PROVE OneRun'
  <2>0. Free(c)
    BY <1>9 DEF Moves
  <2>1. CASE Builds(c, ms)
    <3>1. /\ \A d \in Caller : at'[d] = IF d = c THEN "before" ELSE at[d]
          /\ UNCHANGED <<pc, hand, active, unsaved>>
      BY <1>0, <2>1 DEF Builds, run, idling
    <3>2. "before" \notin Working BY DEF Working
    <3> QED BY <1>0, <3>1, <3>2
  <2>2. CASE Compacts(c, ms, wr)
    <3>1. /\ \A d \in Caller : at'[d] = IF d = c THEN IF at[c] \in Preflight THEN "precompact" ELSE "recover" ELSE at[d]
          /\ pc' = PcAfter(c) /\ UNCHANGED <<hand, active, unsaved>>
      BY <1>0, <2>2 DEF Compacts, idling
    <3>2. "precompact" \notin Working /\ "recover" \in Working /\ "recover" # "running" BY DEF Working
    <3>3. CASE at[c] \in Preflight
      <4>1. pc' = pc BY <3>1, <3>3 DEF PcAfter, Preflight
      <4> QED BY <1>0, <3>1, <3>2, <3>3, <4>1
    <3>4. CASE at[c] \in Working
      <4>1. /\ pc' = "off" /\ unsaved = <<>> /\ hand = <<>> /\ active /\ at[c] \notin Preflight
            /\ \A d \in Caller : at[d] \in Working => d = c
        BY <1>0, <2>0, <3>1, <3>4, FreeIsOff, Disjoint
      <4> QED BY <3>1, <3>2, <4>1
    <3> QED BY <2>0, <3>3, <3>4 DEF Free
  <2>3. CASE Ends(c, ms)
    <3>1. /\ \A d \in Caller : at'[d] = IF d = c THEN "settling" ELSE at[d]
          /\ pc' = PcAfter(c) /\ UNCHANGED <<hand, unsaved>> /\ active' = FALSE /\ at[c] \in Working
      BY <1>0, <2>3 DEF Ends, Finally
    <3>2. "settling" \notin Working BY DEF Working
    <3>3. /\ pc' = "off" /\ unsaved = <<>> /\ hand = <<>>
          /\ \A d \in Caller : at[d] \in Working => d = c
      BY <1>0, <2>0, <3>1, FreeIsOff
    <3> QED BY <3>1, <3>2, <3>3
  <2>4. CASE Begins(c, ms)
    <3>1. /\ \A d \in Caller : at'[d] = IF d = c THEN "running" ELSE at[d]
          /\ pc' = "prompts" /\ UNCHANGED <<active, unsaved>> /\ at[c] \in Working
      BY <1>0, <2>4 DEF Begins, StartRun, idling
    <3>2. active /\ \A d \in Caller : at[d] \in Working => d = c
      BY <1>0, <2>0, <3>1, FreeIsOff
    <3> QED BY <3>1, <3>2
  <2>5. CASE BacksOff(c, ms)
    <3>1. /\ \A d \in Caller : at'[d] = IF d = c THEN "backoff" ELSE at[d]
          /\ pc' = "off" /\ UNCHANGED <<active, unsaved, hand>> /\ at[c] \in Working
      BY <1>0, <2>5 DEF BacksOff, idling
    <3>2. active /\ unsaved = <<>> /\ hand = <<>> /\ \A d \in Caller : at[d] \in Working => d = c
      BY <1>0, <2>0, <3>1, FreeIsOff
    <3> QED BY <3>1, <3>2
  <2> QED BY <1>9, <2>1, <2>2, <2>3, <2>4, <2>5 DEF Moves
<1> QED BY <1>1, <1>2, <1>3, <1>4, <1>5, <1>6, <1>7, <1>8, <1>9, Steps

-----------------------------------------------------------------------------
(* Control is kept, part by part, by every step.                            *)

\* What a caller that moves on does to the others and to compact(): nothing.
LEMMA MoveFrame ==
  ASSUME Control, NEW c \in Caller, NEW ms, NEW wr \in BOOLEAN, Moves(c, ms, wr)
  PROVE  /\ \A d \in Caller : d # c => at'[d] = at[d]
         /\ UNCHANGED <<manual, manualCut, waiter, unsaved>>
         /\ \/ at[c] \in Preflight /\ at'[c] \in {"before", "precompact"} /\ active' = active
            \/ at[c] \in Working /\ at'[c] = "settling" /\ active' = FALSE
            \/ at[c] \in Working /\ at'[c] \in {"recover", "running", "backoff"} /\ active' = active
<1>0. at \in [Caller -> Stage] /\ Free(c)
  BY DEF Control, TypeOK, Moves
<1>1. CASE Builds(c, ms)
  BY <1>0, <1>1 DEF Builds, idling
<1>2. CASE Compacts(c, ms, wr)
  <2>1. /\ \A d \in Caller : at'[d] = IF d = c THEN IF at[c] \in Preflight THEN "precompact" ELSE "recover" ELSE at[d]
        /\ UNCHANGED <<manual, manualCut, waiter, unsaved, active>>
    BY <1>0, <1>2 DEF Compacts, idling
  <2>2. at[c] \in Preflight \/ at[c] \in Working
    BY <1>0 DEF Free
  <2> QED BY <2>1, <2>2, Disjoint
<1>3. CASE Ends(c, ms)
  BY <1>0, <1>3 DEF Ends, Finally
<1>4. CASE Begins(c, ms)
  BY <1>0, <1>4 DEF Begins, StartRun, idling
<1>5. CASE BacksOff(c, ms)
  BY <1>0, <1>5 DEF BacksOff, idling
<1> QED BY <1>1, <1>2, <1>3, <1>4, <1>5 DEF Moves

\* While a prompt is prepared, or its caller moves on, no other caller is at work.
LEMMA Alone ==
  ASSUME Control, NEW c \in Caller, at[c] \in Preflight \cup Working, NEW d \in Caller, d # c
  PROVE  at[d] \notin Working
<1>1. CASE at[c] \in Working
  BY <1>1 DEF Control, OneRun
<1>2. CASE at[c] \in Preflight
  <2>1. ~active BY <1>2 DEF Control, OnePreflight
  <2> QED BY <2>1 DEF Control, OneRun, IdleIsAlwaysIdle
<1> QED BY <1>1, <1>2

\* One preflight at a time.
LEMMA OnePreflightStep ==
  ASSUME Control, Apart', Next
  PROVE  OnePreflight'
<1> USE DEF OnePreflight
<1>0. /\ at \in [Caller -> Stage] /\ OnePreflight /\ active \in BOOLEAN
      /\ manual \in {"off", "wait", "ready", "summary", "saved"}
  BY DEF Control, TypeOK
<1>1. CASE Asking
  BY <1>0, <1>1, AskingFrame
<1>2. CASE Abort \/ Compact
  <2>1. /\ at' = [c \in Caller |-> IF at[c] = "backoff" THEN "cancelled" ELSE at[c]]
        /\ UNCHANGED active
        /\ \/ manual' = manual
           \/ /\ \A c \in Caller : at[c] \notin Preflight
              /\ manual' = IF active THEN "wait" ELSE "ready"
    BY <1>2, InterruptFrame DEF Control
  <2>2. \A d \in Caller : at'[d] \in Preflight <=> at[d] \in Preflight
    BY <1>0, <2>1 DEF Preflight
  <2> QED BY <1>0, <2>1, <2>2
<1>3. CASE RunStep
  BY <1>0, <1>3, RunFrame
<1>4. CASE Manual
  <2>1. manual \in {"ready", "summary", "saved"}
    BY <1>4 DEF Manual, ManualStep
  <2>2. ~active /\ \A d \in Caller : at[d] \notin Preflight
    BY <1>0, <2>1
  <2>3. UNCHANGED <<active, at>>
    BY <1>4, ManualFrame
  <2> QED BY <2>2, <2>3
<1>5. ASSUME NEW c \in Caller, Prompt(c) PROVE OnePreflight'
  <2>1. /\ \A d \in Caller : at'[d] = IF d = c THEN "preflight" ELSE at[d]
        /\ UNCHANGED <<manual, active>> /\ ~active /\ manual = "off"
        /\ \A d \in Caller : at[d] \notin Preflight
    BY <1>0, <1>5, PromptStarts
  <2> QED BY <2>1
<1>6. ASSUME NEW c \in Caller, Trigger(c) \/ Run(c) PROVE OnePreflight'
  <2>1. /\ manual = "off" /\ manual' = "off"
        /\ \A d \in Caller : at'[d] = IF d = c THEN "running" ELSE at[d]
    BY <1>0, <1>6, TriggerStarts, RunStarts DEF StartRun
  <2>2. \A d \in Caller : d # c => at[d] \notin Preflight
    <3>1. CASE Trigger(c) BY <3>1, TriggerStarts
    <3>2. CASE Run(c)
      <4>1. at[c] \in Preflight BY <3>2, RunStarts DEF Preflight
      <4> QED BY <1>0, <4>1
    <3> QED BY <1>6, <3>1, <3>2
  <2>3. "running" \notin Preflight BY DEF Preflight
  <2> QED BY <2>1, <2>2, <2>3
<1>7. ASSUME NEW c \in Caller, PreflightFails(c) \/ Settled(c) PROVE OnePreflight'
  <2>1. /\ \A d \in Caller : at'[d] = IF d = c THEN "idle" ELSE at[d]
        /\ UNCHANGED active
        /\ manual' = manual \/ (~active /\ manual = "wait" /\ manual' = "ready")
    BY <1>0, <1>7 DEF PreflightFails, Settled, Wakes, run, idling
  <2>2. "idle" \notin Preflight BY DEF Preflight
  <2> QED BY <1>0, <2>1, <2>2
<1>8. ASSUME NEW c \in Caller, Saves(c) PROVE OnePreflight'
  <2>1. /\ \A d \in Caller : at'[d] = IF d = c THEN IF at[c] = "precompact" THEN "presaved" ELSE "restored" ELSE at[d]
        /\ UNCHANGED <<manual, active>> /\ at[c] \in {"precompact", "recover"}
    BY <1>0, <1>8 DEF Saves, idling
  <2>2. \A d \in Caller : at'[d] \in Preflight <=> at[d] \in Preflight
    BY <2>1 DEF Preflight
  <2> QED BY <1>0, <2>1, <2>2
<1>9. ASSUME NEW c \in Caller, NEW ms, NEW wr \in BOOLEAN, Moves(c, ms, wr) PROVE OnePreflight'
  <2>1. \A d \in Caller : at'[d] \in Preflight => at[d] \in Preflight
    BY <1>9, MoveFrame DEF Preflight
  <2>2. manual' = manual /\ (active' = active \/ active' = FALSE)
    BY <1>9, MoveFrame
  <2> QED BY <1>0, <2>1, <2>2
<1> QED BY <1>1, <1>2, <1>3, <1>4, <1>5, <1>6, <1>7, <1>8, <1>9, Steps

\* One recovery at most.
LEMMA RecoveryStep ==
  ASSUME Control, Apart', Next
  PROVE  Recovery'
<1> USE DEF Recovery
<1>0. at \in [Caller -> Stage] /\ retry \in [Caller -> BOOLEAN] /\ Recovery /\ recoveries \in Nat
  BY DEF Control, TypeOK
<1>a. {"recover", "restored"} \subseteq Working
  BY DEF Working
<1>1. CASE Asking
  BY <1>0, <1>1, AskingFrame
<1>2. CASE Abort \/ Compact
  <2>1. /\ at' = [c \in Caller |-> IF at[c] = "backoff" THEN "cancelled" ELSE at[c]]
        /\ UNCHANGED <<retry, recovered, recoveries>>
    BY <1>2, InterruptFrame DEF Control
  <2> QED BY <1>0, <2>1
<1>3. CASE RunStep
  <2>1. UNCHANGED <<at, retry>>
    BY <1>3, RunFrame
  <2>2. CASE Poll \/ ToolResult \/ EndTurn \/ \E kind \in Reply : ReplyWith(kind)
    <3>1. UNCHANGED <<recovered, recoveries>>
      BY <2>2 DEF Poll, ToolResult, EndTurn, ReplyWith, post, history
    <3> QED BY <1>0, <2>1, <3>1
  <2>3. CASE Emit \/ Save
    <3>1. pc # "off"
      BY <2>3 DEF Emit, Save, Control, OneRun
    <3>2. \A c \in Caller : at[c] \notin {"recover", "restored"}
      BY <3>1, <1>a DEF Control, OneRun
    <3>3. recoveries' <= 1 /\ (recoveries' >= 1 => recovered')
      <4>1. CASE Emit BY <4>1 DEF Emit
      <4>2. CASE Save
        <5>1. recovered \in BOOLEAN BY DEF Control, TypeOK
        <5>2. CASE unsaved[1].kind \in Failed
          <6>1. recoveries' = recoveries /\ recovered' = recovered
            BY <4>2, <5>1, <5>2 DEF Save, post, StillRecovered, Reply
          <6> QED BY <1>0, <6>1
        <5>3. CASE unsaved[1].kind \notin Failed
          <6>1. recoveries' = 0 \/ (recoveries' = recoveries /\ recovered' = recovered)
            BY <4>2, <5>3 DEF Save, post
          <6> QED BY <1>0, <6>1
        <5> QED BY <5>2, <5>3
      <4> QED BY <2>3, <4>1, <4>2
    <3> QED BY <2>1, <3>2, <3>3
  <2> QED BY <1>3, <2>2, <2>3 DEF RunStep
<1>4. CASE Manual
  BY <1>0, <1>4, ManualFrame
<1>5. ASSUME NEW c \in Caller, Prompt(c) \/ Trigger(c) \/ Run(c) \/ PreflightFails(c) \/ Settled(c) PROVE Recovery'
  <2>1. /\ \A d \in Caller : d # c => at'[d] = at[d]
        /\ at'[c] \in {"preflight", "running", "idle"}
        /\ UNCHANGED <<retry, recovered, recoveries>>
    <3>1. CASE Prompt(c)
      BY <1>0, <3>1, PromptStarts DEF Prompt, callers
    <3>2. CASE Trigger(c) \/ Run(c)
      BY <1>0, <3>2, TriggerStarts, RunStarts DEF StartRun
    <3>3. CASE PreflightFails(c) \/ Settled(c)
      BY <1>0, <3>3 DEF PreflightFails, Settled, post, history
    <3> QED BY <1>5, <3>1, <3>2, <3>3
  <2> QED BY <1>0, <2>1
<1>8. ASSUME NEW c \in Caller, Saves(c) PROVE Recovery'
  <2>1. /\ \A d \in Caller : at'[d] = IF d = c THEN IF at[c] = "precompact" THEN "presaved" ELSE "restored" ELSE at[d]
        /\ UNCHANGED <<retry, recovered, recoveries>> /\ at[c] \in {"precompact", "recover"}
    BY <1>0, <1>8 DEF Saves, post
  <2> QED BY <1>0, <2>1
<1>9. ASSUME NEW c \in Caller, NEW ms, NEW wr \in BOOLEAN, Moves(c, ms, wr) PROVE Recovery'
  <2>1. Free(c) /\ Remembers(c, wr)
    BY <1>9 DEF Moves
  <2>2. \A d \in Caller : d # c => at[d] \notin Working /\ at'[d] = at[d]
    BY <2>1, <1>9, MoveFrame, Alone DEF Free
  <2>3. recoveries' <= 1 /\ (recoveries' >= 1 => recovered')
    BY <1>0, <2>1 DEF Remembers
  <2>4. at'[c] \in {"recover", "restored"} => Compacts(c, ms, wr)
    <3>1. CASE Builds(c, ms)
      BY <1>0, <3>1 DEF Builds
    <3>2. CASE Ends(c, ms)
      BY <1>0, <3>2 DEF Ends, Finally
    <3>3. CASE Begins(c, ms)
      BY <1>0, <3>3 DEF Begins, StartRun
    <3>4. CASE BacksOff(c, ms)
      BY <1>0, <3>4 DEF BacksOff
    <3> QED BY <1>9, <3>1, <3>2, <3>3, <3>4 DEF Moves
  <2>5. Compacts(c, ms, wr) /\ retry'[c] => recoveries' = 0 /\ recovered'
    <3>1. Compacts(c, ms, wr) => retry'[c] = wr
      BY <1>0 DEF Compacts
    <3>2. wr => recovered' /\ ~recovered /\ recoveries' = recoveries
      BY <2>1 DEF Remembers
    <3>3. recoveries = 0 \/ recovered
      BY <1>0
    <3>4. CASE wr = TRUE
      BY <3>2, <3>3, <3>4
    <3>5. CASE wr = FALSE
      BY <3>1, <3>5
    <3> QED BY <3>4, <3>5
  <2> QED BY <2>2, <2>3, <2>4, <2>5, <1>a
<1> QED BY <1>1, <1>2, <1>3, <1>4, <1>5, <1>8, <1>9, Steps

-----------------------------------------------------------------------------
(* What is where: the parts of Kinds.                                       *)

\* The parts of Kinds.
Waiting == {steering, followUp, nextTurn, bash, hand} \subseteq Seq(ClientMessage)
BashOnly == \A k \in DOMAIN bash : bash[k].kind = "bash"
HeldByPrompts ==
  \A c \in Caller : held[c] \in Seq(ClientMessage) /\ (held[c] # <<>> <=> at[c] \in Preflight)
OneUnsaved == Len(unsaved) <= 1 /\ \A k \in DOMAIN unsaved : unsaved[k].kind # "summary"
ReplyOrNone == last = NoMessage \/ last.kind \in Reply

LEMMA KindsParts ==
  Kinds <=> Waiting /\ BashOnly /\ HeldByPrompts /\ OneUnsaved /\ ReplyOrNone
BY DEF Kinds, Waiting, BashOnly, HeldByPrompts, OneUnsaved, ReplyOrNone

\* Messages of clients are messages, and stay theirs.
LEMMA ClientsGrow ==
  ASSUME sent \in Nat, sent' \in Nat, sent' >= sent
  PROVE  ClientMessage \subseteq ClientMessage' /\ Seq(ClientMessage) \subseteq Seq(ClientMessage')
<1>1. 1..sent \subseteq 1..sent'
  OBVIOUS
<1>2. ClientMessage \subseteq ClientMessage'
  BY <1>1 DEF ClientMessage
<1> QED BY <1>2, SeqMonotonic

LEMMA ClientsAreMessages ==
  ASSUME sent \in Nat
  PROVE  ClientMessage \subseteq Message /\ Seq(ClientMessage) \subseteq Seq(Message)
<1>1. ClientMessage \subseteq Message
  BY DEF ClientMessage, Message
<1> QED BY <1>1, SeqMonotonic

\* What a client sends is numbered next.
LEMMA Accepted ==
  ASSUME sent \in 0..MaxSent, Send, NEW kind \in Client
  PROVE  /\ Accept(kind) \in ClientMessage' /\ Accept(kind).n = sent' /\ Accept(kind).kind = kind
         /\ sent' = sent + 1 /\ sent' \in 0..MaxSent /\ sent' >= sent
<1>1. sent' = sent + 1 /\ sent < MaxSent /\ MaxSent \in Nat
  BY BoundsAssumption DEF Send
<1>2. sent' \in 1..sent'
  BY <1>1
<1> QED BY <1>1, <1>2 DEF Accept, ClientMessage

LEMMA SentGrows ==
  ASSUME Control, Apart', Next
  PROVE  sent' \in 0..MaxSent /\ sent' >= sent /\ (sent' = sent \/ (Send /\ gone' = gone))
<1>0. sent \in 0..MaxSent /\ MaxSent \in Nat
  BY BoundsAssumption DEF Control, TypeOK
<1>1. CASE Asking
  <2>1. ClearQueue => sent' = sent
    BY DEF ClearQueue
  <2>2. ~ClearQueue => Send /\ gone' = gone
    BY <1>1 DEF Asking, Queue, SendNextTurn, SendAside, RecordBash
  <2> QED BY <1>0, <2>1, <2>2 DEF Send
<1>2. CASE Abort \/ Compact
  BY <1>0, <1>2, InterruptFrame DEF Control
<1>3. CASE RunStep
  BY <1>0, <1>3, RunFrame
<1>4. CASE Manual
  BY <1>0, <1>4, ManualFrame
<1>5. ASSUME NEW c \in Caller, Prompt(c) \/ Trigger(c) PROVE Send /\ gone' = gone
  BY <1>5, PromptStarts, TriggerStarts
<1>6. ASSUME NEW c \in Caller,
             Run(c) \/ PreflightFails(c) \/ Settled(c) \/ Saves(c) \/ \E ms : \E wr \in BOOLEAN : Moves(c, ms, wr)
      PROVE  sent' = sent
  BY <1>6 DEF Run, PreflightFails, Settled, Saves, Moves, Remembers, history
<1> QED BY <1>0, <1>1, <1>2, <1>3, <1>4, <1>5, <1>6, Steps DEF Send

\* Queues whose first message may be taken.
LEMMA Taken ==
  ASSUME NEW S, NEW s \in Seq(S), s # <<>>
  PROVE  Head(s) \in S /\ Tail(s) \in Seq(S) /\ <<Head(s)>> \in Seq(S)
<1>1. Head(s) \in S /\ Tail(s) \in Seq(S)
  BY HeadTailProperties
<1> QED BY <1>1

LEMMA Put ==
  ASSUME NEW S, NEW s \in Seq(S), NEW m \in S
  PROVE  /\ Append(s, m) \in Seq(S)
         /\ \A P : (\A k \in DOMAIN s : s[k].kind = P) /\ m.kind = P
              => \A k \in DOMAIN Append(s, m) : Append(s, m)[k].kind = P
OBVIOUS

\* What waits are messages of clients.
LEMMA WaitingStep ==
  ASSUME Control, Apart', Next
  PROVE  Waiting' /\ BashOnly'
<1> USE DEF Waiting, BashOnly
<1> DEFINE S == ClientMessage
           T == ClientMessage'
<1>0. /\ steering \in Seq(S) /\ followUp \in Seq(S) /\ nextTurn \in Seq(S) /\ bash \in Seq(S)
      /\ hand \in Seq(S) /\ BashOnly /\ \A c \in Caller : held[c] \in Seq(S)
  BY DEF Control, Kinds
<1>a. sent \in 0..MaxSent /\ sent \in Nat /\ sent' \in Nat /\ sent' >= sent /\ Seq(S) \subseteq Seq(T) /\ S \subseteq T
  <2>1. sent \in 0..MaxSent /\ sent' \in 0..MaxSent /\ sent' >= sent /\ MaxSent \in Nat
    BY SentGrows, BoundsAssumption DEF Control, TypeOK
  <2> QED BY <2>1, ClientsGrow
<1>b. <<>> \in Seq(T)
  BY EmptySeq
<1>c. ASSUME UNCHANGED <<steering, followUp, nextTurn, bash, hand>> PROVE Waiting' /\ BashOnly'
  BY <1>0, <1>a, <1>c
<1>1. CASE Asking
  <2>0. hand' = hand
    BY <1>1, AskingFrame
  <2>1. ASSUME NEW kind \in {"user", "aside"}, Queue(kind) PROVE Waiting' /\ BashOnly'
    <3>1. Accept(kind) \in T
      BY <1>a, <2>1, Accepted DEF Queue, Client
    <3>2. UNCHANGED <<nextTurn, bash>>
      BY <2>1 DEF Queue, pending
    <3>3. \/ steering' = Append(steering, Accept(kind)) /\ followUp' = followUp
          \/ followUp' = Append(followUp, Accept(kind)) /\ steering' = steering
      BY <2>1 DEF Queue
    <3> HIDE DEF S, T
    <3>4. steering \in Seq(T) /\ followUp \in Seq(T)
      BY <1>0, <1>a
    <3>5. steering' \in Seq(T) /\ followUp' \in Seq(T)
      BY <3>1, <3>3, <3>4, Put
    <3> QED BY <1>0, <1>a, <2>0, <3>2, <3>5 DEF T
  <2>2. CASE SendNextTurn
    <3>1. Accept("aside") \in T
      BY <1>a, <2>2, Accepted DEF SendNextTurn, Client
    <3>2. nextTurn' = Append(nextTurn, Accept("aside")) /\ UNCHANGED <<steering, followUp, bash>>
      BY <2>2 DEF SendNextTurn, queues
    <3> HIDE DEF S, T
    <3>3. nextTurn' \in Seq(T)
      BY <1>0, <1>a, <3>1, <3>2
    <3> QED BY <1>0, <1>a, <2>0, <3>2, <3>3 DEF T
  <2>3. CASE SendAside
    BY <1>c, <2>0, <2>3 DEF SendAside, queues, pending
  <2>4. CASE RecordBash
    <3>1. Accept("bash") \in T /\ Accept("bash").kind = "bash"
      BY <1>a, <2>4, Accepted DEF RecordBash, Client
    <3>2. UNCHANGED <<steering, followUp, nextTurn>> /\ (bash' = bash \/ bash' = Append(bash, Accept("bash")))
      BY <2>4 DEF RecordBash, Record, queues
    <3> HIDE DEF S, T
    <3>3. bash' \in Seq(T) /\ BashOnly'
      <4>1. bash \in Seq(T) /\ BashOnly
        BY <1>0, <1>a
      <4>2. Append(bash, Accept("bash")) \in Seq(T)
        BY <3>1, <4>1, Put
      <4>3. \A k \in DOMAIN Append(bash, Accept("bash")) : Append(bash, Accept("bash"))[k].kind = "bash"
        BY ONLY <3>1, <4>1, Put DEF BashOnly
      <4> QED BY <3>2, <4>1, <4>2, <4>3
    <3> QED BY <1>0, <1>a, <2>0, <3>2, <3>3 DEF T
  <2>5. CASE ClearQueue
    <3>1. steering' = <<>> /\ followUp' = <<>> /\ UNCHANGED <<nextTurn, bash>>
      BY <2>5 DEF ClearQueue, pending
    <3> QED BY <1>0, <1>a, <1>b, <2>0, <3>1
  <2> QED BY <1>1, <2>1, <2>2, <2>3, <2>4, <2>5 DEF Asking
<1>2. CASE Abort \/ Compact
  BY <1>c, <1>2, InterruptFrame DEF Control
<1>3. CASE RunStep
  <2>1. UNCHANGED <<nextTurn, bash>> /\ bash' \in Seq(T) /\ nextTurn' \in Seq(T) /\ BashOnly'
    BY <1>0, <1>a, <1>3, RunFrame
  <2>2. /\ steering' = steering \/ (steering # <<>> /\ steering' = Tail(steering))
        /\ followUp' = followUp \/ (followUp # <<>> /\ followUp' = Tail(followUp))
        /\ \/ hand' = hand \/ (hand # <<>> /\ hand' = Tail(hand))
           \/ steering # <<>> /\ hand' = <<Head(steering)>>
           \/ followUp # <<>> /\ hand' = <<Head(followUp)>>
    <3>1. CASE Emit \/ Save \/ ToolResult \/ \E kind \in Reply : ReplyWith(kind)
      BY <3>1 DEF Emit, Save, ToolResult, ReplyWith, queues
    <3>2. CASE Poll
      BY <3>2 DEF Poll
    <3>3. CASE EndTurn
      BY <3>3 DEF EndTurn
    <3> QED BY <1>3, <3>1, <3>2, <3>3 DEF RunStep
  <2> HIDE DEF S, T
  <2>3. /\ steering # <<>> => Head(steering) \in S /\ Tail(steering) \in Seq(S) /\ <<Head(steering)>> \in Seq(S)
        /\ followUp # <<>> => Head(followUp) \in S /\ Tail(followUp) \in Seq(S) /\ <<Head(followUp)>> \in Seq(S)
        /\ hand # <<>> => Tail(hand) \in Seq(S)
    BY <1>0, Taken
  <2>4. steering' \in Seq(T) /\ followUp' \in Seq(T) /\ hand' \in Seq(T)
    BY <1>0, <1>a, <2>2, <2>3
  <2> QED BY <2>1, <2>4 DEF T
<1>4. CASE Manual
  BY <1>c, <1>4, ManualFrame
<1>5. ASSUME NEW c \in Caller, Prompt(c) PROVE Waiting' /\ BashOnly'
  <2>1. bash' = <<>> /\ UNCHANGED <<steering, followUp, nextTurn, hand>>
    BY <1>5, PromptStarts
  <2> QED BY <1>0, <1>a, <1>b, <2>1
<1>6. ASSUME NEW c \in Caller, Trigger(c) PROVE Waiting' /\ BashOnly'
  <2>1. Accept("aside") \in T
    BY <1>a, <1>6, Accepted, TriggerStarts DEF Client
  <2>2. hand' = <<Accept("aside")>> /\ UNCHANGED <<steering, followUp, nextTurn, bash>>
    BY <1>6, TriggerStarts DEF StartRun
  <2> HIDE DEF S, T
  <2>3. hand' \in Seq(T)
    BY <2>1, <2>2
  <2> QED BY <1>0, <1>a, <2>2, <2>3 DEF T
<1>7. ASSUME NEW c \in Caller, Run(c) PROVE Waiting' /\ BashOnly'
  <2>1. hand' = held[c] /\ UNCHANGED <<steering, followUp, nextTurn, bash>>
    BY <1>7, RunStarts DEF StartRun
  <2> QED BY <1>0, <1>a, <2>1
<1>8. ASSUME NEW c \in Caller, PreflightFails(c) \/ Settled(c) \/ Saves(c) PROVE Waiting' /\ BashOnly'
  BY <1>c, <1>8 DEF PreflightFails, Settled, Saves, queues, pending, run
<1>9. ASSUME NEW c \in Caller, NEW ms, NEW wr \in BOOLEAN, Moves(c, ms, wr) PROVE Waiting' /\ BashOnly'
  <2>1. CASE Builds(c, ms)
    <3>1. UNCHANGED <<steering, followUp, bash, hand>> /\ nextTurn' = <<>>
      BY <2>1 DEF Builds, queues, run
    <3> QED BY <1>0, <1>a, <1>b, <3>1
  <2>2. CASE Compacts(c, ms, wr) \/ BacksOff(c, ms)
    BY <1>c, <2>2 DEF Compacts, BacksOff, queues, pending
  <2>3. CASE Ends(c, ms)
    <3>1. UNCHANGED <<steering, followUp, nextTurn, hand>> /\ bash' = <<>>
      BY <2>3 DEF Ends, Finally, Flush, queues
    <3> QED BY <1>0, <1>a, <1>b, <3>1
  <2>4. CASE Begins(c, ms)
    <3>1. UNCHANGED <<nextTurn, bash>>
      BY <2>4 DEF Begins, pending
    <3>2. /\ steering' = steering \/ (steering # <<>> /\ steering' = Tail(steering))
          /\ followUp' = followUp \/ (followUp # <<>> /\ followUp' = Tail(followUp))
          /\ \/ hand' = <<>>
             \/ steering # <<>> /\ hand' = <<Head(steering)>>
             \/ followUp # <<>> /\ hand' = <<Head(followUp)>>
      BY <2>4 DEF Begins, StartRun
    <3> HIDE DEF S, T
    <3>3. /\ steering # <<>> => Tail(steering) \in Seq(S) /\ <<Head(steering)>> \in Seq(S)
          /\ followUp # <<>> => Tail(followUp) \in Seq(S) /\ <<Head(followUp)>> \in Seq(S)
      BY <1>0, Taken
    <3>4. steering' \in Seq(T) /\ followUp' \in Seq(T) /\ hand' \in Seq(T)
      BY <1>0, <1>a, <1>b, <3>2, <3>3
    <3> QED BY <1>0, <1>a, <3>1, <3>4 DEF T
  <2> QED BY <1>9, <2>1, <2>2, <2>3, <2>4 DEF Moves
<1> QED BY <1>1, <1>2, <1>3, <1>4, <1>5, <1>6, <1>7, <1>8, <1>9, Steps

LEMMA SentTypes ==
  ASSUME Control, Apart', Next
  PROVE  /\ sent \in Nat /\ sent' \in Nat /\ sent' >= sent
         /\ ClientMessage \subseteq ClientMessage' /\ Seq(ClientMessage) \subseteq Seq(ClientMessage')
<1>1. sent \in 0..MaxSent /\ sent' \in 0..MaxSent /\ sent' >= sent /\ MaxSent \in Nat
  BY SentGrows, BoundsAssumption DEF Control, TypeOK
<1> QED BY <1>1, ClientsGrow

\* So is what callers hold, who hold something in the preflight only.
LEMMA HeldStep ==
  ASSUME Control, Apart', Next
  PROVE  HeldByPrompts'
<1> USE DEF HeldByPrompts
<1> DEFINE S == ClientMessage
           T == ClientMessage'
<1>0. /\ at \in [Caller -> Stage] /\ held \in [Caller -> Seq(Message)] /\ nextTurn \in Seq(S)
      /\ \A c \in Caller : held[c] \in Seq(S) /\ (held[c] # <<>> <=> at[c] \in Preflight)
  BY DEF Control, Kinds, TypeOK
<1>a. Seq(S) \subseteq Seq(T) /\ S \subseteq T /\ sent \in Nat
  BY SentTypes
<1>b. <<>> \in Seq(T)
  BY EmptySeq
<1>c. ASSUME held' = held, \A d \in Caller : at'[d] \in Preflight <=> at[d] \in Preflight
      PROVE  HeldByPrompts'
  BY <1>0, <1>a, <1>c
<1>d. ASSUME NEW c \in Caller, \A d \in Caller : d # c => held'[d] = held[d] /\ at'[d] = at[d],
             held'[c] = <<>>, at'[c] \notin Preflight
      PROVE  HeldByPrompts'
  <2> TAKE d \in Caller
  <2>1. CASE d = c
    BY <2>1, <1>d, <1>b
  <2>2. CASE d # c
    BY <2>2, <1>d, <1>0, <1>a
  <2> QED BY <2>1, <2>2
<1>1. CASE Asking
  BY <1>1, <1>c, AskingFrame
<1>2. CASE Abort \/ Compact
  <2>1. at' = [c \in Caller |-> IF at[c] = "backoff" THEN "cancelled" ELSE at[c]] /\ held' = held
    BY <1>2, InterruptFrame DEF Control
  <2>2. \A d \in Caller : at'[d] \in Preflight <=> at[d] \in Preflight
    BY <1>0, <2>1 DEF Preflight
  <2> QED BY <1>c, <2>1, <2>2
<1>3. CASE RunStep
  BY <1>3, <1>c, RunFrame
<1>4. CASE Manual
  BY <1>4, <1>c, ManualFrame
<1>5. ASSUME NEW c \in Caller, Prompt(c) PROVE HeldByPrompts'
  <2>1. /\ \A d \in Caller : held'[d] = (IF d = c THEN <<Accept("user")>> ELSE held[d])
        /\ \A d \in Caller : at'[d] = (IF d = c THEN "preflight" ELSE at[d])
        /\ Send
    BY <1>0, <1>5, PromptStarts
  <2>2. Accept("user") \in T
    <3>1. sent \in 0..MaxSent BY DEF Control, TypeOK
    <3> QED BY <2>1, <3>1, Accepted DEF Client
  <2> HIDE DEF S, T
  <2>3. <<Accept("user")>> \in Seq(T) /\ <<Accept("user")>> # <<>> /\ "preflight" \in Preflight
    BY <2>2 DEF Preflight
  <2> TAKE d \in Caller
  <2>4. CASE d = c
    BY <2>1, <2>3, <2>4 DEF T
  <2>5. CASE d # c
    BY <2>1, <2>5, <1>0, <1>a DEF T
  <2> QED BY <2>4, <2>5
<1>6. ASSUME NEW c \in Caller, Trigger(c) \/ Run(c) PROVE HeldByPrompts'
  <2>1. /\ held' = [held EXCEPT ![c] = <<>>] /\ at' = [at EXCEPT ![c] = "running"]
    BY <1>6, TriggerStarts, RunStarts DEF StartRun
  <2>2. "running" \notin Preflight BY DEF Preflight
  <2> QED BY <1>0, <1>d, <2>1, <2>2
<1>7. ASSUME NEW c \in Caller, PreflightFails(c) PROVE HeldByPrompts'
  <2>1. /\ held' = [held EXCEPT ![c] = <<>>] /\ at' = [at EXCEPT ![c] = "idle"]
    BY <1>7 DEF PreflightFails
  <2>2. "idle" \notin Preflight BY DEF Preflight
  <2> QED BY <1>0, <1>d, <2>1, <2>2
<1>8. ASSUME NEW c \in Caller, Settled(c) \/ Saves(c) PROVE HeldByPrompts'
  <2>1. held' = held
    BY <1>8 DEF Settled, Saves
  <2>2. \A d \in Caller : at'[d] \in Preflight <=> at[d] \in Preflight
    BY <1>0, <1>8 DEF Settled, Saves, Preflight
  <2> QED BY <1>c, <2>1, <2>2
<1>9. ASSUME NEW c \in Caller, NEW ms, NEW wr \in BOOLEAN, Moves(c, ms, wr) PROVE HeldByPrompts'
  <2>0. /\ \A d \in Caller : d # c => at'[d] = at[d]
        /\ \/ at[c] \in Preflight /\ at'[c] \in Preflight
           \/ at[c] \notin Preflight /\ at'[c] \notin Preflight
    <3>1. \/ at[c] \in Preflight /\ at'[c] \in {"before", "precompact"}
          \/ at[c] \in Working /\ at'[c] \in {"settling", "recover", "running", "backoff"}
      BY <1>9, MoveFrame
    <3>2. /\ {"before", "precompact"} \subseteq Preflight
          /\ \A x \in {"settling", "recover", "running", "backoff"} : x \notin Preflight
          /\ \A x \in Working : x \notin Preflight
      BY DEF Preflight, Working
    <3>3. \A d \in Caller : d # c => at'[d] = at[d]
      BY <1>9, MoveFrame
    <3> QED BY <3>1, <3>2, <3>3
  <2>1. CASE Builds(c, ms)
    <3>1. /\ \A d \in Caller : held'[d] = IF d = c THEN held[c] \o nextTurn ELSE held[d]
          /\ at[c] \in Preflight
      BY <1>0, <2>1 DEF Builds
    <3>2. held[c] \o nextTurn \in Seq(S) /\ held[c] \o nextTurn # <<>>
      <4>1. held[c] \in Seq(S) /\ held[c] # <<>>
        BY <1>0, <3>1
      <4> HIDE DEF S
      <4> QED BY <1>0, <4>1
    <3> TAKE d \in Caller
    <3>3. CASE d = c
      <4>1. held'[d] \in Seq(T) /\ held'[d] # <<>> /\ at'[d] \in Preflight
        BY <2>0, <3>1, <3>2, <3>3, <1>a
      <4> QED BY <4>1
    <3>4. CASE d # c
      BY <3>1, <3>4, <1>0, <1>a, <2>0
    <3> QED BY <3>3, <3>4
  <2>2. CASE Compacts(c, ms, wr) \/ BacksOff(c, ms) \/ Begins(c, ms)
    <3>1. held' = held
      BY <2>2 DEF Compacts, BacksOff, Begins
    <3> QED BY <1>c, <2>0, <3>1
  <2>3. CASE Ends(c, ms)
    <3>1. held' = [held EXCEPT ![c] = <<>>] /\ at[c] \in Working
      BY <2>3 DEF Ends, Finally
    <3> QED BY <1>0, <1>d, <2>0, <3>1, Disjoint
  <2> QED BY <1>9, <2>1, <2>2, <2>3 DEF Moves
<1> QED BY <1>1, <1>2, <1>3, <1>4, <1>5, <1>6, <1>7, <1>8, <1>9, Steps

\* What the listeners of a message will save, and the reply they have seen last.
LEMMA UnsavedStep ==
  ASSUME Control, Apart', Next
  PROVE  OneUnsaved' /\ ReplyOrNone' /\ unsaved' \in Seq(Message) /\ last' \in Message
<1> USE DEF OneUnsaved, ReplyOrNone
<1>0. /\ OneUnsaved /\ ReplyOrNone /\ unsaved \in Seq(Message) /\ last \in Message
      /\ log \in Seq(Message) /\ hand \in Seq(ClientMessage)
  BY DEF Control, Kinds, TypeOK
<1>a. NoMessage \in Message
  BY DEF NoMessage, Message
<1>b. ASSUME UNCHANGED <<unsaved, last>>
      PROVE  OneUnsaved' /\ ReplyOrNone' /\ unsaved' \in Seq(Message) /\ last' \in Message
  BY <1>0, <1>b
<1>c. ASSUME NEW m \in Message, m.kind # "summary", unsaved' = <<m>>, last' = last
      PROVE  OneUnsaved' /\ ReplyOrNone' /\ unsaved' \in Seq(Message) /\ last' \in Message
  BY <1>0, <1>c
<1>1. CASE Asking
  BY <1>b, <1>1, AskingFrame
<1>2. CASE Abort \/ Compact
  BY <1>b, <1>2, InterruptFrame DEF Control
<1>3. CASE RunStep
  <2>1. CASE Emit
    <3>1. hand # <<>> /\ unsaved' = <<Head(hand)>> /\ last' = last
      BY <2>1 DEF Emit
    <3>2. Head(hand) \in ClientMessage
      BY <1>0, <3>1, Taken
    <3>3. Head(hand) \in Message /\ Head(hand).kind # "summary"
      <4>1. sent \in Nat BY SentTypes
      <4>2. Head(hand) \in Message BY <3>2, <4>1, ClientsAreMessages
      <4>3. Head(hand).kind \in Client BY <3>2 DEF ClientMessage
      <4> QED BY <4>2, <4>3 DEF Client
    <3> QED BY <1>c, <3>1, <3>3
  <2>2. CASE Save
    <3>1. unsaved' = <<>> /\ unsaved # <<>> /\ (last' = last \/ (last' = unsaved[1] /\ unsaved[1].kind \in Reply))
      BY <2>2 DEF Save, post
    <3>2. unsaved[1] \in Message
      BY <1>0, <3>1
    <3> QED BY <1>0, <3>1, <3>2
  <2>3. CASE Poll \/ EndTurn
    BY <1>b, <2>3 DEF Poll, EndTurn, context, post
  <2>4. ASSUME NEW kind \in Reply, ReplyWith(kind)
        PROVE  OneUnsaved' /\ ReplyOrNone' /\ unsaved' \in Seq(Message) /\ last' \in Message
    <3> DEFINE m == [kind |-> kind, n |-> Number(Reply)]
    <3>1. unsaved' = <<m>> /\ last' = last
      BY <2>4 DEF ReplyWith, post
    <3>2. Number(Reply) \in Nat
      BY <1>0, OfType DEF Number
    <3>3. m \in Message /\ m.kind # "summary"
      BY <3>2 DEF Message, Reply, Failed
    <3> HIDE DEF m
    <3> QED BY <1>c, <3>1, <3>3
  <2>5. CASE ToolResult
    <3> DEFINE m == [kind |-> "result", n |-> Number(Reply) - 1]
    <3>1. unsaved' = <<m>> /\ last' = last
      BY <2>5 DEF ToolResult, post
    <3>2. Number(Reply) - 1 \in Nat
      BY <1>0, OfType DEF Number
    <3>3. m \in Message /\ m.kind # "summary"
      BY <3>2 DEF Message
    <3> HIDE DEF m
    <3> QED BY <1>c, <3>1, <3>3
  <2> QED BY <1>3, <2>1, <2>2, <2>3, <2>4, <2>5 DEF RunStep
<1>4. CASE Manual
  BY <1>b, <1>4, ManualFrame
<1>5. ASSUME NEW c \in Caller, Prompt(c) \/ Trigger(c) \/ Run(c) PROVE UNCHANGED <<unsaved, last>>
  BY <1>5, PromptStarts, TriggerStarts, RunStarts
<1>6. ASSUME NEW c \in Caller, PreflightFails(c) \/ Settled(c) \/ Saves(c) PROVE UNCHANGED <<unsaved, last>>
  BY <1>6 DEF PreflightFails, Settled, Saves, context, post
<1>7. ASSUME NEW c \in Caller, NEW ms, NEW wr \in BOOLEAN, Moves(c, ms, wr)
      PROVE  unsaved' = unsaved /\ last' \in {last, NoMessage}
  BY <1>7, MoveFrame DEF Moves, Remembers
<1>8. ASSUME unsaved' = unsaved, last' \in {last, NoMessage}
      PROVE  OneUnsaved' /\ ReplyOrNone' /\ unsaved' \in Seq(Message) /\ last' \in Message
  BY <1>0, <1>a, <1>8
<1> QED BY <1>b, <1>1, <1>2, <1>3, <1>4, <1>5, <1>6, <1>7, <1>8, Steps

-----------------------------------------------------------------------------
(* What a step does to the context and to the session.                     *)

\* The context loses a failed reply ...
Shortens == \E ms : Shortened(ms) /\ messages' = ms /\ UNCHANGED <<log, unsaved>>
\* ... or takes in the outputs of commands, like the session ...
Flushes ==
  /\ unsaved = <<>> /\ unsaved' = <<>>
  /\ \E ms : Shortened(ms) /\ messages' = ms \o bash
  /\ log' = log \o bash
\* ... or a message of a client, like the session ...
Delivers ==
  \E m \in ClientMessage' :
    /\ m.kind = "aside" \/ (m.kind = "bash" /\ unsaved = <<>> /\ ~active)
    /\ messages' = Append(messages, m) /\ log' = Append(log, m) /\ unsaved' = unsaved
\* ... or one of the run, which is not saved yet ...
Emits ==
  /\ unsaved = <<>> /\ pc # "off"
  /\ \E m \in Message :
       /\ m.kind # "summary" /\ unsaved' = <<m>>
       /\ messages' = Append(messages, m) /\ log' = log
\* ... and then is; ...
SavesIt == unsaved # <<>> /\ log' = log \o unsaved /\ unsaved' = <<>> /\ messages' = messages
\* ... or it is read again after a compaction.
Summarises ==
  /\ unsaved = <<>> /\ pc = "off" /\ unsaved' = <<>>
  /\ \E n \in Nat : n >= 1 /\ log' = Append(log, Summary(n)) /\ messages' = Context(log')

\* Every step does one of these.
LEMMA Recorded ==
  ASSUME Control, Apart', Next
  PROVE  Shortens \/ Flushes \/ Delivers \/ Emits \/ SavesIt \/ Summarises
<1>0. /\ messages \in Seq(Message) /\ log \in Seq(Message) /\ unsaved \in Seq(Message)
      /\ hand \in Seq(ClientMessage) /\ sent \in 0..MaxSent /\ sent \in Nat
  BY SentTypes DEF Control, Kinds, TypeOK
<1>b. ASSUME UNCHANGED <<messages, log, unsaved>> PROVE Shortens
  BY <1>b DEF Shortens, Shortened
<1>1. CASE Asking
  <2>0. unsaved' = unsaved
    BY <1>1, AskingFrame
  <2>1. CASE Queue("user") \/ (active /\ Queue("aside")) \/ SendNextTurn \/ ClearQueue
    BY <1>b, <2>1 DEF Queue, SendNextTurn, ClearQueue, context
  <2>2. CASE SendAside
    <3>1. Accept("aside") \in ClientMessage' /\ Accept("aside").kind = "aside"
      BY <1>0, <2>2, Accepted DEF SendAside, Client
    <3> QED BY <2>0, <2>2, <3>1 DEF SendAside, Delivers
  <2>3. CASE RecordBash
    <3>1. Accept("bash") \in ClientMessage' /\ Accept("bash").kind = "bash"
      BY <1>0, <2>3, Accepted DEF RecordBash, Client
    <3>2. CASE active
      BY <1>b, <2>0, <2>3, <3>2 DEF RecordBash, Record
    <3>3. CASE ~active
      <4>1. unsaved = <<>> BY <3>3 DEF Control, OneRun, IdleIsAlwaysIdle
      <4> QED BY <2>0, <2>3, <3>1, <3>3, <4>1 DEF RecordBash, Record, Delivers
    <3> QED BY <3>2, <3>3
  <2> QED BY <1>1, <2>1, <2>2, <2>3 DEF Asking
<1>2. CASE Abort \/ Compact
  BY <1>b, <1>2, InterruptFrame DEF Control
<1>3. CASE RunStep
  <2>1. ASSUME NEW m \in Message, m.kind # "summary", unsaved = <<>>, pc # "off", unsaved' = <<m>>,
               messages' = Append(messages, m), log' = log
        PROVE  Emits
    BY <2>1 DEF Emits
  <2>2. CASE Emit
    <3>1. /\ hand # <<>> /\ unsaved' = <<Head(hand)>> /\ messages' = Append(messages, Head(hand)) /\ log' = log
          /\ unsaved = <<>> /\ pc # "off"
      BY <2>2 DEF Emit, Quiet
    <3>2. Head(hand) \in ClientMessage
      BY <1>0, <3>1, Taken
    <3>3. Head(hand) \in Message /\ Head(hand).kind # "summary"
      <4>1. Head(hand) \in Message BY <1>0, <3>2, ClientsAreMessages
      <4>2. Head(hand).kind \in Client BY <3>2 DEF ClientMessage
      <4> QED BY <4>1, <4>2 DEF Client
    <3> QED BY <2>1, <3>1, <3>3
  <2>3. CASE Save
    BY <2>3 DEF Save, SavesIt
  <2>4. CASE Poll \/ EndTurn
    BY <1>b, <2>4 DEF Poll, EndTurn, context
  <2>5. ASSUME NEW kind \in Reply, ReplyWith(kind) PROVE Emits
    <3> DEFINE m == [kind |-> kind, n |-> Number(Reply)]
    <3>1. unsaved' = <<m>> /\ messages' = messages \o <<m>> /\ log' = log /\ unsaved = <<>> /\ pc # "off"
      BY <2>5 DEF ReplyWith, Quiet
    <3>2. Number(Reply) \in Nat
      BY <1>0, OfType DEF Number
    <3>3. m \in Message /\ m.kind # "summary"
      BY <3>2 DEF Message, Reply, Failed
    <3> HIDE DEF m
    <3>4. messages \o <<m>> = Append(messages, m)
      BY <1>0, <3>3, AppendIsConcat
    <3> QED BY <2>1, <3>1, <3>3, <3>4
  <2>6. CASE ToolResult
    <3> DEFINE m == [kind |-> "result", n |-> Number(Reply) - 1]
    <3>1. unsaved' = <<m>> /\ messages' = messages \o <<m>> /\ log' = log /\ unsaved = <<>> /\ pc # "off"
      BY <2>6 DEF ToolResult, Quiet
    <3>2. Number(Reply) - 1 \in Nat
      BY <1>0, OfType DEF Number
    <3>3. m \in Message /\ m.kind # "summary"
      BY <3>2 DEF Message
    <3> HIDE DEF m
    <3>4. messages \o <<m>> = Append(messages, m)
      BY <1>0, <3>3, AppendIsConcat
    <3> QED BY <2>1, <3>1, <3>3, <3>4
  <2> QED BY <1>3, <2>2, <2>3, <2>4, <2>5, <2>6 DEF RunStep
<1>4. CASE Manual
  <2>1. unsaved' = unsaved
    BY <1>4, ManualFrame
  <2>2. CASE UNCHANGED <<messages, log>>
    BY <1>b, <2>1, <2>2
  <2>3. CASE ~UNCHANGED <<messages, log>>
    <3>1. manual = "summary" /\ log' = Append(log, Summary(manualCut)) /\ messages' = Context(log')
      BY <1>4, <2>3 DEF Manual, ManualStep
    <3>2. manualCut \in Nat /\ manualCut >= 1 /\ ~active
      BY <3>1 DEF Control, Cuts, OnePreflight, TypeOK
    <3>3. pc = "off" /\ unsaved = <<>>
      BY <3>2 DEF Control, OneRun, IdleIsAlwaysIdle
    <3> QED BY <2>1, <3>1, <3>2, <3>3 DEF Summarises
  <2> QED BY <2>2, <2>3
<1>5. ASSUME NEW c \in Caller, Prompt(c) PROVE Flushes
  BY <1>5, PromptStarts DEF Flushes, Shortened
<1>6. ASSUME NEW c \in Caller, Trigger(c) \/ Run(c) PROVE Shortens
  BY <1>b, <1>6, TriggerStarts, RunStarts
<1>7. ASSUME NEW c \in Caller, PreflightFails(c) \/ Settled(c) PROVE Shortens
  BY <1>b, <1>7 DEF PreflightFails, Settled, context
<1>8. ASSUME NEW c \in Caller, Saves(c) PROVE Summarises
  <2>1. /\ at[c] \in {"precompact", "recover"} /\ log' = Append(log, Summary(cut[c])) /\ messages' = Context(log')
        /\ unsaved' = unsaved
    BY <1>8 DEF Saves
  <2>2. cut[c] \in Nat /\ cut[c] >= 1
    BY <2>1 DEF Control, Cuts, TypeOK
  <2>3. pc = "off"
    <3>1. at[c] \in Preflight \/ (at[c] \in Working /\ at[c] # "running")
      BY <2>1 DEF Preflight, Working
    <3> QED BY <3>1 DEF Control, OneRun, OnePreflight, IdleIsAlwaysIdle
  <2>4. unsaved = <<>>
    BY <2>3 DEF Control, OneRun
  <2> QED BY <2>1, <2>2, <2>3, <2>4 DEF Summarises
<1>9. ASSUME NEW c \in Caller, NEW ms, NEW wr \in BOOLEAN, Moves(c, ms, wr) PROVE Shortens \/ Flushes
  <2>0. Shortened(ms) /\ Free(c) /\ unsaved' = unsaved
    BY <1>9, MoveFrame DEF Moves
  <2>1. CASE Builds(c, ms) \/ Compacts(c, ms, wr) \/ Begins(c, ms) \/ BacksOff(c, ms)
    <3>1. messages' = ms /\ log' = log
      BY <2>1 DEF Builds, Compacts, Begins, BacksOff
    <3> QED BY <2>0, <3>1 DEF Shortens
  <2>2. CASE Ends(c, ms)
    <3>1. messages' = ms \o bash /\ log' = log \o bash /\ at[c] \in Working
      BY <2>2 DEF Ends, Finally, Flush
    <3>2. unsaved = <<>>
      BY <2>0, <3>1, FreeIsOff
    <3> QED BY <2>0, <3>1, <3>2 DEF Flushes
  <2> QED BY <1>9, <2>1, <2>2 DEF Moves
<1> QED BY <1>1, <1>2, <1>3, <1>4, <1>5, <1>6, <1>7, <1>8, <1>9, Steps

\* The session stays a sequence of messages whose summaries keep entries.
LEMMA LogStep ==
  ASSUME Control, Apart', Next
  PROVE  /\ messages' \in Seq(Message) /\ log' \in Seq(Message)
         /\ \A k \in DOMAIN log' : log'[k].kind = "summary" => log'[k].n >= 1
<1> DEFINE Marked(l) == \A k \in DOMAIN l : l[k].kind = "summary" => l[k].n >= 1
<1>0. /\ messages \in Seq(Message) /\ log \in Seq(Message) /\ unsaved \in Seq(Message) /\ Marked(log)
      /\ bash \in Seq(ClientMessage) /\ BashOnly /\ OneUnsaved
  BY DEF Control, Kinds, Cuts, TypeOK, BashOnly, OneUnsaved
<1>a. ClientMessage \subseteq Message /\ bash \in Seq(Message) /\ ClientMessage' \subseteq Message
  <2>1. ClientMessage' \subseteq Message
    BY SentTypes DEF ClientMessage, Message
  <2> QED BY <1>0, <2>1, SentTypes, ClientsAreMessages
<1>b. ASSUME NEW s \in Seq(Message), \A k \in DOMAIN s : s[k].kind # "summary"
      PROVE  log \o s \in Seq(Message) /\ Marked(log \o s)
  <2>1. log \o s \in Seq(Message) /\ Len(log \o s) = Len(log) + Len(s) /\ Len(log) \in Nat /\ Len(s) \in Nat
    BY <1>0
  <2>2. ASSUME NEW k \in 1..(Len(log) + Len(s)), (log \o s)[k].kind = "summary" PROVE (log \o s)[k].n >= 1
    <3>1. CASE k <= Len(log)
      <4>1. (log \o s)[k] = log[k] /\ k \in DOMAIN log BY <1>0, <2>1, <3>1
      <4> QED BY <1>0, <2>2, <4>1
    <3>2. CASE k > Len(log)
      <4>1. (log \o s)[k] = s[k - Len(log)] /\ k - Len(log) \in DOMAIN s BY <1>0, <2>1, <3>2
      <4> QED BY <1>b, <2>2, <4>1
    <3> QED BY <2>1, <3>1, <3>2
  <2>3. DOMAIN (log \o s) = 1..(Len(log) + Len(s))
    BY <2>1
  <2> QED BY <2>1, <2>2, <2>3
<1>1. CASE Shortens
  BY <1>0, <1>1, ShortenedType DEF Shortens, Control
<1>2. CASE Flushes
  <2>1. PICK ms : Shortened(ms) /\ messages' = ms \o bash
    BY <1>2 DEF Flushes
  <2>2. ms \in Seq(Message)
    BY <2>1, ShortenedType DEF Control
  <2>3. messages' \in Seq(Message)
    BY <1>a, <2>1, <2>2
  <2>4. \A k \in DOMAIN bash : bash[k].kind # "summary"
    BY <1>0 DEF BashOnly
  <2>5. log' = log \o bash
    BY <1>2 DEF Flushes
  <2> HIDE DEF Marked
  <2>6. log' \in Seq(Message) /\ Marked(log')
    BY <1>a, <1>b, <2>4, <2>5
  <2> QED BY <2>3, <2>6 DEF Marked
<1>3. ASSUME NEW m \in Message, m.kind # "summary"
      PROVE  /\ Append(messages, m) \in Seq(Message) /\ Append(log, m) \in Seq(Message)
             /\ Marked(Append(log, m))
  <2>1. Append(log, m) = log \o <<m>> /\ <<m>> \in Seq(Message) /\ \A k \in DOMAIN <<m>> : <<m>>[k].kind # "summary"
    BY <1>0, <1>3, AppendIsConcat
  <2>2. Append(messages, m) \in Seq(Message)
    BY <1>0
  <2> HIDE DEF Marked
  <2> QED BY <1>b, <2>1, <2>2
<1>4. CASE Delivers
  <2>1. PICK m \in ClientMessage' :
         m.kind \in {"aside", "bash"} /\ messages' = Append(messages, m) /\ log' = Append(log, m)
    BY <1>4 DEF Delivers
  <2>2. m \in Message /\ m.kind # "summary"
    BY <1>a, <2>1
  <2> HIDE DEF Marked
  <2>3. messages' \in Seq(Message) /\ log' \in Seq(Message) /\ Marked(log')
    BY <1>3, <2>1, <2>2
  <2> QED BY <2>3 DEF Marked
<1>5. CASE Emits
  BY <1>0, <1>3, <1>5 DEF Emits
<1>6. CASE SavesIt
  <2>1. log' = log \o unsaved /\ messages' = messages
    BY <1>6 DEF SavesIt
  <2> HIDE DEF Marked
  <2>2. log' \in Seq(Message) /\ Marked(log')
    BY <1>0, <1>b, <2>1 DEF OneUnsaved
  <2> QED BY <1>0, <2>1, <2>2 DEF Marked
<1>7. CASE Summarises
  <2>1. PICK n \in Nat : n >= 1 /\ log' = Append(log, Summary(n)) /\ messages' = Context(log')
    BY <1>7 DEF Summarises
  <2>2. log' \in Seq(Message) /\ Marked(log')
    BY <1>0, <2>1, ContextOfCompaction
  <2>3. messages' \in Seq(Message)
    BY <2>1, <2>2, ContextType
  <2> QED BY <2>2, <2>3
<1> QED BY <1>1, <1>2, <1>4, <1>5, <1>6, <1>7, Recorded

-----------------------------------------------------------------------------
LEMMA CutsStep ==
  ASSUME Control, Apart', Next
  PROVE  Cuts'
<1> DEFINE Cutting(c) == at[c] \in {"precompact", "recover"} => cut[c] >= 1
<1>0. /\ at \in [Caller -> Stage] /\ cut \in [Caller -> Nat] /\ log \in Seq(Message)
      /\ \A c \in Caller : Cutting(c) /\ (manual = "summary" => manualCut >= 1)
      /\ \A k \in DOMAIN log : log[k].kind = "summary" => log[k].n >= 1
  BY DEF Control, Cuts, TypeOK
<1>m. manual = "summary" => manualCut >= 1
  BY DEF Control, Cuts
<1>a. \A k \in DOMAIN log' : log'[k].kind = "summary" => log'[k].n >= 1
  BY LogStep
<1>b. ASSUME \A c \in Caller : Cutting(c)', (manual = "summary" => manualCut >= 1)' PROVE Cuts'
  BY <1>a, <1>b DEF Cuts
<1> HIDE DEF Cutting
<1>c. ASSUME UNCHANGED <<at, cut, manual, manualCut>> PROVE Cuts'
  BY <1>0, <1>b, <1>c, <1>m DEF Cutting
<1>1. CASE Asking
  BY <1>c, <1>1, AskingFrame
<1>2. CASE Abort \/ Compact
  <2>1. /\ at' = [c \in Caller |-> IF at[c] = "backoff" THEN "cancelled" ELSE at[c]]
        /\ UNCHANGED <<cut, manualCut>> /\ (manual' = manual \/ manual' \in {"wait", "ready"})
    BY <1>2, InterruptFrame DEF Control
  <2>2. \A c \in Caller : Cutting(c)'
    BY <1>0, <2>1 DEF Cutting
  <2> QED BY <1>b, <1>m, <2>1, <2>2
<1>3. CASE RunStep
  BY <1>c, <1>3, RunFrame
<1>4. CASE Manual
  <2>1. UNCHANGED <<at, cut>>
    BY <1>4, ManualFrame
  <2>2. (manual = "summary" => manualCut >= 1)'
    <3>1. manual' = "summary" => manualCut' = CutPoint(log) /\ Preparable(log)
      BY <1>4 DEF Manual, ManualStep
    <3> QED BY <1>0, <3>1, CutPointIs
  <2>3. \A c \in Caller : Cutting(c)'
    BY <1>0, <2>1 DEF Cutting
  <2> QED BY <1>b, <2>2, <2>3
<1>5. ASSUME NEW c \in Caller, \A d \in Caller : d # c => at'[d] = at[d] /\ cut'[d] = cut[d],
             Cutting(c)', manual' \in {manual, "ready"}, manualCut' = manualCut
      PROVE  Cuts'
  <2>1. \A d \in Caller : Cutting(d)'
    BY <1>0, <1>5 DEF Cutting
  <2> QED BY <1>b, <1>m, <1>5, <2>1
<1>6. ASSUME NEW c \in Caller, Prompt(c) \/ Trigger(c) \/ Run(c) \/ PreflightFails(c) \/ Settled(c) \/ Saves(c)
      PROVE  Cuts'
  <2>1. /\ cut' = cut /\ \A d \in Caller : d # c => at'[d] = at[d]
        /\ at'[c] \in {"preflight", "running", "idle", "presaved", "restored"}
        /\ manual' \in {manual, "ready"} /\ manualCut' = manualCut
    <3>1. CASE Prompt(c)
      BY <1>0, <3>1, PromptStarts
    <3>2. CASE Trigger(c) \/ Run(c)
      BY <1>0, <3>2, TriggerStarts, RunStarts DEF StartRun
    <3>3. CASE PreflightFails(c) \/ Settled(c)
      BY <1>0, <3>3 DEF PreflightFails, Settled, idling
    <3>4. CASE Saves(c)
      BY <1>0, <3>4 DEF Saves, idling
    <3> QED BY <1>6, <3>1, <3>2, <3>3, <3>4
  <2> QED BY <1>5, <2>1 DEF Cutting
<1>7. ASSUME NEW c \in Caller, NEW ms, NEW wr \in BOOLEAN, Moves(c, ms, wr) PROVE Cuts'
  <2>1. /\ \A d \in Caller : d # c => at'[d] = at[d]
        /\ manual' = manual /\ manualCut' = manualCut
    BY <1>7, MoveFrame
  <2>2. CASE Compacts(c, ms, wr)
    <3>1. /\ \A d \in Caller : cut'[d] = IF d = c THEN CutPoint(log) ELSE cut[d]
          /\ Preparable(log)
      BY <1>0, <2>2 DEF Compacts
    <3>2. CutPoint(log) >= 1
      BY <1>0, <3>1, CutPointIs
    <3> QED BY <1>5, <2>1, <3>1, <3>2 DEF Cutting
  <2>3. CASE Builds(c, ms) \/ Ends(c, ms) \/ Begins(c, ms) \/ BacksOff(c, ms)
    <3>1. cut' = cut /\ at'[c] \in {"before", "settling", "running", "backoff"}
      BY <1>0, <2>3 DEF Builds, Ends, Finally, Begins, StartRun, BacksOff
    <3> QED BY <1>5, <2>1, <3>1 DEF Cutting
  <2> QED BY <1>7, <2>2, <2>3 DEF Moves
<1> QED BY <1>1, <1>2, <1>3, <1>4, <1>6, <1>7, Steps

\* What stands in the context besides replies stays, or is summarised.
LEMMA GroundedKept ==
  ASSUME Control, Apart', Next, Grounded(messages)
  PROVE  Grounded(messages')
<1>0. /\ messages \in Seq(Message) /\ log \in Seq(Message) /\ bash \in Seq(Message)
      /\ \A k \in DOMAIN log : log[k].kind = "summary" => log[k].n >= 1
      /\ messages' \in Seq(Message) /\ ClientMessage' \subseteq Message
  <2>1. ClientMessage' \subseteq Message
    BY SentTypes DEF ClientMessage, Message
  <2> QED BY <2>1, LogStep DEF Control, Cuts, TypeOK
<1>1. ASSUME NEW ms, Shortened(ms), NEW s \in Seq(Message) PROVE Grounded(ms) /\ Grounded(ms \o s)
  <2>1. Grounded(ms) /\ ms \in Seq(Message)
    BY <1>1, GroundedStays DEF Control
  <2>2. PICK k \in DOMAIN ms : ms[k].kind \notin Reply
    BY <2>1 DEF Grounded
  <2>3. k \in DOMAIN (ms \o s) /\ (ms \o s)[k] = ms[k]
    BY <1>1, <2>1, <2>2
  <2> QED BY <2>1, <2>2, <2>3 DEF Grounded
<1>2. ASSUME NEW m \in Message PROVE Grounded(Append(messages, m))
  <2>1. Append(messages, m) = messages \o <<m>> /\ <<m>> \in Seq(Message)
    BY <1>0, AppendIsConcat
  <2>2. Shortened(messages) BY DEF Shortened
  <2> QED BY <1>1, <2>1, <2>2
<1>3. CASE Shortens
  BY <1>1, <1>3, EmptySeq DEF Shortens
<1>4. CASE Flushes
  BY <1>0, <1>1, <1>4 DEF Flushes
<1>5. CASE Delivers \/ Emits
  BY <1>0, <1>2, <1>5 DEF Delivers, Emits
<1>6. CASE SavesIt
  BY <1>6 DEF SavesIt
<1>7. CASE Summarises
  BY <1>0, <1>7, ContextOfCompaction DEF Summarises
<1> QED BY <1>3, <1>4, <1>5, <1>6, <1>7, Recorded

\* The context is never one of replies alone.
LEMMA PromptedStep ==
  ASSUME Control, Apart', Next
  PROVE  Prompted'
<1> DEFINE Late(c) == at[c] \in Working /\ at[c] # "running"
<1>0. /\ at \in [Caller -> Stage] /\ messages \in Seq(Message) /\ hand \in Seq(ClientMessage)
      /\ pc \notin {"off", "prompts"} => Grounded(messages)
      /\ pc = "prompts" => hand # <<>> \/ Grounded(messages)
      /\ \A c \in Caller : Late(c) => Grounded(messages)
  BY DEF Control, Kinds, Prompted, TypeOK
<1>a. Grounded(messages) => Prompted'
  BY GroundedKept DEF Prompted
<1>b. ASSUME UNCHANGED <<pc, hand>>, \A c \in Caller : Late(c)' => Late(c) PROVE Prompted'
  <2>1. CASE Grounded(messages)
    BY <1>a, <2>1
  <2>2. CASE ~Grounded(messages)
    BY <1>0, <1>b, <2>2 DEF Prompted
  <2> QED BY <2>1, <2>2
<1>1. CASE Asking
  BY <1>b, <1>1, AskingFrame
<1>2. CASE Abort \/ Compact
  <2>1. /\ at' = [c \in Caller |-> IF at[c] = "backoff" THEN "cancelled" ELSE at[c]]
        /\ UNCHANGED <<pc, hand>>
    BY <1>2, InterruptFrame DEF Control
  <2>2. \A c \in Caller : Late(c)' => Late(c)
    BY <1>0, <2>1 DEF Working
  <2> QED BY <1>b, <2>1, <2>2
<1>3. CASE RunStep
  <2>1. CASE Emit
    <3>1. hand # <<>> /\ messages' = Append(messages, Head(hand))
      BY <2>1 DEF Emit
    <3>2. Head(hand) \in ClientMessage /\ sent \in Nat
      BY <1>0, <3>1, Taken, SentTypes
    <3>3. Head(hand).kind \notin Reply /\ Head(hand) \in Message
      BY <3>2, ClientsAreMessages DEF ClientMessage, Client, Reply, Failed
    <3> DEFINE h == Head(hand)
    <3> HIDE DEF h
    <3>4. Len(messages) + 1 \in DOMAIN Append(messages, h) /\ Append(messages, h)[Len(messages) + 1] = h
      BY <1>0
    <3>5. Grounded(messages')
      BY <3>1, <3>3, <3>4 DEF Grounded, h
    <3> QED BY <3>5 DEF Prompted
  <2>2. CASE Save
    BY <1>b, <1>3, <2>2, RunFrame DEF Save
  <2>3. CASE Poll \/ ToolResult \/ EndTurn \/ \E kind \in Reply : ReplyWith(kind)
    <3>1. pc \notin {"off", "prompts"} \/ (pc = "prompts" /\ hand = <<>>)
      BY <2>3 DEF Poll, ToolResult, EndTurn, ReplyWith
    <3> QED BY <1>0, <1>a, <3>1
  <2> QED BY <1>3, <2>1, <2>2, <2>3 DEF RunStep
<1>4. CASE Manual
  BY <1>b, <1>4, ManualFrame
<1>5. ASSUME NEW c \in Caller, Prompt(c) \/ PreflightFails(c) \/ Settled(c) PROVE Prompted'
  <2>1. /\ UNCHANGED <<pc, hand>>
        /\ \A d \in Caller : d # c => at'[d] = at[d]
        /\ at'[c] \in {"preflight", "idle"}
    BY <1>0, <1>5, PromptStarts DEF PreflightFails, Settled, run
  <2> QED BY <1>b, <2>1 DEF Working
<1>6. ASSUME NEW c \in Caller, Trigger(c) \/ Run(c) PROVE Prompted'
  <2>1. /\ pc' = "prompts" /\ hand' # <<>> /\ ~active
        /\ \A d \in Caller : at'[d] = IF d = c THEN "running" ELSE at[d]
    <3>1. CASE Trigger(c)
      <4>1. at' = [at EXCEPT ![c] = "running"] /\ hand' = <<Accept("aside")>> /\ pc' = "prompts" /\ ~active
        BY <3>1, TriggerStarts DEF StartRun
      <4>2. <<Accept("aside")>> # <<>>
        OBVIOUS
      <4> QED BY <1>0, <4>1, <4>2
    <3>2. CASE Run(c)
      <4>1. at' = [at EXCEPT ![c] = "running"] /\ hand' = held[c] /\ held[c] # <<>> /\ pc' = "prompts" /\ ~active
        BY <3>2, RunStarts DEF StartRun
      <4> QED BY <1>0, <4>1
    <3> QED BY <1>6, <3>1, <3>2
  <2>2. \A d \in Caller : ~ Late(d)'
    BY <2>1 DEF Control, OneRun, IdleIsAlwaysIdle
  <2> QED BY <2>1, <2>2 DEF Prompted
<1>7. ASSUME NEW c \in Caller, Saves(c) PROVE Prompted'
  <2>1. /\ UNCHANGED <<pc, hand>> /\ at[c] \in {"precompact", "recover"}
        /\ \A d \in Caller : at'[d] = IF d = c THEN IF at[c] = "precompact" THEN "presaved" ELSE "restored" ELSE at[d]
    BY <1>0, <1>7 DEF Saves, run
  <2>2. \A d \in Caller : Late(d)' => Late(d)
    BY <2>1 DEF Working
  <2> QED BY <1>b, <2>1, <2>2
<1>8. ASSUME NEW c \in Caller, NEW ms, NEW wr \in BOOLEAN, Moves(c, ms, wr) PROVE Prompted'
  <2>0. Free(c)
    BY <1>8 DEF Moves
  <2>1. CASE at[c] \in Working
    BY <1>a, <2>0, <2>1, FreeIsOff
  <2>2. CASE at[c] \in Preflight
    <3>1. /\ pc = "off" /\ at[c] # "running" /\ at[c] \notin Working
          /\ \A d \in Caller : d # c => at[d] \notin Working /\ at'[d] = at[d]
      <4>1. \A d \in Caller : d # c => at[d] \notin Working
        BY <2>2, Alone
      <4>2. \A d \in Caller : d # c => at'[d] = at[d]
        BY <1>8, MoveFrame
      <4>3. at[c] \notin Working /\ at[c] # "running"
        BY <2>2, Disjoint DEF Preflight
      <4>4. ~active
        BY <2>2 DEF Control, OnePreflight
      <4>5. pc = "off"
        BY <4>4 DEF Control, OneRun, IdleIsAlwaysIdle
      <4> QED BY <4>1, <4>2, <4>3, <4>5
    <3>2. at'[c] \in {"before", "precompact"}
      BY <1>8, <3>1, MoveFrame
    <3>3. pc' = "off"
      <4>1. CASE Builds(c, ms) BY <3>1, <4>1 DEF Builds, run
      <4>2. CASE Compacts(c, ms, wr) BY <3>1, <4>2 DEF Compacts, PcAfter
      <4>3. CASE Ends(c, ms) \/ Begins(c, ms) \/ BacksOff(c, ms)
        BY <3>1, <4>3 DEF Ends, Begins, BacksOff
      <4> QED BY <1>8, <4>1, <4>2, <4>3 DEF Moves
    <3>4. \A d \in Caller : ~ Late(d)'
      BY <3>1, <3>2 DEF Working
    <3> QED BY <3>3, <3>4 DEF Prompted
  <2> QED BY <2>0, <2>1, <2>2 DEF Free
<1> QED BY <1>1, <1>2, <1>3, <1>4, <1>5, <1>6, <1>7, <1>8, Steps

-----------------------------------------------------------------------------
LEMMA ReplyIsLastStep ==
  ASSUME Control, Apart', Next
  PROVE  ReplyIsLast'
<1> DEFINE Replied == {"tool", "replied", "end"}
<1>0. /\ messages \in Seq(Message) /\ unsaved \in Seq(Message) /\ ReplyIsLast
      /\ pc \in Replied => active /\ pc # "off"
      /\ Len(unsaved) <= 1
  BY DEF Control, Kinds, OneRun, IdleIsAlwaysIdle, TypeOK
<1>a. pc' \notin Replied => ReplyIsLast'
  BY DEF ReplyIsLast
<1>b. ASSUME UNCHANGED <<pc, unsaved, last, messages>> PROVE ReplyIsLast'
  BY <1>0, <1>b DEF ReplyIsLast, IsReply
<1>1. CASE Asking
  <2>1. UNCHANGED <<pc, unsaved, last, hand>>
    BY <1>1, AskingFrame
  <2>2. CASE SendAside \/ RecordBash
    <3>1. messages' = messages \/ \E kind \in {"aside", "bash"} : messages' = Append(messages, Accept(kind))
      BY <2>2 DEF SendAside, RecordBash, Record
    <3>2. ASSUME NEW kind \in {"aside", "bash"}, messages' = Append(messages, Accept(kind)) PROVE ReplyIsLast'
      <4>1. Accept(kind) \in ClientMessage' /\ Accept(kind).kind = kind /\ sent \in 0..MaxSent
        <5>1. sent \in 0..MaxSent BY DEF Control, TypeOK
        <5>2. Send BY <2>2 DEF SendAside, RecordBash
        <5> QED BY <5>1, <5>2, Accepted DEF Client
      <4> DEFINE m == Accept(kind)
      <4>2. m.kind \notin Reply
        BY <4>1 DEF Reply, Failed
      <4> HIDE DEF m
      <4>3. ~ IsReply(Append(messages, m))
        <5>1. Last(Append(messages, m)) = m
          BY <1>0 DEF Last
        <5> QED BY <4>2, <5>1 DEF IsReply
      <4>4. ~ IsReply(messages')
        BY <3>2, <4>3 DEF m
      <4> QED BY <1>0, <2>1, <4>4 DEF ReplyIsLast
    <3> QED BY <1>b, <2>1, <3>1, <3>2
  <2>3. CASE Queue("user") \/ (active /\ Queue("aside")) \/ SendNextTurn \/ ClearQueue
    BY <1>b, <2>1, <2>3 DEF Queue, SendNextTurn, ClearQueue, context
  <2> QED BY <1>1, <2>2, <2>3 DEF Asking
<1>2. CASE Abort \/ Compact
  BY <1>b, <1>2, InterruptFrame DEF Control
<1>3. CASE RunStep
  <2>1. CASE Emit \/ Poll \/ ToolResult
    BY <1>a, <2>1 DEF Emit, Poll, ToolResult
  <2>2. CASE Save
    <3>1. /\ unsaved # <<>> /\ unsaved' = <<>> /\ UNCHANGED <<messages, pc>>
          /\ unsaved[1].kind \in Reply => last' = unsaved[1]
      BY <2>2 DEF Save
    <3> QED BY <1>0, <3>1 DEF ReplyIsLast, IsReply
  <2>3. CASE EndTurn
    <3>1. /\ unsaved = <<>> /\ UNCHANGED <<messages, unsaved, last>>
          /\ pc' \in Replied => pc = "replied"
      BY <2>3 DEF EndTurn, Quiet, context, post
    <3> QED BY <1>0, <3>1 DEF ReplyIsLast, IsReply
  <2>4. ASSUME NEW kind \in Reply, ReplyWith(kind) PROVE ReplyIsLast'
    <3> DEFINE m == [kind |-> kind, n |-> Number(Reply)]
    <3>1. unsaved' = <<m>> /\ messages' = messages \o <<m>> /\ m.kind = kind
      BY <2>4 DEF ReplyWith
    <3>2. Number(Reply) \in Nat
      <4>1. log \in Seq(Message) BY DEF Control, TypeOK
      <4> QED BY <4>1, OfType DEF Number
    <3>3. m \in Message
      BY <3>2 DEF Message
    <3> HIDE DEF m
    <3>4. Last(messages \o <<m>>) = m
      BY <1>0, <3>3 DEF Last
    <3> QED BY <3>1, <3>4 DEF ReplyIsLast
  <2> QED BY <1>3, <2>1, <2>2, <2>3, <2>4 DEF RunStep
<1>4. ASSUME ~active, pc' = pc PROVE ReplyIsLast'
  BY <1>0, <1>a, <1>4
<1>5. CASE Manual
  <2>1. CASE UNCHANGED messages
    BY <1>b, <1>5, <2>1, ManualFrame
  <2>2. CASE ~UNCHANGED messages
    <3>1. manual = "summary" BY <1>5, <2>2 DEF Manual, ManualStep
    <3>2. ~active BY <3>1 DEF Control, OnePreflight
    <3> QED BY <1>4, <1>5, <3>2, ManualFrame
  <2> QED BY <2>1, <2>2
<1>6. ASSUME NEW c \in Caller, Prompt(c) PROVE ReplyIsLast'
  BY <1>4, <1>6, PromptStarts
<1>7. ASSUME NEW c \in Caller, Trigger(c) \/ Run(c) PROVE ReplyIsLast'
  BY <1>a, <1>7, TriggerStarts, RunStarts DEF StartRun
<1>8. ASSUME NEW c \in Caller, PreflightFails(c) \/ Settled(c) PROVE ReplyIsLast'
  BY <1>b, <1>8 DEF PreflightFails, Settled, context, run, post
<1>9. ASSUME NEW c \in Caller, Saves(c) PROVE ReplyIsLast'
  <2>1. pc' = pc /\ at[c] \in {"precompact", "recover"}
    BY <1>9 DEF Saves, run
  <2>2. pc = "off"
    <3>1. at[c] \in Preflight \/ (at[c] \in Working /\ at[c] # "running")
      BY <2>1 DEF Preflight, Working
    <3> QED BY <3>1 DEF Control, OneRun, OnePreflight, IdleIsAlwaysIdle
  <2> QED BY <1>a, <2>1, <2>2
<1>10. ASSUME NEW c \in Caller, NEW ms, NEW wr \in BOOLEAN, Moves(c, ms, wr) PROVE ReplyIsLast'
  <2>0. Free(c)
    BY <1>10 DEF Moves
  <2>1. CASE at[c] \in Preflight
    <3>1. ~active /\ at[c] # "running"
      BY <2>1 DEF Control, OnePreflight, Preflight
    <3>2. Builds(c, ms) \/ Compacts(c, ms, wr)
      BY <1>10, <2>1, Disjoint DEF Moves, Ends, Begins, BacksOff
    <3>3. pc' = pc
      BY <3>1, <3>2 DEF Builds, Compacts, run, PcAfter
    <3> QED BY <1>4, <3>1, <3>3
  <2>2. CASE at[c] \in Working
    <3>1. PcAfter(c) = "off"
      BY <2>0, <2>2, FreeIsOff
    <3>2. pc' \in {"off", "prompts"}
      <4>1. ~Builds(c, ms)
        BY <2>2, Disjoint DEF Builds
      <4> QED BY <1>10, <3>1, <4>1 DEF Moves, Compacts, Ends, Finally, Begins, StartRun, BacksOff
    <3> QED BY <1>a, <3>2
  <2> QED BY <2>0, <2>1, <2>2 DEF Free
<1> QED BY <1>1, <1>2, <1>3, <1>5, <1>6, <1>7, <1>8, <1>9, <1>10, Steps

-----------------------------------------------------------------------------
\* The types of what is not a sequence of messages.
PlainTypes ==
  /\ gone \subseteq 1..sent /\ sent \in 0..MaxSent
  /\ pc \in {"off", "prompts", "inject", "tool", "called", "replied", "end"}
  /\ {skip, aborted, recovered, active, waiter, refused} \subseteq BOOLEAN
  /\ retryAttempt \in 0..MaxRetries /\ recoveries \in Nat
  /\ manual \in {"off", "wait", "ready", "summary", "saved"} /\ manualCut \in Nat

\* The types of what callers have.
CallerTypes ==
  /\ at \in [Caller -> Stage] /\ held \in [Caller -> Seq(Message)]
  /\ cut \in [Caller -> Nat] /\ retry \in [Caller -> BOOLEAN]

\* What is made of numbers of sent messages.
LEMMA Numbered ==
  ASSUME sent \in Nat, NEW s \in Seq(ClientMessage)
  PROVE  {m.n : m \in ToSet(s)} \subseteq 1..sent
<1>1. ASSUME NEW m \in ToSet(s) PROVE m.n \in 1..sent
  <2>1. PICK k \in 1..Len(s) : m = s[k]
    BY <1>1 DEF ToSet
  <2>2. s[k] \in ClientMessage
    BY <2>1
  <2> QED BY <2>1, <2>2 DEF ClientMessage
<1> QED BY <1>1

\* Only sent messages are withdrawn.
LEMMA GoneStep ==
  ASSUME Control, Apart', Next
  PROVE  gone' \subseteq 1..sent'
<1>0. /\ sent \in Nat /\ sent' \in Nat /\ sent' >= sent /\ gone \subseteq 1..sent
      /\ steering \in Seq(ClientMessage) /\ followUp \in Seq(ClientMessage)
      /\ \A c \in Caller : held[c] \in Seq(ClientMessage)
  BY SentTypes DEF Control, Kinds, TypeOK
<1>a. 1..sent \subseteq 1..sent'
  BY <1>0
<1>b. gone' = gone => gone' \subseteq 1..sent'
  BY <1>0, <1>a
<1>1. CASE ClearQueue
  <2>1. gone' = gone \cup {m.n : m \in ToSet(steering \o followUp)}
    BY <1>1 DEF ClearQueue
  <2> HIDE DEF ClientMessage
  <2>2. steering \o followUp \in Seq(ClientMessage)
    BY <1>0
  <2> QED BY <1>0, <1>a, <2>1, <2>2, Numbered
<1>2. ASSUME NEW c \in Caller, PreflightFails(c) PROVE gone' \subseteq 1..sent'
  BY <1>0, <1>a, <1>2, Numbered DEF PreflightFails
<1>3. CASE Asking /\ ~ClearQueue
  BY <1>b, <1>3 DEF Asking, Queue, SendNextTurn, SendAside, RecordBash
<1>4. CASE Abort \/ Compact
  BY <1>b, <1>4, InterruptFrame DEF Control
<1>5. CASE RunStep \/ Manual
  BY <1>b, <1>5, RunFrame, ManualFrame
<1>6. ASSUME NEW c \in Caller,
             Prompt(c) \/ Trigger(c) \/ Run(c) \/ Settled(c) \/ Saves(c) \/ \E ms : \E wr \in BOOLEAN : Moves(c, ms, wr)
      PROVE  gone' = gone
  <2>1. CASE Prompt(c) \/ Trigger(c) \/ Run(c)
    BY <2>1, PromptStarts, TriggerStarts, RunStarts
  <2>2. CASE Settled(c) \/ Saves(c)
    BY <2>2 DEF Settled, Saves, history
  <2>3. CASE \E ms : \E wr \in BOOLEAN : Moves(c, ms, wr)
    BY <2>3 DEF Moves, Remembers
  <2> QED BY <1>6, <2>1, <2>2, <2>3
<1> QED BY <1>b, <1>1, <1>2, <1>3, <1>4, <1>5, <1>6, Steps

\* The plain types are kept.
LEMMA PlainTypesStep ==
  ASSUME Control, Apart', Next
  PROVE  PlainTypes'
<1>0. /\ PlainTypes /\ unsaved \in Seq(Message) /\ at \in [Caller -> Stage]
      /\ MaxRetries \in Nat /\ 0 \in 0..MaxRetries
  BY BoundsAssumption DEF Control, TypeOK, PlainTypes
<1>a. gone' \subseteq 1..sent' /\ sent' \in 0..MaxSent
  BY GoneStep, SentGrows
<1> DEFINE Rest == /\ pc \in {"off", "prompts", "inject", "tool", "called", "replied", "end"}
                   /\ {skip, aborted, recovered, active, waiter, refused} \subseteq BOOLEAN
                   /\ retryAttempt \in 0..MaxRetries /\ recoveries \in Nat
                   /\ manual \in {"off", "wait", "ready", "summary", "saved"} /\ manualCut \in Nat
<1>b. Rest
  BY <1>0 DEF PlainTypes
<1>c. SUFFICES Rest'
  BY <1>a DEF PlainTypes
<1>1. CASE Asking
  BY <1>b, <1>1, AskingFrame
<1>2. CASE Abort \/ Compact
  <2>1. manual' = manual \/ manual' \in {"wait", "ready"}
    BY <1>2, InterruptFrame DEF Control
  <2> QED BY <1>b, <1>2, <2>1, InterruptFrame DEF Control
<1>3. CASE RunStep
  <2>1. UNCHANGED <<active, waiter, manual, manualCut, aborted, refused>>
    BY <1>3, RunFrame
  <2>2. CASE Emit
    BY <1>b, <2>1, <2>2 DEF Emit, runRest
  <2>3. CASE Save
    <3>1. UNCHANGED <<pc, skip>>
      BY <2>3 DEF Save, runRest
    <3>2. recovered' \in BOOLEAN /\ recoveries' \in Nat
      <4>1. recovered \in BOOLEAN /\ recoveries \in Nat
        BY <1>b
      <4>2. CASE unsaved[1].kind \notin Reply
        BY <4>1, <4>2, <2>3 DEF Save, post
      <4>3. CASE unsaved[1].kind \in Reply
        <5>1. /\ recovered' = StillRecovered(unsaved[1])
              /\ recoveries' = IF unsaved[1].kind \in Failed THEN recoveries ELSE 0
          BY <4>3, <2>3 DEF Save
        <5>2. StillRecovered(unsaved[1]) \in BOOLEAN
          BY <4>1 DEF StillRecovered
        <5> QED BY <4>1, <5>1, <5>2
      <4> QED BY <4>2, <4>3
    <3>3. retryAttempt' \in {retryAttempt, 0}
      BY <2>3 DEF Save, post
    <3>4. retryAttempt' \in 0..MaxRetries
      BY <1>0, <1>b, <3>3
    <3> QED BY <1>b, <2>1, <3>1, <3>2, <3>4
  <2>4. CASE Poll
    BY <1>b, <2>1, <2>4 DEF Poll, post, history
  <2>5. CASE EndTurn
    BY <1>b, <2>1, <2>5 DEF EndTurn, post, runRest
  <2>6. CASE ToolResult \/ \E kind \in Reply : ReplyWith(kind)
    BY <1>b, <2>1, <2>6 DEF ToolResult, ReplyWith, post, runRest
  <2> QED BY <1>3, <2>2, <2>3, <2>4, <2>5, <2>6 DEF RunStep
<1>4. CASE Manual
  <2>1. manual' \in {"off", "summary", "saved"} /\ (manualCut' = manualCut \/ (manualCut' = CutPoint(log) /\ Preparable(log)))
    BY <1>4 DEF Manual, ManualStep
  <2>2. manualCut' \in Nat
    <3>1. log \in Seq(Message) /\ \A k \in DOMAIN log : log[k].kind = "summary" => log[k].n >= 1
      BY DEF Control, Cuts, TypeOK
    <3> QED BY <1>b, <2>1, <3>1, CutPointIs
  <2> QED BY <1>b, <1>4, <2>1, <2>2, ManualFrame
<1>5. ASSUME NEW c \in Caller, Prompt(c) PROVE Rest'
  BY <1>b, <1>5, PromptStarts DEF Prompt
<1>6. ASSUME NEW c \in Caller, Trigger(c) \/ Run(c) PROVE Rest'
  BY <1>b, <1>6, TriggerStarts, RunStarts DEF StartRun
<1>7. ASSUME NEW c \in Caller, PreflightFails(c) \/ Settled(c) PROVE Rest'
  <2>1. UNCHANGED <<pc, skip, aborted, recovered, active, refused, retryAttempt, recoveries, manualCut>>
    BY <1>7 DEF PreflightFails, Settled, run, post, idling, history
  <2>2. waiter' \in BOOLEAN /\ manual' \in {manual, "ready"}
    BY <1>b, <1>7 DEF PreflightFails, Settled, idling
  <2> QED BY <1>b, <2>1, <2>2
<1>8. ASSUME NEW c \in Caller, Saves(c) PROVE Rest'
  BY <1>b, <1>8 DEF Saves, run, idling, post
<1>9. ASSUME NEW c \in Caller, NEW ms, NEW wr \in BOOLEAN, Moves(c, ms, wr) PROVE Rest'
  <2>1. recovered' \in BOOLEAN /\ recoveries' \in Nat /\ retryAttempt' \in 0..MaxRetries
    <3>1. recovered \in BOOLEAN /\ recoveries \in Nat /\ recoveries + 1 \in Nat
      BY <1>b
    <3>2. /\ recovered' = recovered \/ recovered' = TRUE
          /\ recoveries' = recoveries \/ recoveries' = recoveries + 1
          /\ retryAttempt' \in 0..MaxRetries
      BY <1>9 DEF Moves, Remembers
    <3> QED BY ONLY <3>1, <3>2
  <2>2. UNCHANGED <<waiter, manual, manualCut>> /\ active' \in BOOLEAN
    BY <1>b, <1>9, MoveFrame
  <2>3. /\ pc' \in {pc, "off", "prompts"} /\ skip' \in BOOLEAN /\ aborted' \in BOOLEAN /\ refused' \in BOOLEAN
    <3>1. CASE Builds(c, ms)
      BY <1>b, <3>1 DEF Builds, run
    <3>2. CASE Compacts(c, ms, wr)
      BY <1>b, <3>2 DEF Compacts, PcAfter
    <3>3. CASE Ends(c, ms)
      BY <1>b, <3>3 DEF Ends, Finally, PcAfter
    <3>4. CASE Begins(c, ms)
      BY <1>b, <3>4 DEF Begins, StartRun
    <3>5. CASE BacksOff(c, ms)
      BY <1>b, <3>5 DEF BacksOff
    <3> QED BY <1>9, <3>1, <3>2, <3>3, <3>4, <3>5 DEF Moves
  <2> QED BY <1>b, <2>1, <2>2, <2>3
<1> QED BY <1>1, <1>2, <1>3, <1>4, <1>5, <1>6, <1>7, <1>8, <1>9, Steps

-----------------------------------------------------------------------------
LEMMA CallerTypesStep ==
  ASSUME Control, Apart', Next
  PROVE  CallerTypes'
<1>0. /\ at \in [Caller -> Stage] /\ held \in [Caller -> Seq(Message)]
      /\ cut \in [Caller -> Nat] /\ retry \in [Caller -> BOOLEAN]
      /\ log \in Seq(Message) /\ \A k \in DOMAIN log : log[k].kind = "summary" => log[k].n >= 1
  BY DEF Control, TypeOK, Cuts
<1>a. \A c \in Caller : held'[c] \in Seq(Message)
  <2>1. sent' \in Nat
    BY SentTypes
  <2>2. \A c \in Caller : held'[c] \in Seq(ClientMessage')
    BY HeldStep DEF HeldByPrompts
  <2>3. Seq(ClientMessage') \subseteq Seq(Message)
    <3>1. ClientMessage' \subseteq Message
      BY <2>1 DEF ClientMessage, Message
    <3> HIDE DEF ClientMessage
    <3> QED BY <3>1
  <2> QED BY <2>2, <2>3
<1>b. ASSUME DOMAIN held' = Caller, held' = [c \in Caller |-> held'[c]], at' \in [Caller -> Stage], UNCHANGED <<cut, retry>>
      PROVE  CallerTypes'
  BY <1>0, <1>a, <1>b DEF CallerTypes
<1>s. /\ {"idle", "settling", "preflight", "before", "running", "backoff", "cancelled", "recover", "precompact", "presaved", "restored"} \subseteq Stage
  BY DEF Stage, Preflight, Working
<1>c. \A c \in Caller, x \in Stage : [at EXCEPT ![c] = x] \in [Caller -> Stage]
  BY <1>0
<1>d. \A c \in Caller : \A x : DOMAIN [held EXCEPT ![c] = x] = Caller /\ [held EXCEPT ![c] = x] = [d \in Caller |-> [held EXCEPT ![c] = x][d]]
  BY <1>0
<1>e. DOMAIN held = Caller /\ held = [d \in Caller |-> held[d]]
  BY <1>0
<1> HIDE DEF CallerTypes
<1>1. CASE Asking \/ RunStep \/ Manual
  <2>1. UNCHANGED <<at, held, cut, retry>>
    BY <1>1, AskingFrame, RunFrame, ManualFrame
  <2> QED BY <1>0, <2>1 DEF CallerTypes
<1>2. CASE Abort \/ Compact
  <2>1. TypeOK
    BY DEF Control
  <2>2. /\ at' = [c \in Caller |-> IF at[c] = "backoff" THEN "cancelled" ELSE at[c]]
        /\ UNCHANGED <<held, cut, retry>>
    BY <1>2, <2>1, InterruptFrame
  <2>3. at' \in [Caller -> Stage]
    BY <1>0, <1>s, <2>2
  <2> QED BY <1>b, <1>e, <2>2, <2>3
<1>3. ASSUME NEW c \in Caller, Prompt(c) \/ Trigger(c) PROVE CallerTypes'
  <2>1. /\ \E x : held' = [held EXCEPT ![c] = x]
        /\ at' = [at EXCEPT ![c] = "preflight"] \/ at' = [at EXCEPT ![c] = "running"]
        /\ UNCHANGED <<cut, retry>>
    BY <1>3, PromptStarts, TriggerStarts DEF StartRun
  <2>2. DOMAIN held' = Caller /\ held' = [d \in Caller |-> held'[d]]
    BY <1>d, <2>1
  <2>3. at' \in [Caller -> Stage]
    BY <1>c, <1>s, <2>1
  <2> QED BY <1>b, <2>1, <2>2, <2>3
<1>4. ASSUME NEW c \in Caller, Run(c) PROVE CallerTypes'
  <2>1. /\ held' = [held EXCEPT ![c] = <<>>] /\ at' = [at EXCEPT ![c] = "running"] /\ UNCHANGED <<cut, retry>>
    BY <1>4, RunStarts DEF StartRun
  <2> QED BY <1>b, <1>c, <1>d, <1>s, <2>1
<1>5. ASSUME NEW c \in Caller, PreflightFails(c) \/ Settled(c) PROVE CallerTypes'
  <2>1. /\ held' = held \/ held' = [held EXCEPT ![c] = <<>>]
        /\ at' = [at EXCEPT ![c] = "idle"] /\ UNCHANGED <<cut, retry>>
    BY <1>5 DEF PreflightFails, Settled
  <2> QED BY <1>b, <1>c, <1>d, <1>e, <1>s, <2>1
<1>6. ASSUME NEW c \in Caller, Saves(c) PROVE CallerTypes'
  <2>1. /\ held' = held /\ UNCHANGED <<cut, retry>>
        /\ at' = [at EXCEPT ![c] = IF at[c] = "precompact" THEN "presaved" ELSE "restored"]
    BY <1>6 DEF Saves
  <2> QED BY <1>b, <1>c, <1>e, <1>s, <2>1
<1>7. ASSUME NEW c \in Caller, NEW ms, NEW wr \in BOOLEAN, Moves(c, ms, wr) PROVE CallerTypes'
  <2>1. CASE Compacts(c, ms, wr)
    <3>1. CutPoint(log) \in Nat
      BY <1>0, <2>1, CutPointIs DEF Compacts
    <3>2. /\ at' = [at EXCEPT ![c] = IF at[c] \in Preflight THEN "precompact" ELSE "recover"]
          /\ cut' = [cut EXCEPT ![c] = CutPoint(log)] /\ retry' = [retry EXCEPT ![c] = wr]
          /\ held' = held
      BY <2>1 DEF Compacts
    <3>3. cut' \in [Caller -> Nat] /\ retry' \in [Caller -> BOOLEAN]
      BY <1>0, <1>7, <3>1, <3>2
    <3>4. at' \in [Caller -> Stage]
      BY <1>c, <1>s, <3>2
    <3> QED BY <1>0, <3>2, <3>3, <3>4 DEF CallerTypes
  <2>2. CASE ~Compacts(c, ms, wr)
    <3>1. /\ \/ held' = held \/ \E x : held' = [held EXCEPT ![c] = x]
          /\ \E x \in {"before", "settling", "running", "backoff"} : at' = [at EXCEPT ![c] = x]
          /\ UNCHANGED <<cut, retry>>
      <4>1. CASE Builds(c, ms)
        BY <4>1 DEF Builds
      <4>2. CASE Ends(c, ms)
        BY <4>2 DEF Ends, Finally
      <4>3. CASE Begins(c, ms)
        BY <4>3 DEF Begins, StartRun
      <4>4. CASE BacksOff(c, ms)
        BY <4>4 DEF BacksOff
      <4> QED BY <1>7, <2>2, <4>1, <4>2, <4>3, <4>4 DEF Moves
    <3> QED BY <1>b, <1>c, <1>d, <1>e, <1>s, <3>1
  <2> QED BY <2>1, <2>2
<1> QED BY <1>1, <1>2, <1>3, <1>4, <1>5, <1>6, <1>7, Steps

\* All types are kept.
LEMMA TypeOKStep ==
  ASSUME Control, Apart', Next
  PROVE  TypeOK'
<1>1. {steering, followUp, nextTurn, bash, hand}' \subseteq Seq(Message)
  <2>1. ClientMessage' \subseteq Message
    BY SentTypes DEF ClientMessage, Message
  <2>2. {steering', followUp', nextTurn', bash', hand'} \subseteq Seq(ClientMessage')
    BY WaitingStep DEF Waiting
  <2> HIDE DEF ClientMessage
  <2> QED BY <2>1, <2>2
<1>2. PlainTypes' /\ CallerTypes'
  BY PlainTypesStep, CallerTypesStep
<1>3. messages' \in Seq(Message) /\ log' \in Seq(Message) /\ unsaved' \in Seq(Message) /\ last' \in Message
  BY LogStep, UnsavedStep
<1>4. overlap' \in {"none", "accepted", "started"}
  BY DEF Apart
<1> QED BY <1>1, <1>2, <1>3, <1>4 DEF TypeOK, PlainTypes, CallerTypes

\* Every step keeps Control.
LEMMA ControlStep ==
  ASSUME Control, Apart', [Next]_vars
  PROVE  Control'
<1>1. CASE Next
  <2>1. TypeOK' /\ Cuts' /\ OneRun' /\ OnePreflight' /\ ReplyIsLast' /\ Recovery' /\ Prompted'
    BY <1>1, TypeOKStep, CutsStep, OneRunStep, OnePreflightStep, ReplyIsLastStep, RecoveryStep, PromptedStep
  <2>2. Waiting' /\ BashOnly' /\ HeldByPrompts' /\ OneUnsaved' /\ ReplyOrNone'
    BY <1>1, WaitingStep, HeldStep, UnsavedStep
  <2>3. Kinds'
    BY <2>2 DEF Kinds, Waiting, BashOnly, HeldByPrompts, OneUnsaved, ReplyOrNone
  <2> QED BY <2>1, <2>3 DEF Control
<1>2. CASE UNCHANGED vars
  <2>1. UNCHANGED <<messages, log, unsaved, steering, followUp, nextTurn, bash, pc, hand, skip, aborted,
                    last, retryAttempt, recovered, active, waiter, manual, manualCut, at, held, cut, retry,
                    sent, gone, recoveries, refused, overlap>>
    BY <1>2 DEF vars, context, queues, pending, run, post, idling, callers, history
  <2>2. TypeOK' /\ Kinds'
    BY <2>1 DEF Control, TypeOK, Kinds, ClientMessage
  <2>3. Cuts' /\ OneRun' /\ OnePreflight' /\ Recovery'
    BY <2>1 DEF Control, Cuts, OneRun, IdleIsAlwaysIdle, OnePreflight, Recovery
  <2>4. ReplyIsLast' /\ Prompted'
    BY <2>1 DEF Control, ReplyIsLast, IsReply, Prompted, Grounded
  <2> QED BY <2>2, <2>3, <2>4 DEF Control
<1> QED BY <1>1, <1>2

\* It holds in the beginning ...
LEMMA ControlInit ==
  ASSUME Init
  PROVE  Control
<1>1. Kinds /\ Cuts
  <2>1. <<>> \in Seq(ClientMessage)
    <3> HIDE DEF ClientMessage
    <3> QED OBVIOUS
  <2>2. \A c \in Caller : held[c] = <<>> /\ at[c] = "idle"
    BY DEF Init
  <2>3. "idle" \notin Preflight
    BY DEF Preflight
  <2> QED BY <2>1, <2>2, <2>3 DEF Init, Kinds, Cuts
<1>2. OneRun /\ OnePreflight /\ ReplyIsLast /\ Recovery /\ Prompted
  BY DEF Init, OneRun, IdleIsAlwaysIdle, OnePreflight, ReplyIsLast, Recovery, Prompted, Preflight, Working
<1>3. TypeOK
  <2>1. NoMessage \in Message /\ "idle" \in Stage /\ 0 \in 0..MaxSent /\ 0 \in 0..MaxRetries /\ <<>> \in Seq(Message)
    BY BoundsAssumption DEF NoMessage, Message, Stage
  <2>2. held \in [Caller -> Seq(Message)] /\ at \in [Caller -> Stage] /\ cut \in [Caller -> Nat] /\ retry \in [Caller -> BOOLEAN]
    BY <2>1 DEF Init
  <2> QED BY <2>1, <2>2 DEF Init, TypeOK
<1> QED BY <1>1, <1>2, <1>3 DEF Control

\* Overlaps are remembered, and the worse one stays.
LEMMA OverlapIsNoted ==
  ASSUME [Next]_vars
  PROVE  overlap' = overlap \/ overlap' = "started" \/ (overlap = "none" /\ overlap' = "accepted")
<1>1. CASE UNCHANGED vars
  BY <1>1 DEF vars, history
<1>2. CASE Asking
  BY <1>2 DEF Asking, Queue, SendNextTurn, SendAside, RecordBash, ClearQueue
<1>3. CASE Abort \/ Compact \/ \E c \in Caller : Prompt(c) \/ Trigger(c)
  BY <1>3 DEF Abort, Compact, Prompt, Trigger, Noted
<1>4. CASE RunStep
  BY <1>4 DEF RunStep, Emit, Save, Poll, ToolResult, EndTurn, ReplyWith, runRest, history
<1>5. CASE Manual
  BY <1>5 DEF Manual, history
<1>6. ASSUME NEW c \in Caller, CallerStep(c) PROVE overlap' = overlap \/ overlap' = "started"
  <2>1. CASE Run(c)
    BY <2>1 DEF Run
  <2>2. CASE ~Run(c)
    BY <1>6, <2>2 DEF CallerStep, PreflightFails, CheckBefore, PostRun, BackoffOver, SummaryEnds,
                      CompactionEnds, Settled, history
  <2> QED BY <2>1, <2>2
<1> QED BY <1>1, <1>2, <1>3, <1>4, <1>5, <1>6 DEF Next, Request, Asking

LEMMA ApartBefore ==
  ASSUME Apart', [Next]_vars
  PROVE  Apart
BY OverlapIsNoted DEF Apart

\* ... and so always, until prompts overlap.
LEMMA ControlHolds == Spec => [](Apart => Control)
<1>1. Init => (Apart => Control)
  BY ControlInit
<1>2. (Apart => Control) /\ [Next]_vars => (Apart => Control)'
  <2> SUFFICES ASSUME Apart => Control, [Next]_vars, Apart' PROVE Control'
    OBVIOUS
  <2> QED BY ApartBefore, ControlStep
<1> QED BY <1>1, <1>2, PTL DEF Spec

\* Every variable of the session keeps its type, until prompts overlap.
THEOREM TypeCorrect == Spec => [](overlap = "none" => TypeOK)
<1>1. (Apart => Control) => (overlap = "none" => TypeOK)
  BY DEF Control, Apart
<1> QED BY <1>1, ControlHolds, PTL

\* An overflow is compacted and tried again once (_overflowRecoveryAttempted).
THEOREM RecoveryIsBounded == Spec => [](overlap = "none" => RecoversOnce)
<1>1. (Apart => Control) => (overlap = "none" => RecoversOnce)
  BY DEF Control, Recovery, RecoversOnce, Apart
<1> QED BY <1>1, ControlHolds, PTL

-----------------------------------------------------------------------------
\* A session that becomes idle leaves no message queued (_handlePostAgentRun).
THEOREM IdleLeavesNothingQueued == Spec /\ [](overlap = "none") => SettlesEmpty
<1>1. ASSUME Control, Apart', Next, active, ~active'
      PROVE  steering' = <<>> /\ followUp' = <<>>
  <2>1. ASSUME NEW c \in Caller, NEW ms, NEW wr \in BOOLEAN, Moves(c, ms, wr)
        PROVE  steering' = <<>> /\ followUp' = <<>>
    <3>1. /\ Builds(c, ms) => active' = active
          /\ Compacts(c, ms, wr) => active' = active
          /\ Begins(c, ms) => active' = active
          /\ BacksOff(c, ms) => active' = active
      BY DEF Builds, Compacts, Begins, BacksOff, idling
    <3>2. Ends(c, ms)
      BY <1>1, <2>1, <3>1 DEF Moves
    <3> QED BY <3>2 DEF Ends, Finally, queues
  <2>2. Asking \/ Abort \/ Compact \/ RunStep \/ Manual => active' = active
    BY <1>1, AskingFrame, InterruptFrame, RunFrame, ManualFrame DEF Control
  <2>3. ASSUME NEW c \in Caller
        PROVE  Prompt(c) \/ Trigger(c) \/ PreflightFails(c) \/ Run(c) \/ Settled(c) \/ Saves(c)
                 => active' = active \/ active'
    <3>1. Prompt(c) \/ Trigger(c) \/ Run(c) => active' = active \/ active'
      BY <1>1, PromptStarts, TriggerStarts, RunStarts
    <3>2. PreflightFails(c) \/ Settled(c) \/ Saves(c) => active' = active
      BY DEF PreflightFails, Settled, Saves, idling
    <3> QED BY <3>1, <3>2
  <2> QED BY <1>1, <2>1, <2>2, <2>3, Steps
<1>2. Control /\ Apart' /\ [Next]_vars => [active /\ ~active' => steering' = <<>> /\ followUp' = <<>>]_vars
  BY <1>1
<1>3. (overlap = "none") <=> Apart
  BY DEF Apart
<1> QED BY <1>2, <1>3, ControlHolds, PTL DEF Spec, SettlesEmpty

-----------------------------------------------------------------------------
(* Who drives the session when prompts do overlap: Control is lost, but not *)
(* that one caller at most is at work.                                      *)

\* Until a prompt starts beside an active one, the caller at work is the only one,
\* and the session is active for as long as it works.
Driven ==
  /\ \A c \in Caller : at[c] \in Working => active
  /\ ~active => pc = "off"
  /\ \A c, d \in Caller : at[c] \in Working /\ at[d] \in Working => c = d
  /\ \A c \in Caller : at[c] \in Working /\ at[c] # "running" => pc = "off"
Drives == at \in [Caller -> Stage] /\ (overlap # "started" => Driven)

\* What a step of a caller makes of itself: it is not at work, it is done, it goes on
\* without the agent, or the agent runs.
Stride(c) ==
  \E x \in Stage :
    /\ at' = [at EXCEPT ![c] = x]
    /\ \/ x \notin Working /\ UNCHANGED <<pc, active>>
       \/ at[c] \in Working /\ x = "settling" /\ ~active' /\ pc' = PcAfter(c)
       \/ at[c] \in Working /\ x \in Working /\ active' = active /\ pc' \in {PcAfter(c), "off"}
          /\ x # "running"
       \/ at[c] \in Working /\ x = "running" /\ active' = active /\ pc' = "prompts"

LEMMA Stages ==
  /\ {"idle", "settling", "preflight", "before", "precompact", "presaved"} \subseteq Stage \ Working
  /\ {"running", "backoff", "cancelled", "recover", "restored"} \subseteq Stage \cap Working
  /\ {"before", "precompact", "presaved", "preflight"} = Preflight
  /\ Preflight \cap Working = {}
  /\ "running" \notin Preflight
BY DEF Stage, Preflight, Working

LEMMA FinallyStrides ==
  ASSUME NEW c \in Caller, at[c] \in Working, NEW ms, Finally(c, ms)
  PROVE  Stride(c)
BY Stages DEF Finally, Stride

LEMMA ContinueStrides ==
  ASSUME NEW c \in Caller, at[c] \in Working, NEW ms, Continue(c, ms)
  PROVE  Stride(c)
<1>1. CASE Finally(c, ms)
  BY <1>1, FinallyStrides
<1>2. CASE ~Finally(c, ms)
  <2>1. at' = [at EXCEPT ![c] = "running"] /\ pc' = "prompts" /\ active' = active
    BY <1>2 DEF Continue, StartRun, idling
  <2> QED BY <2>1, Stages DEF Stride
<1> QED BY <1>1, <1>2

LEMMA ProceedStrides ==
  ASSUME NEW c \in Caller, at[c] \in Preflight \cup Working, NEW ms, NEW go, Proceed(c, ms, go)
  PROVE  Stride(c)
<1>1. CASE at[c] \in Preflight
  <2>1. at' = [at EXCEPT ![c] = "before"] /\ UNCHANGED <<pc, active>>
    BY <1>1 DEF Proceed, run, idling
  <2> QED BY <2>1, Stages DEF Stride
<1>2. CASE at[c] \notin Preflight
  BY <1>2, ContinueStrides, FinallyStrides DEF Proceed
<1> QED BY <1>1, <1>2

LEMMA StartCompactionStrides ==
  ASSUME NEW c \in Caller, at[c] \in Preflight \cup Working, NEW ms, NEW wr, StartCompaction(c, ms, wr)
  PROVE  Stride(c)
<1>1. CASE ~Preparable(log)
  BY <1>1, ProceedStrides DEF StartCompaction
<1>2. CASE Preparable(log)
  <2>1. /\ at' = [at EXCEPT ![c] = IF at[c] \in Preflight THEN "precompact" ELSE "recover"]
        /\ pc' = PcAfter(c) /\ active' = active
    BY <1>2 DEF StartCompaction, idling
  <2>2. CASE at[c] \in Preflight
    <3>1. pc' = pc
      BY <2>1, <2>2, Stages DEF PcAfter
    <3> QED BY <2>1, <2>2, <3>1, Stages DEF Stride
  <2>3. CASE at[c] \in Working
    BY <2>1, <2>3, Stages DEF Stride
  <2> QED BY <2>2, <2>3
<1> QED BY <1>1, <1>2

LEMMA CheckCompactionStrides ==
  ASSUME NEW c \in Caller, at[c] \in Preflight \cup Working, NEW m, CheckCompaction(c, m)
  PROVE  Stride(c)
BY ProceedStrides, StartCompactionStrides DEF CheckCompaction

\* Every step of a caller but the start of its prompt is a stride.
LEMMA CallerStrides ==
  ASSUME NEW c \in Caller, CallerStep(c), ~Run(c)
  PROVE  Stride(c)
<1>1. CASE PreflightFails(c) \/ Settled(c)
  <2>1. at' = [at EXCEPT ![c] = "idle"] /\ UNCHANGED <<pc, active>>
    BY <1>1 DEF PreflightFails, Settled, run, idling
  <2> QED BY <2>1, Stages DEF Stride
<1>2. CASE CheckBefore(c)
  <2>1. at[c] \in Preflight
    BY <1>2, Stages DEF CheckBefore
  <2> QED BY <1>2, <2>1, ProceedStrides, CheckCompactionStrides DEF CheckBefore
<1>3. CASE PostRun(c)
  <2>1. at[c] \in Working
    BY <1>3, Stages DEF PostRun
  <2>2. CASE PrepareRetry(c)
    BY <2>1, <2>2, Stages DEF PrepareRetry, ActiveMeanwhile, Stride
  <2>3. CASE ~PrepareRetry(c)
    BY <1>3, <2>1, <2>3, FinallyStrides, CheckCompactionStrides DEF PostRun
  <2> QED BY <2>2, <2>3
<1>4. CASE BackoffOver(c)
  <2>1. at[c] \in Working
    BY <1>4, Stages DEF BackoffOver
  <2> QED BY <1>4, <2>1, ContinueStrides, ProceedStrides, StartCompactionStrides DEF BackoffOver
<1>5. CASE SummaryEnds(c)
  <2>1. at[c] \in Preflight \cup Working
    BY <1>5, Stages DEF SummaryEnds
  <2>2. CASE Proceed(c, messages, FALSE)
    BY <2>1, <2>2, ProceedStrides
  <2>3. CASE ~Proceed(c, messages, FALSE)
    <3>1. /\ at' = [at EXCEPT ![c] = IF at[c] = "precompact" THEN "presaved" ELSE "restored"]
          /\ UNCHANGED <<pc, active>> /\ at[c] \in {"precompact", "recover"}
      BY <1>5, <2>3 DEF SummaryEnds, run, idling
    <3>2. CASE at[c] = "precompact"
      BY <3>1, <3>2, Stages DEF Stride
    <3>3. CASE at[c] = "recover"
      <4>1. pc' = PcAfter(c) /\ at[c] \in Working
        BY <3>1, <3>3, Stages DEF PcAfter
      <4> QED BY <3>1, <3>3, <4>1, Stages DEF Stride
    <3> QED BY <3>1, <3>2, <3>3
  <2> QED BY <2>2, <2>3
<1>6. CASE CompactionEnds(c)
  <2>1. at[c] \in Preflight \cup Working
    BY <1>6, Stages DEF CompactionEnds
  <2> QED BY <1>6, <2>1, ProceedStrides DEF CompactionEnds
<1> QED BY <1>1, <1>2, <1>3, <1>4, <1>5, <1>6 DEF CallerStep

\* A stride of one caller keeps it the only one.
LEMMA StrideKeeps ==
  ASSUME at \in [Caller -> Stage], NEW c \in Caller, Stride(c)
  PROVE  at' \in [Caller -> Stage] /\ (Driven => Driven')
<1>1. PICK x \in Stage :
    /\ at' = [at EXCEPT ![c] = x]
    /\ \/ x \notin Working /\ UNCHANGED <<pc, active>>
       \/ at[c] \in Working /\ x = "settling" /\ ~active' /\ pc' = PcAfter(c)
       \/ at[c] \in Working /\ x \in Working /\ active' = active /\ pc' \in {PcAfter(c), "off"}
          /\ x # "running"
       \/ at[c] \in Working /\ x = "running" /\ active' = active /\ pc' = "prompts"
  BY DEF Stride
<1>2. at' \in [Caller -> Stage] /\ \A d \in Caller : at'[d] = IF d = c THEN x ELSE at[d]
  BY <1>1
<1>3. CASE x \notin Working /\ UNCHANGED <<pc, active>>
  BY <1>2, <1>3 DEF Driven
<1>4. ASSUME at[c] \in Working, Driven
      PROVE  PcAfter(c) = "off" /\ active /\ \A d \in Caller : at[d] \in Working => d = c
  BY <1>4 DEF Driven, PcAfter
<1>5. CASE at[c] \in Working /\ x = "settling" /\ ~active' /\ pc' = PcAfter(c)
  BY <1>2, <1>4, <1>5, Stages DEF Driven
<1>6. CASE /\ at[c] \in Working /\ x \in Working /\ active' = active /\ pc' \in {PcAfter(c), "off"}
           /\ x # "running"
  BY <1>2, <1>4, <1>6 DEF Driven
<1>7. CASE at[c] \in Working /\ x = "running" /\ active' = active /\ pc' = "prompts"
  BY <1>2, <1>4, <1>7, Stages DEF Driven
<1> QED BY <1>1, <1>2, <1>3, <1>5, <1>6, <1>7

\* A run starts on a session that is idle, and is the only one.
LEMMA StartKeeps ==
  ASSUME at \in [Caller -> Stage], Driven, ~active, NEW c \in Caller, NEW ms, RunPrompt(c, ms)
  PROVE  at' \in [Caller -> Stage] /\ Driven'
<1>1. pc = "off" /\ \A d \in Caller : at[d] \notin Working
  BY DEF Driven
<1>2. active' /\ pc' = "prompts" /\ at' = [at EXCEPT ![c] = "running"]
  BY <1>1 DEF RunPrompt, StartRun
<1>3. at' \in [Caller -> Stage] /\ \A d \in Caller : at'[d] = IF d = c THEN "running" ELSE at[d]
  BY <1>2, Stages
<1> QED BY <1>1, <1>2, <1>3 DEF Driven

\* Wherever a prompt is started, its caller is at work or done.
LEMMA StartStage ==
  ASSUME at \in [Caller -> Stage], NEW c \in Caller, NEW ms, RunPrompt(c, ms)
  PROVE  at' \in [Caller -> Stage]
<1>1. at' = [at EXCEPT ![c] = "running"] \/ at' = [at EXCEPT ![c] = "settling"]
  BY DEF RunPrompt, StartRun, Finally
<1> QED BY <1>1, Stages

\* Every step keeps the one who drives alone.
LEMMA DrivesStep ==
  ASSUME Drives, [Next]_vars
  PROVE  Drives'
<1>0. at \in [Caller -> Stage] /\ (overlap' # "started" => Driven)
  BY OverlapIsNoted DEF Drives
<1>1. CASE UNCHANGED vars
  <2>1. UNCHANGED <<at, pc, active>>
    BY <1>1 DEF vars, run, idling, callers
  <2> QED BY <1>0, <2>1 DEF Drives, Driven
<1>2. CASE Asking \/ Manual
  <2>1. UNCHANGED <<at, pc, active>>
    BY <1>2, AskingFrame, ManualFrame
  <2> QED BY <1>0, <2>1 DEF Drives, Driven
<1>3. CASE Abort \/ Compact
  <2>1. /\ at' = [c \in Caller |-> IF at[c] = "backoff" THEN "cancelled" ELSE at[c]]
        /\ UNCHANGED <<pc, active>>
    BY <1>3 DEF Abort, Compact, Interrupt
  <2>2. at' \in [Caller -> Stage]
    BY <1>0, <2>1, Stages
  <2>3. \A d \in Caller : /\ at'[d] \in Working <=> at[d] \in Working
                          /\ at'[d] = "running" <=> at[d] = "running"
    BY <2>1, Stages
  <2> QED BY <1>0, <2>1, <2>2, <2>3 DEF Drives, Driven
<1>4. CASE RunStep
  <2>1. UNCHANGED <<at, active>>
    BY <1>4, RunFrame
  <2>2. pc' = pc \/ pc # "off"
    BY <1>4 DEF RunStep, Emit, Save, Poll, ToolResult, EndTurn, ReplyWith
  <2> QED BY <1>0, <2>1, <2>2 DEF Drives, Driven
<1>5. ASSUME NEW c \in Caller, Prompt(c) PROVE Drives'
  <2>1. at' = [at EXCEPT ![c] = "preflight"] /\ UNCHANGED <<pc, active>>
    BY <1>5 DEF Prompt, run, idling
  <2>2. Stride(c)
    BY <2>1, Stages DEF Stride
  <2> QED BY <1>0, <2>2, StrideKeeps DEF Drives
<1>6. ASSUME NEW c \in Caller, Trigger(c) PROVE Drives'
  <2>1. ~active /\ RunPrompt(c, <<Accept("aside")>>)
    BY <1>6 DEF Trigger
  <2> QED BY <1>0, <2>1, StartKeeps, StartStage DEF Drives
<1>7. ASSUME NEW c \in Caller, Run(c) PROVE Drives'
  <2>1. RunPrompt(c, held[c]) /\ overlap' = IF active THEN "started" ELSE overlap
    BY <1>7 DEF Run
  <2> QED BY <1>0, <2>1, StartKeeps, StartStage DEF Drives
<1>8. ASSUME NEW c \in Caller, CallerStep(c), ~Run(c) PROVE Drives'
  BY <1>0, <1>8, CallerStrides, StrideKeeps DEF Drives
<1> QED BY <1>1, <1>2, <1>3, <1>4, <1>5, <1>6, <1>7, <1>8 DEF Next, Request, Asking

\* An idle session has no run, retry or recovery under way (isIdle), also when prompts
\* are accepted while others are prepared: only a prompt that starts its run on a
\* session that has become active since makes an end of that.
THEOREM IdleSessionsAreIdle == Spec => []IdleIsIdle
<1>1. Init => Drives
  <2> SUFFICES ASSUME Init PROVE Drives
    OBVIOUS
  <2>1. at = [c \in Caller |-> "idle"] /\ pc = "off"
    BY DEF Init
  <2>2. at \in [Caller -> Stage] /\ \A c \in Caller : at[c] \notin Working
    BY <2>1, Stages
  <2> QED BY <2>1, <2>2 DEF Drives, Driven
<1>2. Drives => IdleIsIdle
  BY DEF Drives, Driven, IdleIsIdle
<1> QED BY <1>1, <1>2, DrivesStep, PTL DEF Spec

-----------------------------------------------------------------------------
(* Where the messages of clients are: how often each stands in a sequence. *)

\* How often message i of a client stands in s, and whether m is it.
Count(i, s) == Cardinality(Places(i, s))
\* Whether m is message i of a client.
One(i, m) == IF m.kind \in Client /\ m.n = i THEN 1 ELSE 0

\* A one-to-one correspondence keeps the size of a finite set.
LEMMA SameSize ==
  ASSUME NEW S, NEW T, IsFiniteSet(S), NEW f \in [S -> T],
         \A x, y \in S : f[x] = f[y] => x = y, \A y \in T : \E x \in S : f[x] = y
  PROVE  IsFiniteSet(T) /\ Cardinality(T) = Cardinality(S)
<1>1. f \in Bijection(S, T)
  BY DEF Bijection, Injection, Surjection, IsInjective
<1> QED BY <1>1, FS_Bijection DEF ExistsBijection

\* Places are positions of the sequence.
LEMMA PlacesAre ==
  ASSUME NEW i, NEW S, NEW s \in Seq(S)
  PROVE  /\ Places(i, s) \subseteq 1..Len(s) /\ IsFiniteSet(Places(i, s)) /\ Count(i, s) \in Nat
         /\ Count(i, s) = 0 <=> Places(i, s) = {}
<1>1. Places(i, s) \subseteq 1..Len(s) /\ Len(s) \in Nat
  BY DEF Places
<1>2. IsFiniteSet(Places(i, s))
  <2>1. IsFiniteSet(1..Len(s))
    BY <1>1, 1 \in Int, Len(s) \in Int, FS_Interval
  <2> HIDE DEF Places
  <2> QED BY <1>1, <2>1, FS_Subset
<1> QED BY <1>1, <1>2, FS_CardinalityType, FS_EmptySet DEF Count

\* Counts add up.
LEMMA CountConcat ==
  ASSUME NEW i, NEW S, NEW s \in Seq(S), NEW t \in Seq(S)
  PROVE  Count(i, s \o t) = Count(i, s) + Count(i, t)
<1> DEFINE n == Len(s)
           A == Places(i, s)
           B == Places(i, t)
           f == [k \in B |-> n + k]
           C == {n + k : k \in B}
<1>1. /\ n \in Nat /\ Len(t) \in Nat /\ s \o t \in Seq(S) /\ Len(s \o t) = n + Len(t)
      /\ \A k \in 1..n : (s \o t)[k] = s[k]
      /\ \A k \in 1..Len(t) : (s \o t)[n + k] = t[k]
  BY ConcatProperties
<1>2. /\ A \subseteq 1..n /\ IsFiniteSet(A) /\ B \subseteq 1..Len(t) /\ IsFiniteSet(B)
      /\ Cardinality(A) \in Nat /\ Cardinality(B) \in Nat
  BY PlacesAre DEF Count
<1>3. IsFiniteSet(C) /\ Cardinality(C) = Cardinality(B)
  <2>1. /\ f \in [B -> C] /\ \A x, y \in B : f[x] = f[y] => x = y
        /\ \A y \in C : \E x \in B : f[x] = y
    BY <1>1, <1>2
  <2> HIDE DEF B, C, f
  <2> QED BY <1>2, <2>1, SameSize
<1>4. Places(i, s \o t) = A \cup C
  <2> DEFINE u == s \o t
  <2>1. DOMAIN u = 1..(n + Len(t)) /\ DOMAIN s = 1..n /\ DOMAIN t = 1..Len(t)
    BY <1>1
  <2>2. ASSUME NEW k \in 1..(n + Len(t)) PROVE k \in Places(i, u) <=> k \in A \cup C
    <3>1. CASE k <= n
      <4>1. k \in 1..n /\ k \notin C
        BY <1>1, <1>2, <3>1
      <4>2. u[k] = s[k]
        BY <1>1, <4>1
      <4> QED BY <2>1, <4>1, <4>2 DEF Places
    <3>2. CASE ~(k <= n)
      <4> DEFINE j == k - n
      <4>1. j \in 1..Len(t) /\ k = n + j /\ k \notin 1..n
        BY <1>1, <3>2
      <4>2. u[k] = t[j]
        BY <1>1, <4>1
      <4>3. k \in C <=> j \in B
        <5>1. ASSUME NEW b \in B, k = n + b PROVE b = j
          BY <1>1, <1>2, <4>1, <5>1
        <5> QED BY <4>1, <5>1
      <4>4. k \notin A
        BY <1>2, <4>1
      <4>5. k \in Places(i, u) <=> j \in B
        BY <2>1, <4>1, <4>2 DEF Places
      <4> QED BY <4>3, <4>4, <4>5
    <3> QED BY <3>1, <3>2
  <2>3. Places(i, u) \subseteq 1..(n + Len(t))
    BY <2>1 DEF Places
  <2>4. A \cup C \subseteq 1..(n + Len(t))
    BY <1>1, <1>2
  <2> QED BY <2>2, <2>3, <2>4
<1>5. A \cap C = {}
  BY <1>1, <1>2
<1> HIDE DEF A, B, C
<1>6. Cardinality(A \cup C) = Cardinality(A) + Cardinality(C) - Cardinality({})
  BY <1>2, <1>3, <1>5, FS_Union
<1> QED BY <1>2, <1>3, <1>4, <1>6, FS_EmptySet DEF Count, A, B

\* The count in no message, and in one.
LEMMA CountOne ==
  ASSUME NEW i, NEW m
  PROVE  Count(i, <<m>>) = One(i, m) /\ Count(i, <<>>) = 0
<1>1. DOMAIN <<m>> = {1} /\ <<m>>[1] = m
  OBVIOUS
<1>2. Places(i, <<m>>) = IF m.kind \in Client /\ m.n = i THEN {1} ELSE {}
  BY <1>1 DEF Places
<1>3. Places(i, <<>>) = {}
  BY DEF Places
<1> QED BY <1>2, <1>3, FS_EmptySet, FS_Singleton DEF Count, One

\* One more message counts one more, or nothing.
LEMMA CountAppend ==
  ASSUME NEW i, NEW S, NEW s \in Seq(S), NEW m \in S
  PROVE  Count(i, Append(s, m)) = Count(i, s) + One(i, m)
<1>1. Append(s, m) = s \o <<m>> /\ <<m>> \in Seq(S)
  BY AppendIsConcat
<1>2. Count(i, s \o <<m>>) = Count(i, s) + Count(i, <<m>>)
  BY <1>1, CountConcat
<1> QED BY <1>1, <1>2, CountOne

\* What is taken from a queue is missing there.
LEMMA CountTaken ==
  ASSUME NEW i, NEW S, NEW s \in Seq(S), s # <<>>
  PROVE  Count(i, s) = Count(i, <<Head(s)>>) + Count(i, Tail(s))
<1>1. Head(s) \in S /\ Tail(s) \in Seq(S) /\ <<Head(s)>> \in Seq(S)
  OBVIOUS
<1>2. s = <<Head(s)>> \o Tail(s)
  <2>1. /\ Len(<<Head(s)>> \o Tail(s)) = 1 + Len(Tail(s))
        /\ \A k \in 1..1 : (<<Head(s)>> \o Tail(s))[k] = <<Head(s)>>[k]
        /\ \A k \in 1..Len(Tail(s)) : (<<Head(s)>> \o Tail(s))[1 + k] = Tail(s)[k]
    BY <1>1, ConcatProperties
  <2> QED BY <1>1
<1> QED BY <1>1, <1>2, CountConcat

\* The numbers in a queue of messages of clients are those that count there.
LEMMA CountedAre ==
  ASSUME sent \in Nat, NEW i, NEW s \in Seq(ClientMessage)
  PROVE  Count(i, s) = 0 <=> i \notin {m.n : m \in ToSet(s)}
<1>1. Count(i, s) = 0 <=> Places(i, s) = {}
  BY PlacesAre
<1>2. ASSUME NEW k \in Places(i, s) PROVE i \in {m.n : m \in ToSet(s)}
  <2>1. k \in DOMAIN s /\ s[k].n = i
    BY DEF Places
  <2> QED BY <2>1 DEF ToSet
<1>3. ASSUME NEW m \in ToSet(s), m.n = i PROVE Places(i, s) # {}
  <2>1. PICK k \in DOMAIN s : s[k] = m
    BY DEF ToSet
  <2>2. m.kind \in Client
    <3>1. s[k] \in ClientMessage
      OBVIOUS
    <3> QED BY <2>1, <3>1 DEF ClientMessage
  <2> QED BY <1>3, <2>1, <2>2 DEF Places
<1> QED BY <1>1, <1>2, <1>3

-----------------------------------------------------------------------------
\* What callers hold, when at most one of them holds messages.
HeldIn(h, i) == UNION {{c} \X Places(i, h[c]) : c \in Caller}
\* Nobody holds a message ...
LEMMA HeldByNone ==
  ASSUME NEW h, NEW i, \A d \in Caller : h[d] = <<>>
  PROVE  Cardinality(HeldIn(h, i)) = 0
<1>1. \A d \in Caller : Places(i, h[d]) = {}
  BY DEF Places
<1>2. HeldIn(h, i) = {}
  BY <1>1 DEF HeldIn
<1> QED BY <1>2, FS_EmptySet

\* ... or one caller holds all that are held.
LEMMA HeldByOne ==
  ASSUME NEW h, NEW i, NEW S, NEW c \in Caller, h[c] \in Seq(S), \A d \in Caller : d # c => h[d] = <<>>
  PROVE  Cardinality(HeldIn(h, i)) = Count(i, h[c])
<1> DEFINE P == Places(i, h[c])
           T == {c} \X P
           f == [k \in P |-> <<c, k>>]
<1>1. \A d \in Caller : d # c => Places(i, h[d]) = {}
  BY DEF Places
<1>2. HeldIn(h, i) = T
  <2>1. ASSUME NEW x \in HeldIn(h, i) PROVE x \in T
    <3>1. PICK d \in Caller : x \in {d} \X Places(i, h[d])
      BY DEF HeldIn
    <3>2. d = c
      BY <1>1, <3>1
    <3> QED BY <3>1, <3>2
  <2>2. T \subseteq HeldIn(h, i)
    BY DEF HeldIn
  <2> QED BY <2>1, <2>2
<1>3. IsFiniteSet(P)
  BY PlacesAre
<1>4. /\ f \in [P -> T] /\ \A x, y \in P : f[x] = f[y] => x = y
      /\ \A y \in T : \E x \in P : f[x] = y
  OBVIOUS
<1> HIDE DEF P, T, f
<1>5. Cardinality(T) = Cardinality(P)
  BY <1>3, <1>4, SameSize
<1> QED BY <1>2, <1>5 DEF Count, P

-----------------------------------------------------------------------------
(* Each message of a client is in one place, once: what leaves one place    *)
(* arrives in another.                                                      *)

\* Where message i is, and whether it should be anywhere.
InHands(i) == Cardinality(HeldIn(held, i))
Tally(i) == Count(i, steering) + Count(i, followUp) + Count(i, nextTurn) + Count(i, bash)
              + Count(i, hand) + Count(i, unsaved) + Count(i, log)
\* A message that was sent and is not gone should be somewhere, once.
Due(i) == IF i \in 1..sent /\ i \notin gone THEN 1 ELSE 0
\* The invariant.
Kept == \A i \in Nat : Tally(i) + InHands(i) = Due(i)

\* The count over all places is the sum of the counts.
LEMMA TallyIs ==
  ASSUME TypeOK, NEW i
  PROVE  Cardinality(Places(i, Elsewhere)) = Tally(i) /\ HeldPlaces(i) = HeldIn(held, i)
<1> DEFINE s2 == steering \o followUp
           s3 == s2 \o nextTurn
           s4 == s3 \o bash
           s5 == s4 \o hand
           s6 == s5 \o unsaved
           s7 == s6 \o log
<1>1. /\ steering \in Seq(Message) /\ followUp \in Seq(Message) /\ nextTurn \in Seq(Message)
      /\ bash \in Seq(Message) /\ hand \in Seq(Message) /\ unsaved \in Seq(Message) /\ log \in Seq(Message)
  BY DEF TypeOK
<1>2. \A s, t \in Seq(Message) : s \o t \in Seq(Message) /\ Count(i, s \o t) = Count(i, s) + Count(i, t)
  BY CountConcat
<1>3. s2 \in Seq(Message) /\ Count(i, s2) = Count(i, steering) + Count(i, followUp)
  BY <1>1, <1>2
<1> HIDE DEF s2
<1>4. s3 \in Seq(Message) /\ Count(i, s3) = Count(i, s2) + Count(i, nextTurn)
  BY <1>1, <1>2, <1>3
<1> HIDE DEF s3
<1>5. s4 \in Seq(Message) /\ Count(i, s4) = Count(i, s3) + Count(i, bash)
  BY <1>1, <1>2, <1>4
<1> HIDE DEF s4
<1>6. s5 \in Seq(Message) /\ Count(i, s5) = Count(i, s4) + Count(i, hand)
  BY <1>1, <1>2, <1>5
<1> HIDE DEF s5
<1>7. s6 \in Seq(Message) /\ Count(i, s6) = Count(i, s5) + Count(i, unsaved)
  BY <1>1, <1>2, <1>6
<1> HIDE DEF s6
<1>8. Count(i, s7) = Count(i, s6) + Count(i, log)
  BY <1>1, <1>2, <1>7
<1>9. Elsewhere = s7
  BY DEF Elsewhere, s2, s3, s4, s5, s6
<1> HIDE DEF s7
<1>10. Count(i, s7) = Tally(i)
  BY <1>3, <1>4, <1>5, <1>6, <1>7, <1>8 DEF Tally
<1>11. HeldPlaces(i) = HeldIn(held, i)
  BY DEF HeldPlaces, HeldIn
<1> QED BY <1>9, <1>10, <1>11 DEF Count

\* All these are numbers.
LEMMA Numbers ==
  ASSUME Control, NEW i
  PROVE  /\ Count(i, steering) \in Nat /\ Count(i, followUp) \in Nat /\ Count(i, nextTurn) \in Nat
         /\ Count(i, bash) \in Nat /\ Count(i, hand) \in Nat /\ Count(i, unsaved) \in Nat /\ Count(i, log) \in Nat
         /\ InHands(i) \in Nat
<1>1. /\ steering \in Seq(Message) /\ followUp \in Seq(Message) /\ nextTurn \in Seq(Message)
      /\ bash \in Seq(Message) /\ hand \in Seq(Message) /\ unsaved \in Seq(Message) /\ log \in Seq(Message)
      /\ held \in [Caller -> Seq(Message)]
      /\ \A c \in Caller : held[c] # <<>> <=> at[c] \in Preflight
      /\ \A c, d \in Caller : at[c] \in Preflight /\ at[d] \in Preflight => c = d
  BY DEF Control, TypeOK, Kinds, OnePreflight
<1>2. \A s \in Seq(Message) : Count(i, s) \in Nat
  BY PlacesAre
<1>3. InHands(i) \in Nat
  <2>1. CASE \A d \in Caller : held[d] = <<>>
    BY <2>1, HeldByNone DEF InHands
  <2>2. ASSUME NEW c \in Caller, held[c] # <<>> PROVE InHands(i) \in Nat
    <3>1. held[c] \in Seq(Message) /\ \A d \in Caller : d # c => held[d] = <<>>
      BY <1>1, <2>2
    <3>2. InHands(i) = Count(i, held[c])
      BY <3>1, HeldByOne DEF InHands
    <3> QED BY <1>2, <3>1, <3>2
  <2> QED BY <2>1, <2>2
<1> QED BY <1>1, <1>2, <1>3

\* A message that is sent is due from then on.
LEMMA SentIsDue ==
  ASSUME Control, Send, gone' = gone, NEW kind \in Client, NEW i \in Nat
  PROVE  /\ Due(i)' = Due(i) + One(i, Accept(kind)) /\ Due(i) \in Nat /\ One(i, Accept(kind)) \in Nat
         /\ Accept(kind) \in Message
<1>1. sent \in 0..MaxSent /\ MaxSent \in Nat /\ gone \subseteq 1..sent /\ sent' = sent + 1
  BY BoundsAssumption DEF Control, TypeOK, Send
<1>2. Accept(kind).kind = kind /\ Accept(kind).n = sent + 1 /\ Accept(kind) \in Message
  BY <1>1 DEF Accept, Message
<1>3. One(i, Accept(kind)) = IF i = sent + 1 THEN 1 ELSE 0
  BY <1>2 DEF One
<1>4. CASE i = sent + 1
  <2>1. i \notin 1..sent /\ i \in 1..sent' /\ i \notin gone'
    BY <1>1, <1>4
  <2> QED BY <1>2, <1>3, <1>4, <2>1 DEF Due
<1>5. CASE i # sent + 1
  <2>1. i \in 1..sent' <=> i \in 1..sent
    BY <1>1, <1>5
  <2> QED BY <1>2, <1>3, <1>5, <2>1 DEF Due
<1> QED BY <1>4, <1>5

\* No step loses or doubles a message.
LEMMA KeptStep ==
  ASSUME Control, Apart', Next, NEW i \in Nat, Tally(i) + InHands(i) = Due(i)
  PROVE  (Tally(i) + InHands(i) = Due(i))'
<1> DEFINE a == Count(i, steering)
           b == Count(i, followUp)
           c7 == Count(i, nextTurn)
           d7 == Count(i, bash)
           e == Count(i, hand)
           f == Count(i, unsaved)
           g == Count(i, log)
           h == InHands(i)
           D == Due(i)
<1>0. /\ steering \in Seq(Message) /\ followUp \in Seq(Message) /\ nextTurn \in Seq(Message)
      /\ bash \in Seq(Message) /\ hand \in Seq(Message) /\ unsaved \in Seq(Message) /\ log \in Seq(Message)
      /\ held \in [Caller -> Seq(Message)]
      /\ \A c \in Caller : held[c] # <<>> <=> at[c] \in Preflight
      /\ \A c, d \in Caller : at[c] \in Preflight /\ at[d] \in Preflight => c = d
  BY DEF Control, TypeOK, Kinds, OnePreflight
<1>n. a \in Nat /\ b \in Nat /\ c7 \in Nat /\ d7 \in Nat /\ e \in Nat /\ f \in Nat /\ g \in Nat /\ h \in Nat
  BY Numbers
<1>k. a + b + c7 + d7 + e + f + g + h = D
  BY DEF Tally
<1>g. SUFFICES a' + b' + c7' + d7' + e' + f' + g' + h' = D'
  BY DEF Tally
<1>u. /\ (UNCHANGED steering => a' = a) /\ (UNCHANGED followUp => b' = b) /\ (UNCHANGED nextTurn => c7' = c7)
      /\ (UNCHANGED bash => d7' = d7) /\ (UNCHANGED hand => e' = e) /\ (UNCHANGED unsaved => f' = f)
      /\ (UNCHANGED log => g' = g) /\ (UNCHANGED held => h' = h) /\ (UNCHANGED <<sent, gone>> => D' = D)
  BY DEF InHands, Due
<1>v. /\ steering' = <<>> => a' = 0
      /\ followUp' = <<>> => b' = 0
      /\ nextTurn' = <<>> => c7' = 0
      /\ bash' = <<>> => d7' = 0
      /\ unsaved' = <<>> => f' = 0
      /\ hand = <<>> => e = 0
      /\ unsaved = <<>> => f = 0
  BY CountOne
<1>w. /\ (steering # <<>> /\ steering' = Tail(steering) => a = Count(i, <<Head(steering)>>) + a')
      /\ (followUp # <<>> /\ followUp' = Tail(followUp) => b = Count(i, <<Head(followUp)>>) + b')
      /\ (hand # <<>> /\ hand' = Tail(hand) => e = Count(i, <<Head(hand)>>) + e')
  <2>1. ASSUME steering # <<>>, steering' = Tail(steering) PROVE a = Count(i, <<Head(steering)>>) + a'
    BY ONLY <1>0, <2>1, CountTaken
  <2>2. ASSUME followUp # <<>>, followUp' = Tail(followUp) PROVE b = Count(i, <<Head(followUp)>>) + b'
    BY ONLY <1>0, <2>2, CountTaken
  <2>3. ASSUME hand # <<>>, hand' = Tail(hand) PROVE e = Count(i, <<Head(hand)>>) + e'
    BY ONLY <1>0, <2>3, CountTaken
  <2> QED BY <2>1, <2>2, <2>3
<1>x. /\ \A m \in Message : Count(i, <<m>>) = One(i, m) /\ One(i, m) \in Nat
      /\ \A s \in Seq(Message) : Count(i, s) \in Nat
  BY CountOne, PlacesAre DEF One
<1>y. /\ steering # <<>> => Head(steering) \in Message /\ Tail(steering) \in Seq(Message)
      /\ followUp # <<>> => Head(followUp) \in Message /\ Tail(followUp) \in Seq(Message)
      /\ hand # <<>> => Head(hand) \in Message /\ Tail(hand) \in Seq(Message)
  BY <1>0
<1>z. /\ \A s \in Seq(Message), m \in Message : Count(i, Append(s, m)) = Count(i, s) + One(i, m)
      /\ \A s, t \in Seq(Message) : Count(i, s \o t) = Count(i, s) + Count(i, t)
  BY CountAppend, CountConcat
<1> HIDE DEF a, b, c7, d7, e, f, g, h, D
<1>1. CASE UNCHANGED <<steering, followUp, nextTurn, bash, hand, unsaved, log, held, sent, gone>>
  BY <1>1, <1>k, <1>u
<1>2. ASSUME Send, gone' = gone, NEW kind \in Client,
             \/ a' = a + One(i, Accept(kind)) /\ UNCHANGED <<followUp, nextTurn, bash, log>>
             \/ b' = b + One(i, Accept(kind)) /\ UNCHANGED <<steering, nextTurn, bash, log>>
             \/ c7' = c7 + One(i, Accept(kind)) /\ UNCHANGED <<steering, followUp, bash, log>>
             \/ d7' = d7 + One(i, Accept(kind)) /\ UNCHANGED <<steering, followUp, nextTurn, log>>
             \/ g' = g + One(i, Accept(kind)) /\ UNCHANGED <<steering, followUp, nextTurn, bash>>,
             UNCHANGED <<hand, unsaved, held>>
      PROVE  a' + b' + c7' + d7' + e' + f' + g' + h' = D'
  <2>1. D' = D + One(i, Accept(kind)) /\ One(i, Accept(kind)) \in Nat
    BY <1>2, SentIsDue DEF D
  <2>2. e' = e /\ f' = f /\ h' = h
    BY <1>2, <1>u
  <2>3. \/ a' = a + One(i, Accept(kind)) /\ b' = b /\ c7' = c7 /\ d7' = d7 /\ g' = g
        \/ a' = a /\ b' = b + One(i, Accept(kind)) /\ c7' = c7 /\ d7' = d7 /\ g' = g
        \/ a' = a /\ b' = b /\ c7' = c7 + One(i, Accept(kind)) /\ d7' = d7 /\ g' = g
        \/ a' = a /\ b' = b /\ c7' = c7 /\ d7' = d7 + One(i, Accept(kind)) /\ g' = g
        \/ a' = a /\ b' = b /\ c7' = c7 /\ d7' = d7 /\ g' = g + One(i, Accept(kind))
    BY <1>2, <1>u
  <2> QED BY ONLY <1>k, <1>n, <2>1, <2>2, <2>3
<1>3. CASE Asking
  <2>1. UNCHANGED <<hand, unsaved, held>>
    BY <1>3, AskingFrame
  <2>2. \A kind \in Client : Send /\ gone' = gone => Accept(kind) \in Message
    BY SentIsDue
  <2>3. {"user", "aside", "bash"} \subseteq Client
    BY DEF Client
  <2>4. ASSUME NEW kind \in {"user", "aside"}, Queue(kind) PROVE a' + b' + c7' + d7' + e' + f' + g' + h' = D'
    <3>1. /\ Send /\ gone' = gone /\ UNCHANGED <<nextTurn, bash, log>>
          /\ \/ steering' = Append(steering, Accept(kind)) /\ UNCHANGED followUp
             \/ followUp' = Append(followUp, Accept(kind)) /\ UNCHANGED steering
      BY <2>4 DEF Queue, pending, context
    <3>2. \/ a' = a + One(i, Accept(kind)) /\ UNCHANGED followUp
          \/ b' = b + One(i, Accept(kind)) /\ UNCHANGED steering
      BY <1>0, <1>z, <2>2, <2>3, <3>1 DEF a, b
    <3> QED BY <1>2, <2>1, <2>3, <3>1, <3>2
  <2>5. CASE SendNextTurn
    <3>1. /\ Send /\ gone' = gone /\ UNCHANGED <<steering, followUp, bash, log>>
          /\ nextTurn' = Append(nextTurn, Accept("aside"))
      BY <2>5 DEF SendNextTurn, queues, context
    <3>2. c7' = c7 + One(i, Accept("aside"))
      BY <1>0, <1>z, <2>2, <2>3, <3>1 DEF c7
    <3> QED BY <1>2, <2>1, <2>3, <3>1, <3>2
  <2>6. CASE SendAside
    <3>1. /\ Send /\ gone' = gone /\ UNCHANGED <<steering, followUp, nextTurn, bash>>
          /\ log' = Append(log, Accept("aside"))
      BY <2>6 DEF SendAside, queues, pending
    <3>2. g' = g + One(i, Accept("aside"))
      BY <1>0, <1>z, <2>2, <2>3, <3>1 DEF g
    <3> QED BY <1>2, <2>1, <2>3, <3>1, <3>2
  <2>7. CASE RecordBash
    <3>1. /\ Send /\ gone' = gone /\ UNCHANGED <<steering, followUp, nextTurn>>
          /\ \/ log' = Append(log, Accept("bash")) /\ UNCHANGED bash
             \/ bash' = Append(bash, Accept("bash")) /\ UNCHANGED log
      BY <2>7 DEF RecordBash, Record, queues
    <3>2. \/ g' = g + One(i, Accept("bash")) /\ UNCHANGED bash
          \/ d7' = d7 + One(i, Accept("bash")) /\ UNCHANGED log
      BY <1>0, <1>z, <2>2, <2>3, <3>1 DEF g, d7
    <3> QED BY <1>2, <2>1, <2>3, <3>1, <3>2
  <2>8. CASE ClearQueue
    <3> DEFINE q == steering \o followUp
               N == {m.n : m \in ToSet(q)}
    <3>1. /\ gone' = gone \cup N /\ steering' = <<>> /\ followUp' = <<>>
          /\ UNCHANGED <<nextTurn, bash, log, sent>>
      BY <2>8 DEF ClearQueue, context, pending
    <3>2. q \in Seq(ClientMessage) /\ Count(i, q) = a + b /\ sent \in Nat
      <4>1. steering \in Seq(ClientMessage) /\ followUp \in Seq(ClientMessage) /\ sent \in Nat
        BY DEF Control, Kinds, TypeOK
      <4> HIDE DEF ClientMessage
      <4>2. q \in Seq(ClientMessage)
        BY <4>1
      <4> QED BY <1>0, <1>z, <4>1, <4>2 DEF a, b
    <3> HIDE DEF q
    <3>3. a + b = 0 <=> i \notin N
      BY <3>2, CountedAre
    <3> HIDE DEF N
    <3>4. a' = 0 /\ b' = 0 /\ c7' = c7 /\ d7' = d7 /\ e' = e /\ f' = f /\ g' = g /\ h' = h
      BY <1>u, <1>v, <2>1, <3>1
    <3>5. CASE i \in N
      <4>1. D' = 0 /\ D \in {0, 1}
        BY <3>1, <3>5 DEF D, Due
      <4> QED BY ONLY <1>k, <1>n, <3>3, <3>4, <3>5, <4>1
    <3>6. CASE i \notin N
      <4>1. D' = D
        BY <3>1, <3>6 DEF D, Due
      <4> QED BY ONLY <1>k, <1>n, <3>3, <3>4, <3>6, <4>1
    <3> QED BY <3>5, <3>6
  <2> QED BY <1>3, <2>4, <2>5, <2>6, <2>7, <2>8 DEF Asking
<1>4. CASE Abort \/ Compact
  BY <1>1, <1>4, InterruptFrame DEF Control
<1>5. CASE RunStep
  <2>0. UNCHANGED <<held, nextTurn, bash, sent, gone>>
    BY <1>5, RunFrame
  <2>a. h' = h /\ c7' = c7 /\ d7' = d7 /\ D' = D
    BY <1>u, <2>0
  <2>1. CASE Emit
    <3>1. /\ hand # <<>> /\ unsaved = <<>> /\ unsaved' = <<Head(hand)>> /\ hand' = Tail(hand)
          /\ UNCHANGED <<log, steering, followUp>>
      BY <2>1 DEF Emit, Quiet
    <3>2. f' = Count(i, <<Head(hand)>>)
      BY <3>1 DEF f
    <3>3. f = 0 /\ e = f' + e' /\ a' = a /\ b' = b /\ g' = g
      BY <1>u, <1>v, <1>w, <3>1, <3>2
    <3>4. f' \in Nat /\ e' \in Nat
      BY <1>0, <1>x, <1>y, <3>1, <3>2 DEF e
    <3> QED BY ONLY <1>k, <1>n, <2>a, <3>3, <3>4
  <2>2. CASE Save
    <3>1. log' = log \o unsaved /\ unsaved' = <<>> /\ UNCHANGED <<hand, steering, followUp>>
      BY <2>2 DEF Save, queues
    <3>2. g' = g + f
      BY <1>0, <1>z, <3>1 DEF g, f
    <3>3. f' = 0 /\ e' = e /\ a' = a /\ b' = b
      BY <1>u, <1>v, <3>1
    <3> QED BY ONLY <1>k, <1>n, <2>a, <3>2, <3>3
  <2>3. ASSUME hand = <<>>, UNCHANGED <<log, unsaved>>,
               \/ steering # <<>> /\ hand' = <<Head(steering)>> /\ steering' = Tail(steering) /\ UNCHANGED followUp
               \/ followUp # <<>> /\ hand' = <<Head(followUp)>> /\ followUp' = Tail(followUp) /\ UNCHANGED steering
               \/ UNCHANGED <<hand, steering, followUp>>
        PROVE  a' + b' + c7' + d7' + e' + f' + g' + h' = D'
    <3>0. e = 0 /\ f' = f /\ g' = g
      BY <1>u, <1>v, <2>3
    <3>1. CASE steering # <<>> /\ hand' = <<Head(steering)>> /\ steering' = Tail(steering) /\ UNCHANGED followUp
      <4>1. e' = Count(i, <<Head(steering)>>) /\ a = e' + a' /\ b' = b
        BY <1>u, <1>w, <3>1 DEF e
      <4>2. e' \in Nat /\ a' \in Nat
        BY <1>x, <1>y, <3>1, <4>1 DEF a
      <4> QED BY ONLY <1>k, <1>n, <2>a, <3>0, <4>1, <4>2
    <3>2. CASE followUp # <<>> /\ hand' = <<Head(followUp)>> /\ followUp' = Tail(followUp) /\ UNCHANGED steering
      <4>1. e' = Count(i, <<Head(followUp)>>) /\ b = e' + b' /\ a' = a
        BY <1>u, <1>w, <3>2 DEF e
      <4>2. e' \in Nat /\ b' \in Nat
        BY <1>x, <1>y, <3>2, <4>1 DEF b
      <4> QED BY ONLY <1>k, <1>n, <2>a, <3>0, <4>1, <4>2
    <3>3. CASE UNCHANGED <<hand, steering, followUp>>
      <4>1. e' = e /\ a' = a /\ b' = b
        BY <1>u, <3>3
      <4> QED BY ONLY <1>k, <1>n, <2>a, <3>0, <4>1
    <3> QED BY <2>3, <3>1, <3>2, <3>3
  <2>4. CASE Poll
    BY <2>3, <2>4 DEF Poll, context
  <2>5. CASE EndTurn
    <3>1. hand = <<>>
      BY <2>5 DEF EndTurn, Control, OneRun
    <3> QED BY <2>3, <2>5, <3>1 DEF EndTurn, context, Queued
  <2>6. ASSUME NEW kind, kind \notin Client, NEW n, unsaved' = <<[kind |-> kind, n |-> n]>>, unsaved = <<>>,
               UNCHANGED <<log, steering, followUp, hand>>
        PROVE  a' + b' + c7' + d7' + e' + f' + g' + h' = D'
    <3> DEFINE m == [kind |-> kind, n |-> n]
    <3>1. f' = One(i, m) /\ One(i, m) = 0
      BY <2>6, CountOne DEF f, One
    <3>2. f = 0 /\ a' = a /\ b' = b /\ e' = e /\ g' = g
      BY <1>u, <1>v, <2>6
    <3> HIDE DEF m
    <3> QED BY ONLY <1>k, <1>n, <2>a, <3>1, <3>2
  <2>7. CASE ToolResult
    BY <2>6, <2>7 DEF ToolResult, Quiet, queues, Client
  <2>8. ASSUME NEW kind \in Reply, ReplyWith(kind) PROVE a' + b' + c7' + d7' + e' + f' + g' + h' = D'
    <3>1. kind \notin Client
      BY DEF Reply, Failed, Client
    <3> QED BY <2>6, <2>8, <3>1 DEF ReplyWith, Quiet, queues
  <2> QED BY <1>5, <2>1, <2>2, <2>4, <2>5, <2>7, <2>8 DEF RunStep
<1>6. ASSUME NEW n \in Nat, log' = Append(log, Summary(n)),
             UNCHANGED <<steering, followUp, nextTurn, bash, hand, unsaved, held, sent, gone>>
      PROVE  a' + b' + c7' + d7' + e' + f' + g' + h' = D'
  <2>1. Summary(n) \in Message /\ One(i, Summary(n)) = 0
    BY DEF Summary, Message, One, Client
  <2>2. g' = g + 0
    BY <1>0, <1>6, <1>z, <2>1 DEF g
  <2>3. a' = a /\ b' = b /\ c7' = c7 /\ d7' = d7 /\ e' = e /\ f' = f /\ h' = h /\ D' = D
    BY <1>6, <1>u
  <2> QED BY ONLY <1>k, <1>n, <2>2, <2>3
<1>7. CASE Manual
  <2>1. /\ UNCHANGED <<steering, followUp, nextTurn, bash, hand, unsaved, held, sent, gone>>
        /\ log' = log \/ log' = Append(log, Summary(manualCut))
    BY <1>7, ManualFrame DEF Manual, ManualStep
  <2>2. manualCut \in Nat
    BY DEF Control, TypeOK
  <2> QED BY <1>1, <1>6, <2>1, <2>2
<1>8. ASSUME NEW c \in Caller, Saves(c) PROVE a' + b' + c7' + d7' + e' + f' + g' + h' = D'
  <2>1. cut[c] \in Nat
    BY DEF Control, TypeOK
  <2> QED BY <1>6, <1>8, <2>1 DEF Saves, queues, pending, run
<1>9. ASSUME NEW c \in Caller, Prompt(c) PROVE a' + b' + c7' + d7' + e' + f' + g' + h' = D'
  <2>0. DOMAIN held = Caller /\ (\A d \in Caller : held[d] = <<>>)
    BY <1>0, <1>9, PromptStarts
  <2>1. /\ Send /\ gone' = gone /\ held' = [held EXCEPT ![c] = <<Accept("user")>>]
        /\ log' = log \o bash /\ bash' = <<>> /\ UNCHANGED <<unsaved, steering, followUp, nextTurn, hand>>
    BY <1>9, PromptStarts
  <2>2. D' = D + One(i, Accept("user")) /\ One(i, Accept("user")) \in Nat /\ Accept("user") \in Message
    BY <2>1, SentIsDue DEF D, Client
  <2>3. h = 0
    BY <2>0, HeldByNone DEF h, InHands
  <2>4. h' = One(i, Accept("user"))
    <3>1. held'[c] = <<Accept("user")>> /\ \A d \in Caller : d # c => held'[d] = <<>>
      BY <2>0, <2>1
    <3>0. held'[c] \in Seq(Message)
      BY <2>2, <3>1
    <3>2. Cardinality(HeldIn(held', i)) = Count(i, held'[c])
      BY <3>0, <3>1, HeldByOne
    <3> QED BY <3>1, <3>2, CountOne DEF h, InHands
  <2>5. g' = g + d7 /\ d7' = 0
    BY <1>0, <1>z, <1>v, <2>1 DEF g, d7
  <2>6. a' = a /\ b' = b /\ c7' = c7 /\ e' = e /\ f' = f
    BY <1>u, <2>1
  <2> QED BY ONLY <1>k, <1>n, <2>2, <2>3, <2>4, <2>5, <2>6
<1>10. ASSUME NEW c \in Caller, Trigger(c) PROVE a' + b' + c7' + d7' + e' + f' + g' + h' = D'
  <2>0. DOMAIN held = Caller /\ \A d \in Caller : held[d] = <<>>
    BY <1>0, <1>10, TriggerStarts
  <2>1. /\ Send /\ gone' = gone /\ held' = [held EXCEPT ![c] = <<>>] /\ hand' = <<Accept("aside")>> /\ pc = "off"
        /\ UNCHANGED <<unsaved, steering, followUp, nextTurn, bash, log>>
    BY <1>10, TriggerStarts DEF StartRun
  <2>2. D' = D + One(i, Accept("aside")) /\ One(i, Accept("aside")) \in Nat
    BY <2>1, SentIsDue DEF D, Client
  <2>3. h = 0 /\ h' = 0
    <3>1. \A d \in Caller : held'[d] = <<>>
      BY <2>0, <2>1
    <3> QED BY <2>0, <3>1, HeldByNone DEF h, InHands
  <2>4. e = 0 /\ e' = One(i, Accept("aside"))
    <3>1. hand = <<>>
      BY <2>1 DEF Control, OneRun
    <3> QED BY <1>v, <2>1, <3>1, CountOne DEF e
  <2>5. a' = a /\ b' = b /\ c7' = c7 /\ d7' = d7 /\ f' = f /\ g' = g
    BY <1>u, <2>1
  <2> QED BY ONLY <1>k, <1>n, <2>2, <2>3, <2>4, <2>5
<1>11. ASSUME NEW c \in Caller, at[c] \in Preflight
       PROVE  /\ \A d \in Caller : d # c => held[d] = <<>>
              /\ h = Count(i, held[c]) /\ held[c] \in Seq(Message) /\ DOMAIN held = Caller
  <2>1. \A d \in Caller : d # c => held[d] = <<>>
    BY <1>0, <1>11
  <2>2. held[c] \in Seq(Message) /\ DOMAIN held = Caller
    BY <1>0
  <2>3. Cardinality(HeldIn(held, i)) = Count(i, held[c])
    BY <2>1, <2>2, HeldByOne
  <2> QED BY <2>1, <2>2, <2>3 DEF h, InHands
<1>12. ASSUME NEW c \in Caller, Run(c) PROVE a' + b' + c7' + d7' + e' + f' + g' + h' = D'
  <2>1. /\ pc = "off" /\ at[c] \in Preflight /\ held' = [held EXCEPT ![c] = <<>>] /\ hand' = held[c]
        /\ UNCHANGED <<unsaved, steering, followUp, nextTurn, bash, log, sent, gone>>
    BY <1>12, RunStarts DEF StartRun, Preflight
  <2>2. h' = 0
    <3>1. \A d \in Caller : held'[d] = <<>>
      BY <1>11, <2>1
    <3> QED BY <3>1, HeldByNone DEF h, InHands
  <2>3. e = 0 /\ e' = h
    <3>1. hand = <<>>
      BY <2>1 DEF Control, OneRun
    <3> QED BY <1>11, <1>v, <2>1, <3>1 DEF e
  <2>4. a' = a /\ b' = b /\ c7' = c7 /\ d7' = d7 /\ f' = f /\ g' = g /\ D' = D
    BY <1>u, <2>1
  <2> QED BY ONLY <1>k, <1>n, <2>2, <2>3, <2>4
<1>13. ASSUME NEW c \in Caller, PreflightFails(c) PROVE a' + b' + c7' + d7' + e' + f' + g' + h' = D'
  <2> DEFINE N == {m.n : m \in ToSet(held[c])}
  <2>1. /\ at[c] \in Preflight /\ held' = [held EXCEPT ![c] = <<>>] /\ gone' = gone \cup N
        /\ UNCHANGED <<unsaved, steering, followUp, nextTurn, bash, hand, log, sent>>
    BY <1>13 DEF PreflightFails, Preflight, context, queues, pending, run
  <2>2. h' = 0
    <3>1. \A d \in Caller : held'[d] = <<>>
      BY <1>11, <2>1
    <3> QED BY <3>1, HeldByNone DEF h, InHands
  <2>3. h = 0 <=> i \notin N
    <3>1. sent \in Nat /\ held[c] \in Seq(ClientMessage)
      BY DEF Control, TypeOK, Kinds
    <3>2. h = Count(i, held[c])
      BY <1>11, <2>1
    <3> QED BY <3>1, <3>2, CountedAre
  <2> HIDE DEF N
  <2>4. a' = a /\ b' = b /\ c7' = c7 /\ d7' = d7 /\ e' = e /\ f' = f /\ g' = g
    BY <1>u, <2>1
  <2>5. CASE i \in N
    <3>1. D' = 0 /\ D \in {0, 1}
      BY <2>1, <2>5 DEF D, Due
    <3> QED BY ONLY <1>k, <1>n, <2>2, <2>3, <2>4, <2>5, <3>1
  <2>6. CASE i \notin N
    <3>1. D' = D
      BY <2>1, <2>6 DEF D, Due
    <3> QED BY ONLY <1>k, <1>n, <2>2, <2>3, <2>4, <2>6, <3>1
  <2> QED BY <2>5, <2>6
<1>14. ASSUME NEW c \in Caller, Settled(c) PROVE a' + b' + c7' + d7' + e' + f' + g' + h' = D'
  BY <1>1, <1>14 DEF Settled, context, queues, pending, run, history
<1>15. ASSUME NEW c \in Caller, NEW ms, NEW wr \in BOOLEAN, Moves(c, ms, wr)
       PROVE  a' + b' + c7' + d7' + e' + f' + g' + h' = D'
  <2>0. UNCHANGED <<sent, gone, unsaved>> /\ Free(c)
    BY <1>15, MoveFrame DEF Moves, Remembers
  <2>1. CASE Builds(c, ms)
    <3>1. /\ at[c] \in Preflight /\ held' = [held EXCEPT ![c] = held[c] \o nextTurn] /\ nextTurn' = <<>>
          /\ UNCHANGED <<steering, followUp, bash, hand, log>>
      BY <2>1 DEF Builds, queues, run
    <3>2. h' = h + c7
      <4>1. /\ held'[c] = held[c] \o nextTurn /\ held[c] \in Seq(Message) /\ h = Count(i, held[c])
            /\ \A d \in Caller : d # c => held'[d] = <<>>
        BY <1>11, <3>1
      <4>2. held'[c] \in Seq(Message)
        BY <1>0, <4>1
      <4>3. Cardinality(HeldIn(held', i)) = Count(i, held'[c])
        BY <4>1, <4>2, HeldByOne
      <4>4. Count(i, held[c] \o nextTurn) = Count(i, held[c]) + Count(i, nextTurn)
        BY <1>0, <1>z, <4>1
      <4>5. h' = Count(i, held'[c])
        BY <4>3 DEF h, InHands
      <4> QED BY <4>1, <4>4, <4>5 DEF c7
    <3>3. c7' = 0 /\ a' = a /\ b' = b /\ d7' = d7 /\ e' = e /\ f' = f /\ g' = g /\ D' = D
      BY <1>u, <1>v, <2>0, <3>1
    <3> QED BY ONLY <1>k, <1>n, <3>2, <3>3
  <2>2. CASE Compacts(c, ms, wr) \/ BacksOff(c, ms)
    BY <1>1, <2>0, <2>2 DEF Compacts, BacksOff, queues, pending
  <2>3. CASE Ends(c, ms)
    <3>1. /\ at[c] \in Working /\ held' = [held EXCEPT ![c] = <<>>] /\ log' = log \o bash /\ bash' = <<>>
          /\ UNCHANGED <<steering, followUp, nextTurn, hand>>
      BY <2>3 DEF Ends, Finally, Flush, queues
    <3>2. held' = held
      <4>1. held[c] = <<>>
        BY <1>0, <3>1, Disjoint
      <4> QED BY <1>0, <3>1, <4>1
    <3>3. g' = g + d7 /\ d7' = 0
      BY <1>0, <1>z, <1>v, <3>1 DEF g, d7
    <3>4. a' = a /\ b' = b /\ c7' = c7 /\ e' = e /\ f' = f /\ h' = h /\ D' = D
      BY <1>u, <2>0, <3>1, <3>2
    <3> QED BY ONLY <1>k, <1>n, <3>3, <3>4
  <2>4. CASE Begins(c, ms)
    <3>1. hand = <<>>
      BY <2>0, <2>4, FreeIsOff DEF Begins
    <3>2. /\ UNCHANGED <<log, nextTurn, bash, held>>
          /\ \/ hand' = <<>> /\ UNCHANGED <<steering, followUp>>
             \/ steering # <<>> /\ hand' = <<Head(steering)>> /\ steering' = Tail(steering) /\ UNCHANGED followUp
             \/ followUp # <<>> /\ hand' = <<Head(followUp)>> /\ followUp' = Tail(followUp) /\ UNCHANGED steering
      BY <2>4 DEF Begins, StartRun, pending
    <3>3. e = 0 /\ c7' = c7 /\ d7' = d7 /\ f' = f /\ g' = g /\ h' = h /\ D' = D
      BY <1>u, <1>v, <2>0, <3>1, <3>2
    <3>4. CASE hand' = <<>> /\ UNCHANGED <<steering, followUp>>
      BY <1>1, <2>0, <3>1, <3>2, <3>4
    <3>5. CASE steering # <<>> /\ hand' = <<Head(steering)>> /\ steering' = Tail(steering) /\ UNCHANGED followUp
      <4>1. e' = Count(i, <<Head(steering)>>) /\ a = e' + a' /\ b' = b
        BY <1>u, <1>w, <3>5 DEF e
      <4>2. e' \in Nat /\ a' \in Nat
        BY <1>x, <1>y, <3>5, <4>1 DEF a
      <4> QED BY ONLY <1>k, <1>n, <3>3, <4>1, <4>2
    <3>6. CASE followUp # <<>> /\ hand' = <<Head(followUp)>> /\ followUp' = Tail(followUp) /\ UNCHANGED steering
      <4>1. e' = Count(i, <<Head(followUp)>>) /\ b = e' + b' /\ a' = a
        BY <1>u, <1>w, <3>6 DEF e
      <4>2. e' \in Nat /\ b' \in Nat
        BY <1>x, <1>y, <3>6, <4>1 DEF b
      <4> QED BY ONLY <1>k, <1>n, <3>3, <4>1, <4>2
    <3> QED BY <3>2, <3>4, <3>5, <3>6
  <2> QED BY <1>15, <2>1, <2>2, <2>3, <2>4 DEF Moves
<1> QED BY <1>3, <1>4, <1>5, <1>7, <1>8, <1>9, <1>10, <1>12, <1>13, <1>14, <1>15, Steps

\* So none is ever lost or doubled.
LEMMA KeptHolds == Spec => [](Apart => Control /\ Kept)
<1>1. Init => Control /\ Kept
  <2>1. ASSUME Init, NEW i \in Nat PROVE Tally(i) + InHands(i) = Due(i)
    <3>1. /\ steering = <<>> /\ followUp = <<>> /\ nextTurn = <<>> /\ bash = <<>> /\ hand = <<>>
          /\ unsaved = <<>> /\ log = <<>> /\ sent = 0 /\ \A d \in Caller : held[d] = <<>>
      BY <2>1 DEF Init
    <3>2. Count(i, <<>>) = 0 /\ InHands(i) = 0
      BY <3>1, CountOne, HeldByNone DEF InHands
    <3>3. Due(i) = 0
      BY <3>1 DEF Due
    <3>4. Tally(i) = 0
      BY <3>1, <3>2 DEF Tally
    <3> QED BY <3>2, <3>3, <3>4
  <2> QED BY <2>1, ControlInit DEF Kept
<1>2. ASSUME Control, Kept, Apart', [Next]_vars PROVE (Control /\ Kept)'
  <2>1. CASE Next
    BY <1>2, <2>1, KeptStep, ControlStep DEF Kept
  <2>2. CASE UNCHANGED vars
    <3>1. UNCHANGED <<steering, followUp, nextTurn, bash, hand, unsaved, log, held, sent, gone>>
      BY <2>2 DEF vars, context, queues, pending, run, callers, history
    <3>2. Kept'
      BY <1>2, <3>1 DEF Kept, Tally, InHands, Due
    <3> QED BY <1>2, <3>2, ControlStep
  <2> QED BY <1>2, <2>1, <2>2
<1>3. (Apart => Control /\ Kept) /\ [Next]_vars => (Apart => Control /\ Kept)'
  <2> SUFFICES ASSUME Apart => Control /\ Kept, [Next]_vars, Apart' PROVE (Control /\ Kept)'
    OBVIOUS
  <2>1. Control /\ Kept
    BY ApartBefore
  <2> QED BY <1>2, <2>1
<1>4. Init => (Apart => Control /\ Kept)
  BY <1>1
<1> QED BY <1>3, <1>4, PTL DEF Spec

\* A message that was accepted is in one place, once, until it is in the session:
\* in a queue, held by a prompt, in the hands of the run, unsaved or saved.  Only what
\* was withdrawn (clearQueue), or rejected with its prompt, is gone.
THEOREM NoMessageIsLostOrDoubled == Spec => [](overlap = "none" => MessagesAreKept)
<1>1. Control /\ Kept => MessagesAreKept
  <2>1. ASSUME Control, Kept, NEW i \in 1..sent
        PROVE  Cardinality(Places(i, Elsewhere)) + Cardinality(HeldPlaces(i)) = IF i \in gone THEN 0 ELSE 1
    <3>1. i \in Nat
      OBVIOUS
    <3>2. Cardinality(Places(i, Elsewhere)) = Tally(i) /\ Cardinality(HeldPlaces(i)) = InHands(i)
      BY <2>1, TallyIs DEF Control, InHands
    <3>3. Tally(i) + InHands(i) = Due(i)
      BY <2>1, <3>1 DEF Kept
    <3> QED BY <3>2, <3>3 DEF Due
  <2> QED BY <2>1 DEF MessagesAreKept
<1>2. (Apart => Control /\ Kept) => (overlap = "none" => MessagesAreKept)
  BY <1>1 DEF Apart
<1> QED BY <1>2, KeptHolds, PTL

-----------------------------------------------------------------------------
(* The context and the session agree: both grow by the same messages, and   *)
(* a compaction makes the context that a reload gives.                      *)

\* The context a and the session b agree, but for failed replies and where asides stand.
Lasting == (Client \cup Reply \cup {"result", "summary"}) \ (Failed \cup {"aside"})
Agree(a, b) ==
  /\ Of(Lasting, a) = Of(Lasting, b)
  /\ ToSet(Of({"aside"}, a)) = ToSet(Of({"aside"}, b))
  /\ ToSet(Of(Failed, a)) \subseteq ToSet(b)

\* The elements of a longer sequence.
LEMMA ElementsOf ==
  ASSUME NEW S, NEW s \in Seq(S), NEW t \in Seq(S), NEW m \in S
  PROVE  /\ ToSet(s \o t) = ToSet(s) \cup ToSet(t)
         /\ ToSet(Append(s, m)) = ToSet(s) \cup {m}
<1>1. /\ Len(s) \in Nat /\ Len(t) \in Nat /\ Len(s \o t) = Len(s) + Len(t) /\ s \o t \in Seq(S)
      /\ \A k \in 1..Len(s) : (s \o t)[k] = s[k]
      /\ \A k \in 1..Len(t) : (s \o t)[Len(s) + k] = t[k]
  BY ConcatProperties
<1>2. ToSet(s \o t) = ToSet(s) \cup ToSet(t)
  <2> DEFINE u == s \o t
  <2>1. DOMAIN u = 1..(Len(s) + Len(t)) /\ DOMAIN s = 1..Len(s) /\ DOMAIN t = 1..Len(t)
    BY <1>1
  <2>2. ASSUME NEW k \in DOMAIN u PROVE u[k] \in ToSet(s) \cup ToSet(t)
    <3>1. CASE k <= Len(s)
      BY <1>1, <2>1, <3>1 DEF ToSet
    <3>2. CASE ~(k <= Len(s))
      <4>1. k - Len(s) \in 1..Len(t) /\ k = Len(s) + (k - Len(s))
        BY <1>1, <2>1, <3>2
      <4>2. u[k] = t[k - Len(s)]
        BY <1>1, <4>1
      <4> QED BY <2>1, <4>1, <4>2 DEF ToSet
    <3> QED BY <3>1, <3>2
  <2>3. ASSUME NEW k \in DOMAIN s PROVE s[k] \in ToSet(u)
    <3>1. k \in DOMAIN u /\ u[k] = s[k]
      BY <1>1, <2>1
    <3> QED BY <3>1 DEF ToSet
  <2>4. ASSUME NEW k \in DOMAIN t PROVE t[k] \in ToSet(u)
    <3>1. Len(s) + k \in DOMAIN u /\ u[Len(s) + k] = t[k]
      BY <1>1, <2>1
    <3> QED BY <3>1 DEF ToSet
  <2> HIDE DEF u
  <2> QED BY <2>2, <2>3, <2>4 DEF ToSet, u
<1>3. ToSet(Append(s, m)) = ToSet(s) \cup {m}
  <2>1. DOMAIN Append(s, m) = 1..(Len(s) + 1) /\ DOMAIN s = 1..Len(s)
        /\ (\A k \in 1..Len(s) : Append(s, m)[k] = s[k]) /\ Append(s, m)[Len(s) + 1] = m
    OBVIOUS
  <2>2. ASSUME NEW k \in 1..(Len(s) + 1) PROVE k \in 1..Len(s) \/ k = Len(s) + 1
    BY <1>1
  <2>3. 1..Len(s) \subseteq 1..(Len(s) + 1) /\ Len(s) + 1 \in 1..(Len(s) + 1)
    BY <1>1
  <2> QED BY <2>1, <2>2, <2>3 DEF ToSet
<1> QED BY <1>2, <1>3

\* Agreement, said of elements where the order does not matter.
LEMMA AgreeIs ==
  ASSUME NEW a \in Seq(Message), NEW b \in Seq(Message)
  PROVE  Agree(a, b) <=>
           /\ Of(Lasting, a) = Of(Lasting, b)
           /\ {m \in ToSet(a) : m.kind = "aside"} = {m \in ToSet(b) : m.kind = "aside"}
           /\ {m \in ToSet(a) : m.kind \in Failed} \subseteq ToSet(b)
<1>1. /\ ToSet(Of({"aside"}, a)) = {m \in ToSet(a) : m.kind \in {"aside"}}
      /\ ToSet(Of({"aside"}, b)) = {m \in ToSet(b) : m.kind \in {"aside"}}
      /\ ToSet(Of(Failed, a)) = {m \in ToSet(a) : m.kind \in Failed}
  BY OfElements
<1>2. \A T : {m \in T : m.kind \in {"aside"}} = {m \in T : m.kind = "aside"}
  OBVIOUS
<1> QED BY <1>1, <1>2 DEF Agree

\* Both grow by the same messages.
LEMMA AgreeOnMore ==
  ASSUME NEW a \in Seq(Message), NEW b \in Seq(Message), NEW x \in Seq(Message), Agree(a, b)
  PROVE  Agree(a \o x, b \o x)
<1>1. a \o x \in Seq(Message) /\ b \o x \in Seq(Message)
  OBVIOUS
<1>2. Of(Lasting, a \o x) = Of(Lasting, b \o x)
  <2>1. Of(Lasting, a \o x) = Of(Lasting, a) \o Of(Lasting, x)
    BY OfConcat
  <2>2. Of(Lasting, b \o x) = Of(Lasting, b) \o Of(Lasting, x)
    BY OfConcat
  <2> QED BY <2>1, <2>2 DEF Agree
<1>3. ToSet(a \o x) = ToSet(a) \cup ToSet(x) /\ ToSet(b \o x) = ToSet(b) \cup ToSet(x)
  <2>1. NoMessage \in Message
    BY DEF NoMessage, Message
  <2>2. ToSet(a \o x) = ToSet(a) \cup ToSet(x)
    BY <2>1, ElementsOf
  <2>3. ToSet(b \o x) = ToSet(b) \cup ToSet(x)
    BY <2>1, ElementsOf
  <2> QED BY <2>2, <2>3
<1>4. /\ {m \in ToSet(a) : m.kind = "aside"} = {m \in ToSet(b) : m.kind = "aside"}
      /\ {m \in ToSet(a) : m.kind \in Failed} \subseteq ToSet(b)
  BY AgreeIs
<1>5. /\ {m \in ToSet(a \o x) : m.kind = "aside"} = {m \in ToSet(b \o x) : m.kind = "aside"}
      /\ {m \in ToSet(a \o x) : m.kind \in Failed} \subseteq ToSet(b \o x)
  BY ONLY <1>3, <1>4, Zenon
<1> QED BY <1>1, <1>2, <1>5, AgreeIs

\* A failed reply is taken out of the context.
LEMMA AgreeWithoutFailure ==
  ASSUME NEW a \in Seq(Message), NEW b \in Seq(Message), Agree(a, b),
         a # <<>>, Last(a).kind \in Failed
  PROVE  Agree(Front(a), b)
<1> DEFINE s == Front(a)
           m == Last(a)
<1>1. s \in Seq(Message) /\ m \in Message /\ a = Append(s, m)
  <2>1. Len(a) \in Nat /\ Len(a) # 0 /\ Len(a) - 1 \in Nat
    OBVIOUS
  <2>2. s = [k \in 1..(Len(a) - 1) |-> a[k]] /\ m = a[Len(a)]
    BY <2>1 DEF Front, Last
  <2> HIDE DEF s, m
  <2>3. s \in Seq(Message) /\ Len(s) = Len(a) - 1 /\ m \in Message
    BY <2>1, <2>2
  <2>4. Append(s, m) \in Seq(Message) /\ Len(Append(s, m)) = Len(a)
        /\ \A k \in 1..Len(a) : Append(s, m)[k] = a[k]
    <3>1. /\ Append(s, m) \in Seq(Message) /\ Len(Append(s, m)) = Len(a)
          /\ \A k \in 1..(Len(a) - 1) : Append(s, m)[k] = s[k]
          /\ Append(s, m)[Len(a)] = m
      BY <2>1, <2>3
    <3>2. \A k \in 1..(Len(a) - 1) : s[k] = a[k]
      BY <2>2
    <3>3. \A k \in 1..Len(a) : k \in 1..(Len(a) - 1) \/ k = Len(a)
      BY <2>1
    <3> QED BY ONLY <2>2, <3>1, <3>2, <3>3
  <2>5. a = Append(s, m)
    BY <2>4
  <2> QED BY <2>3, <2>5
<1>2. m.kind \notin Lasting /\ m.kind # "aside"
  BY DEF Lasting, Failed
<1> HIDE DEF s, m
<1>3. Of(Lasting, a) = Of(Lasting, s)
  BY <1>1, <1>2, OfAppend
<1>4. ToSet(a) = ToSet(s) \cup {m}
  BY <1>1, ElementsOf
<1>5. Agree(s, b)
  <2>1. /\ Of(Lasting, a) = Of(Lasting, b)
        /\ {x \in ToSet(a) : x.kind = "aside"} = {x \in ToSet(b) : x.kind = "aside"}
        /\ {x \in ToSet(a) : x.kind \in Failed} \subseteq ToSet(b)
    BY AgreeIs
  <2>2. /\ {x \in ToSet(s) : x.kind = "aside"} = {x \in ToSet(b) : x.kind = "aside"}
        /\ {x \in ToSet(s) : x.kind \in Failed} \subseteq ToSet(b)
    BY ONLY <1>2, <1>4, <2>1
  <2> QED BY <1>1, <1>3, <2>1, <2>2, AgreeIs
<1> QED BY <1>5 DEF s

\* An aside stands before or behind a message that is not saved yet.
LEMMA AgreeOnAside ==
  ASSUME NEW a \in Seq(Message), NEW l \in Seq(Message), NEW u \in Seq(Message), Agree(a, l \o u),
         NEW m \in Message, m.kind = "aside"
  PROVE  Agree(Append(a, m), Append(l, m) \o u)
<1>1. /\ Append(a, m) \in Seq(Message) /\ Append(l, m) \in Seq(Message) /\ l \o u \in Seq(Message)
  OBVIOUS
<1>2. Append(l, m) \o u \in Seq(Message)
  BY <1>1
<1>3. m.kind \notin Lasting /\ m.kind \notin Failed
  BY DEF Lasting, Failed
<1>4. Of(Lasting, Append(a, m)) = Of(Lasting, a) /\ Of(Lasting, Append(l, m)) = Of(Lasting, l)
  BY <1>3, OfAppend
<1>5. Of(Lasting, Append(l, m) \o u) = Of(Lasting, l \o u)
  <2>1. Of(Lasting, l \o u) = Of(Lasting, l) \o Of(Lasting, u)
    BY OfConcat
  <2>2. Of(Lasting, Append(l, m) \o u) = Of(Lasting, Append(l, m)) \o Of(Lasting, u)
    BY <1>1, OfConcat
  <2> QED BY <1>4, <2>1, <2>2
<1>6. /\ ToSet(Append(a, m)) = ToSet(a) \cup {m}
      /\ ToSet(l \o u) = ToSet(l) \cup ToSet(u)
      /\ ToSet(Append(l, m) \o u) = (ToSet(l) \cup {m}) \cup ToSet(u)
  <2>1. ToSet(Append(a, m)) = ToSet(a) \cup {m} /\ ToSet(Append(l, m)) = ToSet(l) \cup {m}
    BY ElementsOf
  <2>2. ToSet(l \o u) = ToSet(l) \cup ToSet(u)
    BY ElementsOf
  <2>3. ToSet(Append(l, m) \o u) = ToSet(Append(l, m)) \cup ToSet(u)
    <3> DEFINE s == Append(l, m)
    <3>1. s \in Seq(Message)
      BY <1>1
    <3> HIDE DEF s
    <3>2. ToSet(s \o u) = ToSet(s) \cup ToSet(u)
      BY <3>1, ElementsOf
    <3> QED BY <3>2 DEF s
  <2> QED BY <2>1, <2>2, <2>3
<1>7. /\ Of(Lasting, a) = Of(Lasting, l \o u)
      /\ {x \in ToSet(a) : x.kind = "aside"} = {x \in ToSet(l \o u) : x.kind = "aside"}
      /\ {x \in ToSet(a) : x.kind \in Failed} \subseteq ToSet(l \o u)
  BY <1>1, AgreeIs
<1>8. /\ {x \in ToSet(Append(a, m)) : x.kind = "aside"} = {x \in ToSet(Append(l, m) \o u) : x.kind = "aside"}
      /\ {x \in ToSet(Append(a, m)) : x.kind \in Failed} \subseteq ToSet(Append(l, m) \o u)
  BY ONLY <1>3, <1>6, <1>7, Zenon
<1> QED BY <1>1, <1>2, <1>4, <1>5, <1>7, <1>8, AgreeIs

-----------------------------------------------------------------------------
\* A concatenation, place by place.
LEMMA Joined ==
  ASSUME NEW S, NEW s \in Seq(S), NEW t \in Seq(S)
  PROVE  /\ s \o t \in Seq(S) /\ Len(s \o t) = Len(s) + Len(t) /\ Len(s) \in Nat /\ Len(t) \in Nat
         /\ \A k \in 1..Len(s) : (s \o t)[k] = s[k]
         /\ \A k \in 1..Len(t) : (s \o t)[Len(s) + k] = t[k]
BY ConcatProperties

\* A part of a sequence, place by place.
LEMMA PartIs ==
  ASSUME NEW S, NEW s \in Seq(S), NEW n \in Nat, n >= 1, NEW m \in Nat, m <= Len(s)
  PROVE  /\ SubSeq(s, n, m) \in Seq(S) /\ Len(SubSeq(s, n, m)) = IF n <= m THEN m - n + 1 ELSE 0
         /\ \A j \in 1..(m - n + 1) : SubSeq(s, n, m)[j] = s[n + j - 1] /\ n + j - 1 \in 1..Len(s)
<1>1. n \in Int /\ m \in Int /\ \A j \in n..m : s[j] \in S
  OBVIOUS
<1>2. \A j \in 1..(m - n + 1) : n + j - 1 \in 1..Len(s)
  OBVIOUS
<1> QED BY <1>1, <1>2, SubSeqProperties

\* What stands before the end of s is the same in a longer sequence.
LEMMA PartBefore ==
  ASSUME NEW S, NEW s \in Seq(S), NEW t \in Seq(S), NEW n \in Nat, n >= 1, NEW m \in Nat, m <= Len(s)
  PROVE  SubSeq(s \o t, n, m) = SubSeq(s, n, m)
<1> DEFINE u == s \o t
           p == SubSeq(s, n, m)
           p2 == SubSeq(u, n, m)
<1>1. u \in Seq(S) /\ m <= Len(u) /\ \A k \in 1..Len(s) : u[k] = s[k]
  BY Joined
<1> HIDE DEF u
<1>2. /\ p \in Seq(S) /\ Len(p) = IF n <= m THEN m - n + 1 ELSE 0
      /\ \A j \in 1..(m - n + 1) : p[j] = s[n + j - 1] /\ n + j - 1 \in 1..Len(s)
  BY PartIs
<1>3. /\ p2 \in Seq(S) /\ Len(p2) = IF n <= m THEN m - n + 1 ELSE 0
      /\ \A j \in 1..(m - n + 1) : p2[j] = u[n + j - 1]
  BY <1>1, PartIs
<1> HIDE DEF p, p2
<1>4. \A j \in 1..Len(p) : j \in 1..(m - n + 1)
  BY <1>2
<1>5. Len(p) = Len(p2) /\ \A j \in 1..Len(p) : p2[j] = p[j]
  BY ONLY <1>1, <1>2, <1>3, <1>4
<1>6. p2 = p
  BY <1>2, <1>3, <1>5, SeqEqual
<1> QED BY <1>6 DEF p, p2, u

\* What stands from place k + 1 on ends in what is added.
LEMMA PartAfter ==
  ASSUME NEW S, NEW s \in Seq(S), NEW t \in Seq(S), NEW k \in 0..Len(s)
  PROVE  SubSeq(s \o t, k + 1, Len(s \o t)) = SubSeq(s, k + 1, Len(s)) \o t
<1> DEFINE u == s \o t
           q == SubSeq(s, k + 1, Len(s))
           q2 == SubSeq(u, k + 1, Len(u))
           r == q \o t
<1>1. /\ u \in Seq(S) /\ Len(u) = Len(s) + Len(t) /\ Len(s) \in Nat /\ Len(t) \in Nat
      /\ \A j \in 1..Len(s) : u[j] = s[j]
      /\ \A j \in 1..Len(t) : u[Len(s) + j] = t[j]
  BY Joined
<1>2. k \in Nat /\ k <= Len(s) /\ k + 1 \in Nat /\ k + 1 >= 1 /\ k <= Len(u) /\ Len(u) \in Nat
  BY <1>1
<1> HIDE DEF u
<1>3. /\ q \in Seq(S) /\ Len(q) = Len(s) - k /\ \A j \in 1..(Len(s) - k) : q[j] = s[k + j]
  <2>1. /\ q \in Seq(S) /\ Len(q) = IF k + 1 <= Len(s) THEN Len(s) - (k + 1) + 1 ELSE 0
        /\ \A j \in 1..(Len(s) - (k + 1) + 1) : q[j] = s[(k + 1) + j - 1]
    BY <1>1, <1>2, PartIs
  <2> HIDE DEF q
  <2> QED BY <1>1, <1>2, <2>1
<1>4. /\ q2 \in Seq(S) /\ Len(q2) = Len(u) - k /\ \A j \in 1..(Len(u) - k) : q2[j] = u[k + j]
  <2>1. /\ q2 \in Seq(S) /\ Len(q2) = IF k + 1 <= Len(u) THEN Len(u) - (k + 1) + 1 ELSE 0
        /\ \A j \in 1..(Len(u) - (k + 1) + 1) : q2[j] = u[(k + 1) + j - 1]
    BY <1>1, <1>2, PartIs
  <2> HIDE DEF q2
  <2> QED BY <1>1, <1>2, <2>1
<1> HIDE DEF q, q2
<1>5. /\ r \in Seq(S) /\ Len(r) = Len(q) + Len(t)
      /\ \A j \in 1..Len(q) : r[j] = q[j]
      /\ \A j \in 1..Len(t) : r[Len(q) + j] = t[j]
  <2>1. q \in Seq(S) /\ t \in Seq(S)
    BY <1>3
  <2> QED BY ONLY <2>1, Joined
<1> HIDE DEF r
<1>6. ASSUME NEW j \in 1..Len(q2) PROVE r[j] = q2[j]
  <2>1. q2[j] = u[k + j]
    BY ONLY <1>1, <1>2, <1>4, <1>6
  <2>2. CASE j <= Len(q)
    <3>1. j \in 1..Len(q) /\ j \in 1..(Len(s) - k) /\ k + j \in 1..Len(s)
      BY ONLY <1>1, <1>2, <1>3, <1>6, <2>2
    <3>2. r[j] = q[j] /\ q[j] = s[k + j] /\ u[k + j] = s[k + j]
      BY ONLY <1>1, <1>3, <1>5, <3>1
    <3> QED BY <2>1, <3>2
  <2>3. CASE ~(j <= Len(q))
    <3> DEFINE i == j - Len(q)
    <3>1. i \in 1..Len(t) /\ j = Len(q) + i /\ k + j = Len(s) + i
      BY ONLY <1>1, <1>2, <1>3, <1>4, <1>6, <2>3
    <3> HIDE DEF i
    <3>2. r[j] = t[i] /\ u[k + j] = t[i]
      BY ONLY <1>1, <1>5, <3>1
    <3> QED BY <2>1, <3>2
  <2> QED BY <2>2, <2>3
<1>7. Len(r) = Len(q2)
  <2>1. Len(q2) = Len(u) - k
    BY ONLY <1>4
  <2>2. Len(q) = Len(s) - k /\ Len(r) = Len(q) + Len(t)
    BY ONLY <1>3, <1>5
  <2>3. k \in Nat /\ Len(s) \in Nat /\ Len(t) \in Nat /\ Len(u) = Len(s) + Len(t)
    BY ONLY <1>1, <1>2
  <2> QED BY ONLY <2>1, <2>2, <2>3
<1>8. q2 = r
  BY <1>4, <1>5, <1>6, <1>7, SeqEqual
<1> QED BY <1>8 DEF q, q2, r, u

\* What is logged after a compaction comes after what it keeps.
LEMMA ContextGrows ==
  ASSUME NEW l \in Seq(Message), \A k \in DOMAIN l : l[k].kind = "summary" => l[k].n >= 1,
         NEW x \in Seq(Message), \A k \in DOMAIN x : x[k].kind # "summary"
  PROVE  Context(l \o x) = Context(l) \o x /\ Context(l) \in Seq(Message)
<1> DEFINE u == l \o x
           k == LastCompaction(l)
<1>1. /\ Len(l) \in Nat /\ Len(x) \in Nat /\ Len(u) = Len(l) + Len(x) /\ u \in Seq(Message)
      /\ \A j \in 1..Len(l) : u[j] = l[j]
      /\ \A j \in 1..Len(x) : u[Len(l) + j] = x[j]
  BY ConcatProperties
<1>2. /\ k \in 0..Len(l) /\ Context(l) \in Seq(Message)
      /\ k # 0 => l[k].kind = "summary"
  BY LastCompactionIs, ContextType
<1>3. LastCompaction(u) = k
  <2>1. DOMAIN u = 1..(Len(l) + Len(x)) /\ DOMAIN l = 1..Len(l) /\ DOMAIN x = 1..Len(x)
    BY <1>1
  <2>2. ASSUME NEW j \in DOMAIN u, u[j].kind = "summary" PROVE j \in 1..Len(l) /\ l[j].kind = "summary"
    <3>1. CASE j <= Len(l)
      BY <1>1, <2>1, <2>2, <3>1
    <3>2. CASE ~(j <= Len(l))
      <4>1. j - Len(l) \in 1..Len(x) /\ j = Len(l) + (j - Len(l))
        BY <1>1, <2>1, <3>2
      <4>2. u[j] = x[j - Len(l)]
        BY <1>1, <4>1
      <4> QED BY <2>1, <2>2, <4>1, <4>2
    <3> QED BY <3>1, <3>2
  <2>3. ASSUME NEW j \in 1..Len(l), l[j].kind = "summary" PROVE j \in DOMAIN u /\ u[j].kind = "summary"
    BY <1>1, <2>1, <2>3
  <2> HIDE DEF u
  <2>4. Compactions(u) = Compactions(l)
    BY <2>1, <2>2, <2>3 DEF Compactions
  <2> QED BY <2>4 DEF LastCompaction
<1> HIDE DEF u
<1>4. CASE k = 0
  <2>1. Context(u) = u /\ Context(l) = l
    BY <1>3, <1>4 DEF Context
  <2> QED BY <1>2, <2>1 DEF u
<1>5. CASE k # 0
  <2>1. k \in 1..Len(l) /\ k \in Int /\ l[k] \in Message /\ l[k].n >= 1 /\ l[k].n \in Int /\ k - 1 \in Int
    <3>1. k \in 1..Len(l) /\ l[k].kind = "summary"
      BY <1>1, <1>2, <1>5
    <3> HIDE DEF k
    <3>2. l[k] \in Message /\ k \in DOMAIN l
      BY <3>1
    <3>3. l[k].n >= 1 /\ l[k].n \in Nat
      BY <3>1, <3>2 DEF Message
    <3> QED BY <3>1, <3>2, <3>3, <1>1
  <2> DEFINE n == l[k].n
             p == SubSeq(l, n, k - 1)
             q == SubSeq(l, k + 1, Len(l))
             p2 == SubSeq(u, n, k - 1)
             q2 == SubSeq(u, k + 1, Len(u))
  <2>2. Context(l) = <<l[k]>> \o p \o q
    BY <1>5 DEF Context
  <2>3. Context(u) = <<u[k]>> \o SubSeq(u, u[k].n, k - 1) \o q2
    BY <1>3, <1>5 DEF Context
  <2>4. u[k] = l[k]
    BY <1>1, <2>1
  <2> HIDE DEF k
  <2>5. p \in Seq(Message)
    BY <1>1, <2>1
  <2>7. p2 = p
    <3>1. n \in Nat /\ n >= 1 /\ k - 1 \in Nat /\ k - 1 <= Len(l)
      BY <1>1, <2>1
    <3> QED BY <3>1, PartBefore DEF u
  <2>8. q \in Seq(Message)
    BY <1>1, <2>1
  <2>10. q2 = q \o x
    BY <1>1, <1>2, PartAfter DEF u
  <2> HIDE DEF q, q2, p, p2
  <2>11. /\ <<l[k]>> \in Seq(Message) /\ <<l[k]>> \o p \in Seq(Message)
    BY <2>1, <2>5
  <2>12. (<<l[k]>> \o p) \o (q \o x) = ((<<l[k]>> \o p) \o q) \o x
    <3> DEFINE A == <<l[k]>> \o p
    <3>1. A \in Seq(Message)
      BY <2>11
    <3> HIDE DEF A
    <3>2. (A \o q) \o x = A \o (q \o x)
      BY ONLY x \in Seq(Message), <2>8, <3>1, ConcatAssociative
    <3> QED BY <3>2 DEF A
  <2> QED BY <1>2, <2>2, <2>3, <2>4, <2>7, <2>10, <2>12 DEF u, p2
<1> QED BY <1>4, <1>5

\* Every step keeps the agreement.
LEMMA AgreeStep ==
  ASSUME Control, Apart', Next, Agree(messages, Context(log) \o unsaved)
  PROVE  Agree(messages, Context(log) \o unsaved)'
<1> DEFINE C == Context(log)
<1>0. /\ messages \in Seq(Message) /\ log \in Seq(Message) /\ unsaved \in Seq(Message) /\ bash \in Seq(Message)
      /\ \A k \in DOMAIN log : log[k].kind = "summary" => log[k].n >= 1
      /\ \A k \in DOMAIN bash : bash[k].kind # "summary"
      /\ \A k \in DOMAIN unsaved : unsaved[k].kind # "summary"
  BY DEF Control, TypeOK, Kinds, Cuts
<1>1. C \in Seq(Message)
  BY <1>0, ContextType
<1>2. \A s \in Seq(Message) : s \o <<>> = s
  BY ConcatEmptySeq
<1>3. \A x \in Seq(Message) : (\A k \in DOMAIN x : x[k].kind # "summary") => Context(log \o x) = C \o x
  BY <1>0, ContextGrows
<1>4. ASSUME NEW ms, Shortened(ms) PROVE ms \in Seq(Message) /\ Agree(ms, C \o unsaved)
  <2>1. ms \in Seq(Message)
    BY <1>4, ShortenedType DEF Control
  <2>2. C \o unsaved \in Seq(Message)
    BY <1>0, <1>1
  <2> HIDE DEF C
  <2>3. messages # <<>> /\ Last(messages).kind \in Failed => Agree(Front(messages), C \o unsaved)
    BY <1>0, <2>2, AgreeWithoutFailure DEF C
  <2> QED BY <1>4, <2>1, <2>3 DEF Shortened, C
<1>5. CASE Shortens
  <2>1. PICK ms : Shortened(ms) /\ messages' = ms /\ UNCHANGED <<log, unsaved>>
    BY <1>5 DEF Shortens
  <2> QED BY <1>4, <2>1
<1>6. CASE Flushes
  <2>1. PICK ms : Shortened(ms) /\ messages' = ms \o bash
    BY <1>6 DEF Flushes
  <2>2. unsaved = <<>> /\ unsaved' = <<>> /\ log' = log \o bash
    BY <1>6 DEF Flushes
  <2>3. Context(log') = C \o bash
    BY <1>0, <1>3, <2>2
  <2>4. Agree(ms, C) /\ ms \in Seq(Message)
    BY <1>1, <1>2, <1>4, <2>1, <2>2
  <2> HIDE DEF C
  <2>5. Agree(ms \o bash, C \o bash)
    BY <1>0, <1>1, <2>4, AgreeOnMore
  <2>6. C \o bash \in Seq(Message)
    BY <1>0, <1>1
  <2>7. Context(log') \o unsaved' = C \o bash
    BY <1>2, <2>2, <2>3, <2>6
  <2> QED BY <2>1, <2>5, <2>7
<1>7. CASE Delivers
  <2>1. PICK m \in ClientMessage' :
          /\ m.kind = "aside" \/ (m.kind = "bash" /\ unsaved = <<>> /\ ~active)
          /\ messages' = Append(messages, m) /\ log' = Append(log, m) /\ unsaved' = unsaved
    BY <1>7 DEF Delivers
  <2>2. m \in Message /\ <<m>> \in Seq(Message)
    <3>1. sent' \in Nat BY SentTypes
    <3> QED BY <3>1 DEF ClientMessage, Message
  <2>3. Context(log') = C \o <<m>>
    <3>1. log' = log \o <<m>>
      BY <1>0, <2>1, <2>2, AppendIsConcat
    <3>2. \A k \in DOMAIN <<m>> : <<m>>[k].kind # "summary"
      BY <2>1
    <3> QED BY <1>3, <2>2, <3>1, <3>2
  <2> HIDE DEF C
  <2>4. C \o <<m>> = Append(C, m) /\ Append(messages, m) = messages \o <<m>>
    BY <1>0, <1>1, <2>2, AppendIsConcat
  <2>5. CASE m.kind = "aside"
    <3>1. Agree(Append(messages, m), Append(C, m) \o unsaved)
      BY <1>0, <1>1, <2>2, <2>5, AgreeOnAside DEF C
    <3> QED BY <2>1, <2>3, <2>4, <3>1
  <2>6. CASE unsaved = <<>>
    <3>1. Agree(messages, C)
      BY <1>1, <1>2, <2>6 DEF C
    <3>2. Agree(messages \o <<m>>, C \o <<m>>)
      BY <1>0, <1>1, <2>2, <3>1, AgreeOnMore
    <3>3. C \o <<m>> \in Seq(Message)
      BY <1>1, <2>2
    <3>4. Context(log') \o unsaved' = C \o <<m>>
      BY <1>2, <2>1, <2>3, <2>6, <3>3
    <3> QED BY <2>1, <2>4, <3>2, <3>4
  <2> QED BY <2>1, <2>5, <2>6
<1>8. CASE Emits
  <2>1. PICK m \in Message : unsaved' = <<m>> /\ messages' = Append(messages, m)
    BY <1>8 DEF Emits
  <2>2. unsaved = <<>> /\ log' = log
    BY <1>8 DEF Emits
  <2>3. <<m>> \in Seq(Message) /\ Append(messages, m) = messages \o <<m>>
    BY <1>0, AppendIsConcat
  <2>4. Agree(messages, C)
    BY <1>1, <1>2, <2>2
  <2> HIDE DEF C
  <2>5. Agree(messages \o <<m>>, C \o <<m>>)
    BY <1>0, <1>1, <2>3, <2>4, AgreeOnMore
  <2>6. Context(log') \o unsaved' = C \o <<m>>
    BY <2>1, <2>2 DEF C
  <2> QED BY <2>1, <2>3, <2>5, <2>6
<1>9. CASE SavesIt
  <2>1. log' = log \o unsaved /\ unsaved' = <<>> /\ messages' = messages
    BY <1>9 DEF SavesIt
  <2>2. Context(log') = C \o unsaved
    BY <1>0, <1>3, <2>1
  <2>3. C \o unsaved \in Seq(Message)
    BY <1>0, <1>1
  <2>4. Context(log') \o unsaved' = C \o unsaved
    BY <1>2, <2>1, <2>2, <2>3
  <2> QED BY <2>1, <2>4
<1>10. CASE Summarises
  <2>1. messages' = Context(log') /\ unsaved' = <<>>
    BY <1>10 DEF Summarises
  <2>2. log' \in Seq(Message) /\ \A k \in DOMAIN log' : log'[k].kind = "summary" => log'[k].n >= 1
    BY LogStep
  <2>3. Context(log') \in Seq(Message)
    BY <2>2, ContextType
  <2>4. Context(log') \o unsaved' = Context(log')
    BY <1>2, <2>1, <2>3
  <2>5. Agree(Context(log'), Context(log'))
    BY <2>3, AgreeIs
  <2> QED BY <2>1, <2>4, <2>5
<1> QED BY <1>5, <1>6, <1>7, <1>8, <1>9, <1>10, Recorded

\* The agent works with the context that a reload of the session would give it, but
\* for failed replies and the place of asides (buildSessionContext).
THEOREM ContextIsReloaded == Spec => []ContextIsSession
<1> DEFINE I == Control /\ Agree(messages, Context(log) \o unsaved)
<1>1. Init => I
  <2>1. Init => log = <<>> /\ messages = <<>> /\ unsaved = <<>>
    BY DEF Init
  <2>2. Context(<<>>) = <<>> /\ <<>> \o <<>> = <<>>
    <3>1. Compactions(<<>>) = {}
      BY DEF Compactions
    <3> QED BY <3>1 DEF Context, LastCompaction
  <2>3. Agree(<<>>, <<>>)
    BY <<>> \in Seq(Message), AgreeIs
  <2> QED BY <2>1, <2>2, <2>3, ControlInit
<1>2. ASSUME I, Apart', [Next]_vars PROVE I'
  <2>1. CASE Next
    BY <1>2, <2>1, AgreeStep, ControlStep
  <2>2. CASE UNCHANGED vars
    <3>1. UNCHANGED <<messages, log, unsaved>>
      BY <2>2 DEF vars, context
    <3> QED BY <1>2, <3>1, ControlStep
  <2> QED BY <1>2, <2>1, <2>2
<1> HIDE DEF I
<1>3. (Apart => I) /\ [Next]_vars => (Apart => I)'
  <2> SUFFICES ASSUME Apart => I, [Next]_vars, Apart' PROVE I'
    OBVIOUS
  <2> QED BY <1>2, ApartBefore
<1>4. (Apart => I) => ContextIsSession
  BY DEF I, Apart, ContextIsSession, ContextAgrees, Agree, Lasting
<1>5. Init => (Apart => I)
  BY <1>1
<1> QED BY <1>3, <1>4, <1>5, PTL DEF Spec
-----------------------------------------------------------------------------
(* The settings.                                                           *)

Jobs == [kind : {"write"}, scope : Scopes, marks : SUBSET Path, values : [Path -> Value]]
        \cup [kind : {"reload"}]

Typed == SettingsTypeOK /\ queue \in [Process -> Seq(Jobs)]

\* Who has the lock of a file is writing it.
LocksHeld ==
  \A p \in Process, s \in Scopes : lock[s] = p <=> phase[p] = "locked" /\ Job(p).scope = s

BusyWrites ==
  \A p \in Process :
    /\ phase[p] \in {"merged", "locked"} => queue[p] # <<>> /\ Job(p).kind = "write"
    /\ phase[p] = "down" => queue[p] = <<>>

\* A file that was there in the beginning is not taken for missing.
ExistingStay ==
  /\ \A s \in Existing : file[s].state # "missing"
  /\ \A p \in Process : phase[p] = "merged" => Job(p).scope \notin Existing

\* What was read of it under the lock is what it holds, but for what was edited by hand.
ReadIsFile ==
  \A p \in Process : phase[p] = "locked" /\ Job(p).scope \in Existing =>
    \A x \in Path \ missed[p] : read[p][x] = file[Job(p).scope].values[x]

\* What the setters mark that have set the values of f.
Under(f) == UNION {Marks(x) : x \in {y \in Path : f[y] # 0}}

\* What is marked, and what a queued write marks, was marked by a setter of its process.
MarksAreSet ==
  \A p \in Process :
    /\ \A s \in Scopes : modified[p][s] \subseteq Under(lastSet[p][s])
    /\ \A i \in DOMAIN queue[p] : queue[p][i].kind = "write" =>
         queue[p][i].marks \subseteq Under(lastSet[p][queue[p][i].scope])

ErrorsReported == \A p \in Process : loadError[p] # {} => reported[p]

\* The value v of path x in file s will be written.
StillQueued(p, s, x, v) ==
  \E i \in DOMAIN queue[p] :
    /\ queue[p][i].kind = "write" /\ queue[p][i].scope = s
    /\ x \in queue[p][i].marks /\ queue[p][i].values[x] = v

SetIsQueued ==
  /\ 0 \in written
  /\ \A p \in Process : phase[p] # "down" /\ ~reported[p] =>
       \A s \in Scopes, x \in Path :
         lastSet[p][s][x] \in written \/ StillQueued(p, s, x, lastSet[p][s][x])

IInv ==
  /\ Typed /\ LocksHeld /\ BusyWrites /\ ExistingStay /\ ReadIsFile
  /\ ErrorsReported /\ SetIsQueued

USE DEF writeVars

-----------------------------------------------------------------------------
(* The queue.                                                               *)

LEMMA FirstJob ==
  ASSUME NEW q \in Seq(Jobs), q # <<>>
  PROVE  /\ Head(q) = q[1] /\ 1 \in DOMAIN q /\ Head(q) \in Jobs
         /\ Tail(q) \in Seq(Jobs)
         /\ \A i \in DOMAIN Tail(q) : i + 1 \in DOMAIN q /\ Tail(q)[i] = q[i + 1]
         /\ \A i \in DOMAIN q : i = 1 \/ (i - 1 \in DOMAIN Tail(q) /\ Tail(q)[i - 1] = q[i])
<1>1. Len(q) \in Nat \ {0} /\ DOMAIN q = 1..Len(q)
  OBVIOUS
<1>2. DOMAIN Tail(q) = 1..(Len(q) - 1) /\ Tail(q) \in Seq(Jobs)
  BY <1>1
<1>3. \A i \in 1..(Len(q) - 1) : Tail(q)[i] = q[i + 1]
  BY <1>1
<1> QED
  BY <1>1, <1>2, <1>3

LEMMA NewJob ==
  ASSUME NEW q \in Seq(Jobs), NEW j \in Jobs
  PROVE  /\ Append(q, j) \in Seq(Jobs) /\ Append(q, j) # <<>>
         /\ DOMAIN Append(q, j) = DOMAIN q \cup {Len(q) + 1}
         /\ Append(q, j)[Len(q) + 1] = j
         /\ \A i \in DOMAIN q : Append(q, j)[i] = q[i]
         /\ q # <<>> => Head(Append(q, j)) = Head(q)
OBVIOUS

LEMMA WriteJob ==
  ASSUME Typed, NEW p \in Process, queue[p] # <<>>, Job(p).kind = "write"
  PROVE  /\ Job(p) = queue[p][1] /\ 1 \in DOMAIN queue[p]
         /\ Job(p).scope \in Scopes /\ Job(p).marks \subseteq Path /\ Job(p).values \in [Path -> Value]
BY FirstJob DEF Typed, Job, Jobs

LEMMA Busy ==
  ASSUME IInv, NEW p \in Process, phase[p] \in {"merged", "locked"}
  PROVE  /\ queue[p] # <<>> /\ Job(p) = queue[p][1] /\ 1 \in DOMAIN queue[p]
         /\ Job(p).scope \in Scopes /\ Job(p).marks \subseteq Path /\ Job(p).values \in [Path -> Value]
BY WriteJob DEF IInv, BusyWrites

-----------------------------------------------------------------------------
(* Files, and what is loaded of them.                                       *)

LEMMA Files ==
  /\ Empty \in [Path -> Value] /\ Broken \in File /\ Broken.state = "broken"
  /\ \A v \in [Path -> Value] : Ok(v) \in File /\ Ok(v).state = "ok" /\ Ok(v).values = v
  /\ \A f \in File : f.values \in [Path -> Value] /\ f.state \in {"ok", "missing", "broken"}
BY SettingsAssumption DEF Empty, Broken, File, Ok, Value

LEMMA Loads ==
  ASSUME IInv, NEW p \in Process, NEW scopes \in SUBSET Scopes,
         NEW kept \in [Scopes -> [Path -> Value]], Load(p, scopes, kept)
  PROVE  /\ memory' \in [Process -> [Scopes -> [Path -> Value]]]
         /\ modified' \in [Process -> [Scopes -> SUBSET Path]]
         /\ loadError' \in [Process -> SUBSET Scopes] /\ reported' \in [Process -> BOOLEAN]
         /\ ErrorsReported'
         /\ \A q \in Process : reported[q] => reported'[q]
         /\ \A q \in Process, s \in Scopes : modified'[q][s] \subseteq modified[q][s]
<1>1. Fails(p) \subseteq Scopes
  BY DEF Fails
<1>2. \A s \in Scopes : Loaded(p, s, kept[s]) \in [Path -> Value]
  BY Files DEF IInv, Typed, SettingsTypeOK, Loaded
<1>3. memory' \in [Process -> [Scopes -> [Path -> Value]]]
  BY <1>2 DEF IInv, Typed, SettingsTypeOK, Load
<1>4. loadError' \in [Process -> SUBSET Scopes] /\ reported' \in [Process -> BOOLEAN]
  BY <1>1 DEF IInv, Typed, SettingsTypeOK, Load
<1>5. modified' \in [Process -> [Scopes -> SUBSET Path]]
  BY DEF IInv, Typed, SettingsTypeOK, Load
<1>6. ErrorsReported'
  <2> SUFFICES ASSUME NEW q \in Process, loadError'[q] # {} PROVE reported'[q]
    BY DEF ErrorsReported
  <2>1. CASE q = p
    <3>1. loadError'[p] = (loadError[p] \ scopes) \cup (Fails(p) \cap scopes)
      BY DEF IInv, Typed, SettingsTypeOK, Load
    <3>2. reported'[p] = (reported[p] \/ (Fails(p) \cap scopes # {}))
      BY DEF IInv, Typed, SettingsTypeOK, Load
    <3>3. loadError[p] # {} => reported[p]
      BY DEF IInv, ErrorsReported
    <3> QED
      BY <2>1, <3>1, <3>2, <3>3
  <2>2. CASE q # p
    BY <2>2 DEF IInv, Typed, SettingsTypeOK, ErrorsReported, Load
  <2> QED
    BY <2>1, <2>2
<1>7. \A q \in Process : reported[q] => reported'[q]
  BY DEF IInv, Typed, SettingsTypeOK, Load
<1>8. \A q \in Process, s \in Scopes : modified'[q][s] \subseteq modified[q][s]
  BY DEF IInv, Typed, SettingsTypeOK, Load
<1> QED
  BY <1>3, <1>4, <1>5, <1>6, <1>7, <1>8

-----------------------------------------------------------------------------
(* Every step keeps the invariant.                                          *)

\* A step that takes nothing of what p has set out of its queue, or after which p has
\* recorded an error or is down.
KeepsQueue(p) ==
  phase'[p] # "down" /\ ~reported'[p] =>
    /\ phase[p] # "down" /\ ~reported[p] /\ lastSet'[p] = lastSet[p]
    /\ \A i \in DOMAIN queue[p] : queue[p][i].kind = "write" =>
         \E j \in DOMAIN queue'[p] : queue'[p][j] = queue[p][i]

LEMMA StaysQueued ==
  ASSUME IInv, written \subseteq written', NEW p \in Process, KeepsQueue(p), phase'[p] # "down", ~reported'[p],
         NEW s \in Scopes, NEW x \in Path
  PROVE  lastSet'[p][s][x] \in written' \/ StillQueued(p, s, x, lastSet[p][s][x])'
BY DEF IInv, SetIsQueued, KeepsQueue, StillQueued

LEMMA AllStayQueued ==
  ASSUME IInv, written \subseteq written', \A p \in Process : KeepsQueue(p)
  PROVE  SetIsQueued'
BY StaysQueued DEF IInv, SetIsQueued

LEMMA SetKeeps ==
  ASSUME IInv, NEW p \in Process, NEW s \in Scopes, NEW x \in Path, Set(p, s, x)
  PROVE  IInv'
<1>1. SettingsTypeOK'
  <2>1. edits' \in 0..MaxEdits /\ edits' \in Value
    BY SettingsAssumption DEF IInv, Typed, SettingsTypeOK, Value, Set
  <2>2. memory' \in [Process -> [Scopes -> [Path -> Value]]]
    BY <2>1 DEF IInv, Typed, SettingsTypeOK, Set
  <2>3. lastSet' \in [Process -> [Scopes -> [Path -> Value]]]
    BY <2>1 DEF IInv, Typed, SettingsTypeOK, Set
  <2>4. modified' \in [Process -> [Scopes -> SUBSET Path]]
    BY DEF IInv, Typed, SettingsTypeOK, Set, Marks
  <2> QED
    BY <2>1, <2>2, <2>3, <2>4 DEF IInv, Typed, SettingsTypeOK, Set
<1>2. queue' \in [Process -> Seq(Jobs)]
  <2>1. modified'[p][s] \in SUBSET Path /\ memory'[p][s] \in [Path -> Value]
    BY <1>1 DEF SettingsTypeOK
  <2>2. Task(s, modified'[p][s], memory'[p][s]) \in Jobs
    BY <2>1 DEF Task, Jobs
  <2> QED
    BY <2>2 DEF IInv, Typed, Set
<1>3. LocksHeld'
  BY SettingsAssumption, FirstJob, NewJob DEF IInv, Typed, SettingsTypeOK, LocksHeld, Job, BusyWrites, Set, Marks, Task
<1>4. BusyWrites'
  BY SettingsAssumption, FirstJob, NewJob DEF IInv, Typed, SettingsTypeOK, BusyWrites, Job, Set, Marks, Task
<1>5. ExistingStay'
  BY SettingsAssumption, FirstJob, NewJob DEF IInv, Typed, SettingsTypeOK, ExistingStay, Job, LocksHeld, BusyWrites, Set, Marks, Task
<1>6. ReadIsFile'
  BY SettingsAssumption, FirstJob, NewJob DEF IInv, Typed, SettingsTypeOK, ReadIsFile, Job, LocksHeld, BusyWrites, ExistingStay, Set, Marks, Task
<1>7. ErrorsReported'
  BY SettingsAssumption, FirstJob, NewJob DEF IInv, Typed, SettingsTypeOK, ErrorsReported, Job, Set, Marks, Task
<1>8. SetIsQueued'
  <2> DEFINE job == Task(s, modified'[p][s], memory'[p][s])
  <2>1. 0 \in written'
    BY DEF IInv, SetIsQueued, Set
  <2>2. ASSUME NEW q \in Process, phase'[q] # "down", ~reported'[q], NEW t \in Scopes, NEW y \in Path
        PROVE  lastSet'[q][t][y] \in written' \/ StillQueued(q, t, y, lastSet[q][t][y])'
    <3>1. lastSet[q][t][y] \in written \/ StillQueued(q, t, y, lastSet[q][t][y])
      BY <2>2 DEF IInv, SetIsQueued, Set
    <3>2. CASE q # p
      <4>1. lastSet'[q] = lastSet[q] /\ queue'[q] = queue[q] /\ written' = written
        BY <3>2 DEF IInv, Typed, SettingsTypeOK, Set
      <4> QED
        BY <3>1, <4>1 DEF StillQueued
    <3>3. CASE q = p
      <4>1. s \notin loadError[p]
        BY <2>2, <3>3 DEF IInv, ErrorsReported, Set
      <4>2. queue'[p] = Append(queue[p], job)
        BY <4>1 DEF IInv, Typed, Set
      <4>3. job \in Jobs /\ queue[p] \in Seq(Jobs)
        <5>1. modified'[p][s] \in SUBSET Path /\ memory'[p][s] \in [Path -> Value]
          BY <1>1 DEF SettingsTypeOK
        <5> QED
          BY <5>1 DEF Task, Jobs, IInv, Typed
      <4>4. /\ Len(queue[p]) + 1 \in DOMAIN queue'[p] /\ queue'[p][Len(queue[p]) + 1] = job
            /\ \A i \in DOMAIN queue[p] : i \in DOMAIN queue'[p] /\ queue'[p][i] = queue[p][i]
        BY <4>2, <4>3, NewJob
      <4>5. CASE t = s /\ y = x
        <5>1. lastSet'[p][s][x] = edits' /\ memory'[p][s][x] = edits'
          BY DEF IInv, Typed, SettingsTypeOK, Set
        <5>2. x \in modified'[p][s]
          BY DEF IInv, Typed, SettingsTypeOK, Set, Marks
        <5>3. job.kind = "write" /\ job.scope = s /\ job.marks = modified'[p][s] /\ job.values = memory'[p][s]
          BY DEF Task
        <5> QED
          BY <3>3, <4>4, <4>5, <5>1, <5>2, <5>3 DEF StillQueued
      <4>6. CASE ~(t = s /\ y = x)
        <5>1. lastSet'[p][t][y] = lastSet[p][t][y] /\ written' = written
          BY <4>6 DEF IInv, Typed, SettingsTypeOK, Set
        <5> QED
          BY <3>1, <3>3, <4>4, <5>1 DEF StillQueued
      <4> QED
        BY <4>5, <4>6
    <3> QED
      BY <3>2, <3>3
  <2> QED
    BY <2>1, <2>2 DEF SetIsQueued
<1> QED
  BY <1>1, <1>2, <1>3, <1>4, <1>5, <1>6, <1>7, <1>8 DEF IInv, Typed

LEMMA BeginKeeps ==
  ASSUME IInv, NEW p \in Process, Begin(p)
  PROVE  IInv'
<1>1. SettingsTypeOK'
  <2>1. Job(p).scope \in Scopes
    BY WriteJob DEF IInv, Begin, Writes
  <2>2. read' \in [Process -> [Path -> Value]]
    BY <2>1, Files DEF IInv, Typed, SettingsTypeOK, Begin
  <2>3. phase' \in [Process -> {"idle", "merged", "locked", "down"}]
    BY DEF IInv, Typed, SettingsTypeOK, Begin
  <2>4. lock' \in [Scopes -> Process \cup {"free", "dead"}]
    <3>1. lock' = lock \/ lock' = [lock EXCEPT ![Job(p).scope] = p]
      BY DEF Begin
    <3> QED
      BY <3>1 DEF IInv, Typed, SettingsTypeOK
  <2> QED
    BY <2>2, <2>3, <2>4 DEF IInv, Typed, SettingsTypeOK, Begin, managerVars, boundVars, historyVars
<1>2. queue' \in [Process -> Seq(Jobs)]
  BY SettingsAssumption, FirstJob, NewJob DEF IInv, Typed, SettingsTypeOK, BusyWrites, Jobs, Value, Begin, Writes, Parses, MayWrite, managerVars, boundVars, historyVars
<1>3. LocksHeld'
  BY SettingsAssumption, FirstJob, NewJob DEF IInv, Typed, SettingsTypeOK, LocksHeld, Job, BusyWrites, Begin, Writes, Parses, MayWrite, managerVars, boundVars, historyVars
<1>4. BusyWrites'
  BY SettingsAssumption, FirstJob, NewJob DEF IInv, Typed, SettingsTypeOK, BusyWrites, Job, Begin, Writes, Parses, MayWrite, managerVars, boundVars, historyVars
<1>5. ExistingStay'
  <2>1. phase'[p] = "merged" => file[Job(p).scope].state = "missing"
    BY DEF IInv, Typed, SettingsTypeOK, Begin
  <2>2. \A q \in Process : q # p => phase'[q] = phase[q]
    BY DEF IInv, Typed, SettingsTypeOK, Begin
  <2> QED
    BY <2>1, <2>2 DEF IInv, ExistingStay, Job, Begin, managerVars
<1>6. ReadIsFile'
  BY SettingsAssumption, FirstJob, NewJob DEF IInv, Typed, SettingsTypeOK, ReadIsFile, Job, LocksHeld, BusyWrites, ExistingStay, Begin, Writes, Parses, MayWrite, managerVars, boundVars, historyVars
<1>7. ErrorsReported'
  BY SettingsAssumption, FirstJob, NewJob DEF IInv, Typed, SettingsTypeOK, ErrorsReported, Job, Begin, Writes, Parses, MayWrite, managerVars, boundVars, historyVars
<1>8. SetIsQueued'
  <2>1. \A q \in Process : KeepsQueue(q)
    <3>1. \A q \in Process : phase'[q] # "down" => phase[q] # "down"
      BY DEF IInv, Typed, SettingsTypeOK, Begin, Writes
    <3> QED
      BY <3>1 DEF KeepsQueue, Begin, historyVars, managerVars
  <2>2. written \subseteq written'
    BY DEF Begin, historyVars
  <2> QED
    BY <2>1, <2>2, AllStayQueued
<1> QED
  BY <1>1, <1>2, <1>3, <1>4, <1>5, <1>6, <1>7, <1>8 DEF IInv, Typed

LEMMA LockLateKeeps ==
  ASSUME IInv, NEW p \in Process, LockLate(p)
  PROVE  IInv'
<1>1. SettingsTypeOK'
  BY SettingsAssumption DEF IInv, Typed, SettingsTypeOK, File, Value, Empty, LockLate, managerVars, boundVars, historyVars
<1>2. queue' \in [Process -> Seq(Jobs)]
  BY SettingsAssumption, FirstJob, NewJob DEF IInv, Typed, SettingsTypeOK, BusyWrites, Jobs, Value, LockLate, managerVars, boundVars, historyVars
<1>3. LocksHeld'
  BY SettingsAssumption, FirstJob, NewJob DEF IInv, Typed, SettingsTypeOK, LocksHeld, Job, BusyWrites, LockLate, managerVars, boundVars, historyVars
<1>4. BusyWrites'
  BY SettingsAssumption, FirstJob, NewJob DEF IInv, Typed, SettingsTypeOK, BusyWrites, Job, LockLate, managerVars, boundVars, historyVars
<1>5. ExistingStay'
  BY SettingsAssumption, FirstJob, NewJob DEF IInv, Typed, SettingsTypeOK, ExistingStay, Job, LocksHeld, BusyWrites, LockLate, managerVars, boundVars, historyVars
<1>6. ReadIsFile'
  BY SettingsAssumption, FirstJob, NewJob DEF IInv, Typed, SettingsTypeOK, ReadIsFile, Job, LocksHeld, BusyWrites, ExistingStay, LockLate, managerVars, boundVars, historyVars
<1>7. ErrorsReported'
  BY SettingsAssumption, FirstJob, NewJob DEF IInv, Typed, SettingsTypeOK, ErrorsReported, Job, LockLate, managerVars, boundVars, historyVars
<1>8. SetIsQueued'
  <2>1. \A q \in Process : KeepsQueue(q)
    BY DEF IInv, Typed, SettingsTypeOK, KeepsQueue, LockLate, historyVars, managerVars
  <2>2. written \subseteq written'
    BY DEF LockLate, historyVars
  <2> QED
    BY <2>1, <2>2, AllStayQueued
<1> QED
  BY <1>1, <1>2, <1>3, <1>4, <1>5, <1>6, <1>7, <1>8 DEF IInv, Typed

LEMMA WriteKeeps ==
  ASSUME IInv, NEW p \in Process, Write(p)
  PROVE  IInv'
<1>1. SettingsTypeOK'
  <2> DEFINE s == Job(p).scope
             merged == [x \in Path |-> IF x \in MarksOf(p) THEN Job(p).values[x] ELSE read[p][x]]
  <2>1. s \in Scopes /\ merged \in [Path -> Value]
    BY Busy DEF IInv, Typed, SettingsTypeOK, Write
  <2>2. file' = [file EXCEPT ![s] = Ok(merged)] /\ written' = written \cup {merged[x] : x \in Path}
    BY DEF Write
  <2>3. file' \in [Scopes -> File]
    BY <2>1, <2>2, Files DEF IInv, Typed, SettingsTypeOK
  <2>4. written' \subseteq Value
    BY <2>1, <2>2 DEF IInv, Typed, SettingsTypeOK
  <2>5. lock' \in [Scopes -> Process \cup {"free", "dead"}]
    BY <2>1 DEF IInv, Typed, SettingsTypeOK, Write
  <2>6. modified' \in [Process -> [Scopes -> SUBSET Path]]
    BY <2>1 DEF IInv, Typed, SettingsTypeOK, Write
  <2>7. phase' \in [Process -> {"idle", "merged", "locked", "down"}] /\ read' \in [Process -> [Path -> Value]]
    BY Files DEF IInv, Typed, SettingsTypeOK, Write, Over
  <2>8. missed' \in [Process -> SUBSET Path]
    BY DEF IInv, Typed, SettingsTypeOK, Write, Over
  <2> QED
    BY <2>3, <2>4, <2>5, <2>6, <2>7, <2>8 DEF IInv, Typed, SettingsTypeOK, Write, boundVars
<1>2. queue' \in [Process -> Seq(Jobs)]
  BY SettingsAssumption, FirstJob, NewJob DEF IInv, Typed, SettingsTypeOK, BusyWrites, Jobs, Value, Write, Ok, MarksOf, Over, boundVars
<1>3. LocksHeld'
  <2>1. \A t \in Scopes : lock[t] = p <=> Job(p).scope = t
    BY DEF IInv, LocksHeld, Write
  <2>2. phase'[p] = "idle" /\ \A q \in Process : q # p => phase'[q] = phase[q] /\ queue'[q] = queue[q]
    BY DEF IInv, Typed, SettingsTypeOK, Write, Over
  <2>3. \A t \in Scopes : IF t = Job(p).scope THEN lock'[t] = "free" ELSE lock'[t] = lock[t]
    BY DEF IInv, Typed, SettingsTypeOK, Write
  <2>4. ASSUME NEW q \in Process, NEW t \in Scopes
        PROVE  lock'[t] = q <=> phase'[q] = "locked" /\ Job(q)'.scope = t
    <3>1. lock[t] = q <=> phase[q] = "locked" /\ Job(q).scope = t
      BY DEF IInv, LocksHeld
    <3>2. q # "free"
      BY SettingsAssumption
    <3> QED
      BY <2>1, <2>2, <2>3, <3>1, <3>2 DEF Job
  <2> QED
    BY <2>4 DEF LocksHeld
<1>4. BusyWrites'
  BY SettingsAssumption, FirstJob, NewJob DEF IInv, Typed, SettingsTypeOK, BusyWrites, Job, Write, Ok, MarksOf, Over, boundVars
<1>5. ExistingStay'
  BY SettingsAssumption, FirstJob, NewJob DEF IInv, Typed, SettingsTypeOK, ExistingStay, Job, LocksHeld, BusyWrites, Write, Ok, MarksOf, Over, boundVars
<1>6. ReadIsFile'
  <2>1. phase'[p] = "idle" /\ \A q \in Process : q # p => phase'[q] = phase[q] /\ queue'[q] = queue[q] /\ read'[q] = read[q] /\ missed'[q] = missed[q]
    BY DEF IInv, Typed, SettingsTypeOK, Write, Over
  <2>2. \A t \in Scopes : t # Job(p).scope => file'[t] = file[t]
    BY DEF IInv, Typed, SettingsTypeOK, Write
  <2>3. ASSUME NEW q \in Process, q # p, phase[q] = "locked"
        PROVE  Job(q).scope # Job(p).scope /\ Job(q).scope \in Scopes
    BY <2>3, Busy DEF IInv, LocksHeld, Write
  <2>4. ASSUME NEW q \in Process, phase'[q] = "locked", Job(q)'.scope \in Existing,
               NEW x \in Path \ missed'[q]
        PROVE  read'[q][x] = file'[Job(q)'.scope].values[x]
    <3>1. q # p /\ phase[q] = "locked" /\ Job(q)' = Job(q)
      BY <2>1, <2>4 DEF Job
    <3> QED
      BY <2>1, <2>2, <2>3, <2>4, <3>1 DEF IInv, ReadIsFile
  <2> QED
    BY <2>4 DEF ReadIsFile
<1>7. ErrorsReported'
  BY SettingsAssumption, FirstJob, NewJob DEF IInv, Typed, SettingsTypeOK, ErrorsReported, Job, Write, Ok, MarksOf, Over, boundVars
<1>8. SetIsQueued'
  <2> DEFINE merged == [x \in Path |-> IF x \in MarksOf(p) THEN Job(p).values[x] ELSE read[p][x]]
  <2>1. written' = written \cup {merged[x] : x \in Path} /\ reported' = reported /\ lastSet' = lastSet
    BY DEF Write
  <2>2. \A q \in Process : q # p => phase'[q] = phase[q] /\ queue'[q] = queue[q]
    BY DEF IInv, Typed, SettingsTypeOK, Write, Over
  <2>3. phase[p] = "locked" /\ queue[p] # <<>> /\ queue[p] \in Seq(Jobs) /\ queue'[p] = Tail(queue[p])
    BY Busy DEF IInv, Typed, Write, Over
  <2>4. ASSUME NEW q \in Process, phase'[q] # "down", ~reported'[q], NEW t \in Scopes, NEW y \in Path
        PROVE  lastSet'[q][t][y] \in written' \/ StillQueued(q, t, y, lastSet[q][t][y])'
    <3>1. CASE q # p
      BY <2>1, <2>2, <2>4, <3>1 DEF IInv, SetIsQueued, StillQueued
    <3>2. CASE q = p
      <4> DEFINE v == lastSet[p][t][y]
      <4>1. v \in written \/ StillQueued(p, t, y, v)
        BY <2>1, <2>3, <2>4, <3>2 DEF IInv, SetIsQueued
      <4>2. CASE v \in written
        BY <2>1, <3>2, <4>2
      <4>3. ASSUME NEW i \in DOMAIN queue[p], queue[p][i].kind = "write", queue[p][i].scope = t,
                   y \in queue[p][i].marks, queue[p][i].values[y] = v
            PROVE  v \in written' \/ StillQueued(p, t, y, v)'
        <5>1. CASE i = 1
          <6>1. queue[p][i] = Job(p)
            BY <2>3, <5>1, Busy
          <6>2. merged[y] = v
            BY <4>3, <6>1 DEF MarksOf
          <6> QED
            BY <2>1, <6>2
        <5>2. CASE i # 1
          <6>1. i - 1 \in DOMAIN queue'[p] /\ queue'[p][i - 1] = queue[p][i]
            BY <2>3, <5>2, FirstJob
          <6>2. v' = v
            BY <2>1
          <6> HIDE DEF v
          <6> QED
            BY <4>3, <6>1, <6>2 DEF StillQueued
        <5> QED
          BY <5>1, <5>2
      <4> QED
        BY <2>1, <3>2, <4>1, <4>2, <4>3 DEF StillQueued
    <3> QED
      BY <3>1, <3>2
  <2>5. 0 \in written'
    BY <2>1 DEF IInv, SetIsQueued
  <2> QED
    BY <2>4, <2>5 DEF SetIsQueued
<1> QED
  BY <1>1, <1>2, <1>3, <1>4, <1>5, <1>6, <1>7, <1>8 DEF IInv, Typed

LEMMA RefuseKeeps ==
  ASSUME IInv, NEW p \in Process, Refuse(p)
  PROVE  IInv'
<1>1. SettingsTypeOK'
  BY SettingsAssumption DEF IInv, Typed, SettingsTypeOK, File, Value, Empty, Refuse, Writes, Over, boundVars
<1>2. queue' \in [Process -> Seq(Jobs)]
  BY SettingsAssumption, FirstJob, NewJob DEF IInv, Typed, SettingsTypeOK, BusyWrites, Jobs, Value, Refuse, Writes, Over, boundVars
<1>3. LocksHeld'
  BY SettingsAssumption, FirstJob, NewJob DEF IInv, Typed, SettingsTypeOK, LocksHeld, Job, BusyWrites, Refuse, Writes, Over, boundVars
<1>4. BusyWrites'
  BY SettingsAssumption, FirstJob, NewJob DEF IInv, Typed, SettingsTypeOK, BusyWrites, Job, Refuse, Writes, Over, boundVars
<1>5. ExistingStay'
  BY SettingsAssumption, FirstJob, NewJob DEF IInv, Typed, SettingsTypeOK, ExistingStay, Job, LocksHeld, BusyWrites, Refuse, Writes, Over, boundVars
<1>6. ReadIsFile'
  BY SettingsAssumption, FirstJob, NewJob DEF IInv, Typed, SettingsTypeOK, ReadIsFile, Job, LocksHeld, BusyWrites, ExistingStay, Refuse, Writes, Over, boundVars
<1>7. ErrorsReported'
  BY SettingsAssumption, FirstJob, NewJob DEF IInv, Typed, SettingsTypeOK, ErrorsReported, Job, Refuse, Writes, Over, boundVars
<1>8. SetIsQueued'
  BY SettingsAssumption, FirstJob, NewJob DEF IInv, Typed, SettingsTypeOK, SetIsQueued, Job, StillQueued, ErrorsReported, BusyWrites, Refuse, Writes, Over, boundVars
<1> QED
  BY <1>1, <1>2, <1>3, <1>4, <1>5, <1>6, <1>7, <1>8 DEF IInv, Typed

LEMMA ReloadKeeps ==
  ASSUME IInv, NEW p \in Process, Reload(p)
  PROVE  IInv'
<1>1. SettingsTypeOK'
  BY SettingsAssumption DEF IInv, Typed, SettingsTypeOK, File, Value, Empty, Reload, historyVars
<1>2. queue' \in [Process -> Seq(Jobs)]
  BY SettingsAssumption, FirstJob, NewJob DEF IInv, Typed, SettingsTypeOK, BusyWrites, Jobs, Value, Reload, historyVars
<1>3. LocksHeld'
  BY SettingsAssumption, FirstJob, NewJob DEF IInv, Typed, SettingsTypeOK, LocksHeld, Job, BusyWrites, Reload, historyVars
<1>4. BusyWrites'
  BY SettingsAssumption, FirstJob, NewJob DEF IInv, Typed, SettingsTypeOK, BusyWrites, Job, Reload, historyVars
<1>5. ExistingStay'
  BY SettingsAssumption, FirstJob, NewJob DEF IInv, Typed, SettingsTypeOK, ExistingStay, Job, LocksHeld, BusyWrites, Reload, historyVars
<1>6. ReadIsFile'
  BY SettingsAssumption, FirstJob, NewJob DEF IInv, Typed, SettingsTypeOK, ReadIsFile, Job, LocksHeld, BusyWrites, ExistingStay, Reload, historyVars
<1>7. ErrorsReported'
  BY SettingsAssumption, FirstJob, NewJob DEF IInv, Typed, SettingsTypeOK, ErrorsReported, Job, Reload, historyVars
<1>8. SetIsQueued'
  <2>1. [kind |-> "reload"] \in Jobs
    BY DEF Jobs
  <2>2. \A q \in Process : queue'[q] = IF q = p THEN Append(queue[p], [kind |-> "reload"]) ELSE queue[q]
    BY DEF IInv, Typed, Reload
  <2>3. \A q \in Process : \A i \in DOMAIN queue[q] : i \in DOMAIN queue'[q] /\ queue'[q][i] = queue[q][i]
    <3>1. queue[p] \in Seq(Jobs)
      BY DEF IInv, Typed
    <3>2. \A i \in DOMAIN queue[p] :
            /\ i \in DOMAIN Append(queue[p], [kind |-> "reload"])
            /\ Append(queue[p], [kind |-> "reload"])[i] = queue[p][i]
      BY <2>1, <3>1, NewJob
    <3> QED
      BY <2>2, <3>2
  <2>4. \A q \in Process : KeepsQueue(q)
    BY <2>3 DEF KeepsQueue, Reload, historyVars
  <2> QED
    BY <2>4, AllStayQueued DEF Reload, historyVars
<1> QED
  BY <1>1, <1>2, <1>3, <1>4, <1>5, <1>6, <1>7, <1>8 DEF IInv, Typed

LEMMA ReloadsKeeps ==
  ASSUME IInv, NEW p \in Process, Reloads(p)
  PROVE  IInv'
<1>0. /\ memory' \in [Process -> [Scopes -> [Path -> Value]]]
      /\ modified' \in [Process -> [Scopes -> SUBSET Path]]
      /\ loadError' \in [Process -> SUBSET Scopes] /\ reported' \in [Process -> BOOLEAN]
      /\ ErrorsReported' /\ \A q \in Process : reported[q] => reported'[q]
  <2>1. memory[p] \in [Scopes -> [Path -> Value]]
    BY DEF IInv, Typed, SettingsTypeOK
  <2> QED
    BY <2>1, Loads DEF Reloads
<1>1. SettingsTypeOK'
  <2>1. read' \in [Process -> [Path -> Value]] /\ phase' \in [Process -> {"idle", "merged", "locked", "down"}]
    BY Files DEF IInv, Typed, SettingsTypeOK, Reloads, Over
  <2>2. missed' \in [Process -> SUBSET Path]
    BY DEF IInv, Typed, SettingsTypeOK, Reloads, Over
  <2> QED
    BY <1>0, <2>1, <2>2 DEF IInv, Typed, SettingsTypeOK, Reloads, boundVars
<1>2. queue' \in [Process -> Seq(Jobs)]
  BY SettingsAssumption, FirstJob, NewJob DEF IInv, Typed, SettingsTypeOK, BusyWrites, Jobs, Value, Reloads, Over, Load, boundVars
<1>3. LocksHeld'
  BY SettingsAssumption, FirstJob, NewJob DEF IInv, Typed, SettingsTypeOK, LocksHeld, Job, BusyWrites, Reloads, Over, Load, boundVars
<1>4. BusyWrites'
  BY SettingsAssumption, FirstJob, NewJob DEF IInv, Typed, SettingsTypeOK, BusyWrites, Job, Reloads, Over, Load, boundVars
<1>5. ExistingStay'
  BY SettingsAssumption, FirstJob, NewJob DEF IInv, Typed, SettingsTypeOK, ExistingStay, Job, LocksHeld, BusyWrites, Reloads, Over, Load, boundVars
<1>6. ReadIsFile'
  BY SettingsAssumption, FirstJob, NewJob DEF IInv, Typed, SettingsTypeOK, ReadIsFile, Job, LocksHeld, BusyWrites, ExistingStay, Reloads, Over, Load, boundVars
<1>7. ErrorsReported'
  BY <1>0
<1>8. SetIsQueued'
  <2>1. queue[p] # <<>> /\ queue[p] \in Seq(Jobs) /\ Head(queue[p]).kind = "reload"
    BY DEF IInv, Typed, Reloads, Job
  <2>2. \A q \in Process : queue'[q] = IF q = p THEN Tail(queue[p]) ELSE queue[q]
    BY DEF IInv, Typed, Reloads, Over
  <2>3. \A q \in Process : \A i \in DOMAIN queue[q] : queue[q][i].kind = "write" =>
          \E j \in DOMAIN queue'[q] : queue'[q][j] = queue[q][i]
    <3>1. \A i \in DOMAIN queue[p] : queue[p][i].kind = "write" =>
            \E j \in DOMAIN Tail(queue[p]) : Tail(queue[p])[j] = queue[p][i]
      BY <2>1, FirstJob
    <3> QED
      BY <2>2, <3>1
  <2>4. \A q \in Process : phase'[q] # "down" => phase[q] # "down"
    BY DEF IInv, Typed, SettingsTypeOK, Reloads, Over
  <2>5. \A q \in Process : KeepsQueue(q)
    BY <1>0, <2>3, <2>4 DEF KeepsQueue, Reloads
  <2> QED
    BY <2>5, AllStayQueued DEF Reloads
<1> QED
  BY <1>1, <1>2, <1>3, <1>4, <1>5, <1>6, <1>7, <1>8 DEF IInv, Typed

LEMMA SetProjectTrustedKeeps ==
  ASSUME IInv, NEW p \in Process, SetProjectTrusted(p)
  PROVE  IInv'
<1>0. /\ memory' \in [Process -> [Scopes -> [Path -> Value]]]
      /\ modified' \in [Process -> [Scopes -> SUBSET Path]]
      /\ loadError' \in [Process -> SUBSET Scopes] /\ reported' \in [Process -> BOOLEAN]
      /\ ErrorsReported' /\ \A q \in Process : reported[q] => reported'[q]
  <2>1. [s \in Scopes |-> Empty] \in [Scopes -> [Path -> Value]]
    BY Files
  <2> QED
    BY <2>1, Loads DEF SetProjectTrusted
<1>1. SettingsTypeOK'
  BY <1>0 DEF IInv, Typed, SettingsTypeOK, SetProjectTrusted
<1>2. queue' \in [Process -> Seq(Jobs)]
  BY SettingsAssumption, FirstJob, NewJob DEF IInv, Typed, SettingsTypeOK, BusyWrites, Jobs, Value, SetProjectTrusted, Load
<1>3. LocksHeld'
  BY SettingsAssumption, FirstJob, NewJob DEF IInv, Typed, SettingsTypeOK, LocksHeld, Job, BusyWrites, SetProjectTrusted, Load
<1>4. BusyWrites'
  BY SettingsAssumption, FirstJob, NewJob DEF IInv, Typed, SettingsTypeOK, BusyWrites, Job, SetProjectTrusted, Load
<1>5. ExistingStay'
  BY SettingsAssumption, FirstJob, NewJob DEF IInv, Typed, SettingsTypeOK, ExistingStay, Job, LocksHeld, BusyWrites, SetProjectTrusted, Load
<1>6. ReadIsFile'
  BY SettingsAssumption, FirstJob, NewJob DEF IInv, Typed, SettingsTypeOK, ReadIsFile, Job, LocksHeld, BusyWrites, ExistingStay, SetProjectTrusted, Load
<1>7. ErrorsReported'
  BY <1>0
<1>8. SetIsQueued'
  <2>1. \A q \in Process : KeepsQueue(q)
    BY <1>0 DEF KeepsQueue, SetProjectTrusted
  <2> QED
    BY <2>1, AllStayQueued DEF SetProjectTrusted
<1> QED
  BY <1>1, <1>2, <1>3, <1>4, <1>5, <1>6, <1>7, <1>8 DEF IInv, Typed

LEMMA CrashKeeps ==
  ASSUME IInv, NEW p \in Process, Crash(p)
  PROVE  IInv'
<1>1. SettingsTypeOK'
  <2>1. file' \in [Scopes -> File]
    <3>1. PICK new : file' = file \/ (new \in File /\ file' = [file EXCEPT ![Job(p).scope] = new])
      <4>1. Broken \in File /\ Ok(Empty) \in File
        BY Files
      <4> QED
        BY <4>1 DEF Crash
    <3> QED
      BY <3>1 DEF IInv, Typed, SettingsTypeOK
  <2>2. read' \in [Process -> [Path -> Value]]
    BY Files DEF IInv, Typed, SettingsTypeOK, Crash
  <2>3. phase' \in [Process -> {"idle", "merged", "locked", "down"}]
    BY DEF IInv, Typed, SettingsTypeOK, Crash
  <2> QED
    BY <2>1, <2>2, <2>3 DEF IInv, Typed, SettingsTypeOK, Crash, historyVars
<1>2. queue' \in [Process -> Seq(Jobs)]
  <2>1. <<>> \in Seq(Jobs)
    OBVIOUS
  <2> QED
    BY <2>1 DEF IInv, Typed, Crash
<1>3. LocksHeld'
  BY SettingsAssumption, FirstJob, NewJob DEF IInv, Typed, SettingsTypeOK, LocksHeld, Job, BusyWrites, Crash, Broken, historyVars
<1>4. BusyWrites'
  BY SettingsAssumption, FirstJob, NewJob DEF IInv, Typed, SettingsTypeOK, BusyWrites, Job, Crash, Broken, historyVars
<1>5. ExistingStay'
  <2>1. \A s \in Scopes : file'[s] = file[s] \/ file'[s].state \in {"broken", "ok"}
    <3>1. PICK new : file' = file \/ (new.state \in {"broken", "ok"} /\ file' = [file EXCEPT ![Job(p).scope] = new])
      <4>1. Broken.state = "broken" /\ Ok(Empty).state = "ok"
        BY Files
      <4> QED
        BY <4>1 DEF Crash
    <3>2. \A s \in Scopes : file'[s] = file[s] \/ file'[s] = new
      BY <3>1 DEF IInv, Typed, SettingsTypeOK
    <3>3. CASE file' = file
      BY <3>3
    <3>4. CASE new.state \in {"broken", "ok"}
      BY <3>2, <3>4
    <3> QED
      BY <3>1, <3>3, <3>4
  <2>2. \A q \in Process : phase'[q] = "merged" => phase[q] = "merged" /\ queue'[q] = queue[q]
    BY DEF IInv, Typed, SettingsTypeOK, Crash
  <2> QED
    BY <2>1, <2>2, SettingsAssumption DEF IInv, ExistingStay, Job
<1>6. ReadIsFile'
  <2>1. phase'[p] = "down" /\ \A q \in Process : q # p => phase'[q] = phase[q] /\ queue'[q] = queue[q] /\ read'[q] = read[q] /\ missed'[q] = missed[q]
    BY DEF IInv, Typed, SettingsTypeOK, Crash
  <2>2. \A t \in Scopes : lock[t] # p => file'[t] = file[t]
    BY Busy DEF IInv, Typed, SettingsTypeOK, LocksHeld, Crash
  <2>3. ASSUME NEW q \in Process, q # p, phase[q] = "locked"
        PROVE  Job(q).scope \in Scopes /\ lock[Job(q).scope] = q
    BY <2>3, Busy DEF IInv, LocksHeld
  <2>4. ASSUME NEW q \in Process, phase'[q] = "locked", Job(q)'.scope \in Existing,
               NEW x \in Path \ missed'[q]
        PROVE  read'[q][x] = file'[Job(q)'.scope].values[x]
    <3>1. q # p /\ phase[q] = "locked" /\ Job(q)' = Job(q)
      BY <2>1, <2>4 DEF Job
    <3> QED
      BY <2>1, <2>2, <2>3, <2>4, <3>1 DEF IInv, ReadIsFile
  <2> QED
    BY <2>4 DEF ReadIsFile
<1>7. ErrorsReported'
  BY SettingsAssumption, FirstJob, NewJob DEF IInv, Typed, SettingsTypeOK, ErrorsReported, Job, Crash, Broken, historyVars
<1>8. SetIsQueued'
  BY SettingsAssumption, FirstJob, NewJob DEF IInv, Typed, SettingsTypeOK, SetIsQueued, Job, StillQueued, ErrorsReported, BusyWrites, Crash, Broken, historyVars
<1> QED
  BY <1>1, <1>2, <1>3, <1>4, <1>5, <1>6, <1>7, <1>8 DEF IInv, Typed

LEMMA CreateKeeps ==
  ASSUME IInv, NEW p \in Process, Create(p)
  PROVE  IInv'
<1>0. Fails(p) \subseteq Scopes /\ \A s \in Scopes : Loaded(p, s, Empty) \in [Path -> Value]
  BY Files DEF IInv, Typed, SettingsTypeOK, Loaded, Fails
<1>1. SettingsTypeOK'
  <2>1. memory' \in [Process -> [Scopes -> [Path -> Value]]] /\ loadError' \in [Process -> SUBSET Scopes]
    BY <1>0 DEF IInv, Typed, SettingsTypeOK, Create
  <2>2. lastSet' \in [Process -> [Scopes -> [Path -> Value]]]
    BY Files DEF IInv, Typed, SettingsTypeOK, Create
  <2>3. modified' \in [Process -> [Scopes -> SUBSET Path]]
    BY DEF IInv, Typed, SettingsTypeOK, Create
  <2>4. /\ trusted' \in [Process -> BOOLEAN] /\ reported' \in [Process -> BOOLEAN]
        /\ phase' \in [Process -> {"idle", "merged", "locked", "down"}]
    BY DEF IInv, Typed, SettingsTypeOK, Create
  <2> QED
    BY <2>1, <2>2, <2>3, <2>4 DEF IInv, Typed, SettingsTypeOK, Create, boundVars
<1>2. queue' \in [Process -> Seq(Jobs)]
  BY SettingsAssumption, FirstJob, NewJob DEF IInv, Typed, SettingsTypeOK, BusyWrites, Jobs, Value, Create, Fails, boundVars
<1>3. LocksHeld'
  BY SettingsAssumption, FirstJob, NewJob DEF IInv, Typed, SettingsTypeOK, LocksHeld, Job, BusyWrites, Create, Fails, boundVars
<1>4. BusyWrites'
  BY SettingsAssumption, FirstJob, NewJob DEF IInv, Typed, SettingsTypeOK, BusyWrites, Job, Create, Fails, boundVars
<1>5. ExistingStay'
  BY SettingsAssumption, FirstJob, NewJob DEF IInv, Typed, SettingsTypeOK, ExistingStay, Job, LocksHeld, BusyWrites, Create, Fails, boundVars
<1>6. ReadIsFile'
  BY SettingsAssumption, FirstJob, NewJob DEF IInv, Typed, SettingsTypeOK, ReadIsFile, Job, LocksHeld, BusyWrites, ExistingStay, Create, Fails, boundVars
<1>7. ErrorsReported'
  <2>1. loadError'[p] = Fails(p) /\ reported'[p] = (Fails(p) # {})
    BY DEF IInv, Typed, SettingsTypeOK, Create
  <2>2. \A q \in Process : q # p => loadError'[q] = loadError[q] /\ reported'[q] = reported[q]
    BY DEF IInv, Typed, SettingsTypeOK, Create
  <2> QED
    BY <2>1, <2>2 DEF IInv, ErrorsReported
<1>8. SetIsQueued'
  <2>1. \A s \in Scopes, x \in Path : lastSet'[p][s][x] = 0
    BY DEF IInv, Typed, SettingsTypeOK, Create, Empty
  <2>2. \A q \in Process : q # p =>
          phase'[q] = phase[q] /\ reported'[q] = reported[q] /\ lastSet'[q] = lastSet[q] /\ queue'[q] = queue[q]
    BY DEF IInv, Typed, SettingsTypeOK, Create
  <2>3. \A q \in Process : q # p => KeepsQueue(q)
    BY <2>2 DEF KeepsQueue
  <2>4. written' = written /\ 0 \in written
    BY DEF IInv, SetIsQueued, Create
  <2> QED
    BY <2>1, <2>3, <2>4, StaysQueued DEF SetIsQueued
<1> QED
  BY <1>1, <1>2, <1>3, <1>4, <1>5, <1>6, <1>7, <1>8 DEF IInv, Typed

LEMMA StaleKeeps ==
  ASSUME IInv, NEW s \in Scopes, StaleLock(s)
  PROVE  IInv'
<1>1. SettingsTypeOK'
  BY SettingsAssumption DEF IInv, Typed, SettingsTypeOK, File, Value, Empty, StaleLock, managerVars, boundVars, historyVars
<1>2. queue' \in [Process -> Seq(Jobs)]
  BY SettingsAssumption, FirstJob, NewJob DEF IInv, Typed, SettingsTypeOK, BusyWrites, Jobs, Value, StaleLock, managerVars, boundVars, historyVars
<1>3. LocksHeld'
  BY SettingsAssumption, FirstJob, NewJob DEF IInv, Typed, SettingsTypeOK, LocksHeld, Job, BusyWrites, StaleLock, managerVars, boundVars, historyVars
<1>4. BusyWrites'
  BY SettingsAssumption, FirstJob, NewJob DEF IInv, Typed, SettingsTypeOK, BusyWrites, Job, StaleLock, managerVars, boundVars, historyVars
<1>5. ExistingStay'
  BY SettingsAssumption, FirstJob, NewJob DEF IInv, Typed, SettingsTypeOK, ExistingStay, Job, LocksHeld, BusyWrites, StaleLock, managerVars, boundVars, historyVars
<1>6. ReadIsFile'
  BY SettingsAssumption, FirstJob, NewJob DEF IInv, Typed, SettingsTypeOK, ReadIsFile, Job, LocksHeld, BusyWrites, ExistingStay, StaleLock, managerVars, boundVars, historyVars
<1>7. ErrorsReported'
  BY SettingsAssumption, FirstJob, NewJob DEF IInv, Typed, SettingsTypeOK, ErrorsReported, Job, StaleLock, managerVars, boundVars, historyVars
<1>8. SetIsQueued'
  <2>1. \A q \in Process : KeepsQueue(q)
    BY DEF IInv, Typed, SettingsTypeOK, KeepsQueue, StaleLock, historyVars, managerVars
  <2>2. written \subseteq written'
    BY DEF StaleLock, historyVars
  <2> QED
    BY <2>1, <2>2, AllStayQueued
<1> QED
  BY <1>1, <1>2, <1>3, <1>4, <1>5, <1>6, <1>7, <1>8 DEF IInv, Typed

LEMMA EditKeeps ==
  ASSUME IInv, NEW s \in Scopes, NEW x \in Path, Edit(s, x)
  PROVE  IInv'
<1>1. SettingsTypeOK'
  <2>1. edits' \in 0..MaxEdits
    BY SettingsAssumption DEF IInv, Typed, SettingsTypeOK, Edit
  <2>2. [file[s].values EXCEPT ![x] = edits'] \in [Path -> Value]
    BY <2>1, Files DEF IInv, Typed, SettingsTypeOK, Value
  <2>3. PICK new \in File : new.state # "missing" /\ file' = [file EXCEPT ![s] = new]
    BY <2>2, Files DEF Edit
  <2>4. file' \in [Scopes -> File]
    BY <2>3 DEF IInv, Typed, SettingsTypeOK
  <2>5. missed' \in [Process -> SUBSET Path]
    BY DEF IInv, Typed, SettingsTypeOK, Edit
  <2> QED
    BY <2>1, <2>4, <2>5 DEF IInv, Typed, SettingsTypeOK, Edit, managerVars, historyVars
<1>2. queue' \in [Process -> Seq(Jobs)]
  BY SettingsAssumption, FirstJob, NewJob DEF IInv, Typed, SettingsTypeOK, BusyWrites, Jobs, Value, Edit, Ok, Broken, managerVars, historyVars
<1>3. LocksHeld'
  BY SettingsAssumption, FirstJob, NewJob DEF IInv, Typed, SettingsTypeOK, LocksHeld, Job, BusyWrites, Edit, Ok, Broken, managerVars, historyVars
<1>4. BusyWrites'
  BY SettingsAssumption, FirstJob, NewJob DEF IInv, Typed, SettingsTypeOK, BusyWrites, Job, Edit, Ok, Broken, managerVars, historyVars
<1>5. ExistingStay'
  <2>1. \A t \in Scopes : file'[t].state # file[t].state => file'[t].state \in {"ok", "broken"}
    <3>1. [file[s].values EXCEPT ![x] = edits'] \in [Path -> Value]
      BY <1>1, Files DEF IInv, Typed, SettingsTypeOK, Value
    <3>2. PICK new \in File : new.state \in {"ok", "broken"} /\ file' = [file EXCEPT ![s] = new]
      BY <3>1, Files DEF Edit
    <3> QED
      BY <3>2 DEF IInv, Typed, SettingsTypeOK
  <2> QED
    BY <2>1, SettingsAssumption DEF IInv, ExistingStay, Job, Edit, managerVars
<1>6. ReadIsFile'
  <2>1. /\ phase' = phase /\ queue' = queue /\ read' = read
        /\ \A t \in Scopes : t # s => file'[t] = file[t]
    BY DEF IInv, Typed, SettingsTypeOK, Edit, managerVars
  <2>2. ASSUME NEW q \in Process, phase[q] = "locked", Job(q).scope \in Existing, NEW y \in Path \ missed'[q]
        PROVE  read[q][y] = file'[Job(q).scope].values[y]
    <3>1. missed[q] \subseteq missed'[q] /\ read[q][y] = file[Job(q).scope].values[y]
      BY <2>2 DEF IInv, Typed, SettingsTypeOK, ReadIsFile, Edit
    <3>2. Job(q).scope \in Scopes
      BY <2>2, SettingsAssumption
    <3>3. CASE Job(q).scope # s
      BY <2>1, <3>1, <3>2, <3>3
    <3>4. CASE Job(q).scope = s
      <4>1. q \in Writing(s)
        BY <2>2, <3>4 DEF Writing
      <4>2. missed'[q] # missed[q] \cup Path
        BY <2>2
      <4>3. y # x /\ file' = [file EXCEPT ![s] = Ok([@.values EXCEPT ![x] = edits'])]
        BY <2>2, <4>1, <4>2 DEF IInv, Typed, SettingsTypeOK, Edit
      <4>4. file'[s] = Ok([file[s].values EXCEPT ![x] = edits']) /\ file[s].values \in [Path -> Value]
        BY <4>3, Files DEF IInv, Typed, SettingsTypeOK
      <4>5. file'[s].values[y] = file[s].values[y]
        BY <4>3, <4>4 DEF Ok
      <4> QED
        BY <3>1, <3>4, <4>5
    <3> QED
      BY <3>3, <3>4
  <2> QED
    BY <2>1, <2>2 DEF ReadIsFile, Job
<1>7. ErrorsReported'
  BY SettingsAssumption, FirstJob, NewJob DEF IInv, Typed, SettingsTypeOK, ErrorsReported, Job, Edit, Ok, Broken, managerVars, historyVars
<1>8. SetIsQueued'
  <2>1. \A q \in Process : KeepsQueue(q)
    BY DEF IInv, Typed, SettingsTypeOK, KeepsQueue, Edit, historyVars, managerVars
  <2>2. written \subseteq written'
    BY DEF Edit, historyVars
  <2> QED
    BY <2>1, <2>2, AllStayQueued
<1> QED
  BY <1>1, <1>2, <1>3, <1>4, <1>5, <1>6, <1>7, <1>8 DEF IInv, Typed

-----------------------------------------------------------------------------
(* What is marked is under a mark of what was set.                          *)

\* A step that neither marks nor queues anything, and forgets nothing that p has set.
MarksNothing(p) ==
  /\ lastSet'[p] = lastSet[p]
  /\ \A s \in Scopes : modified'[p][s] \subseteq modified[p][s]
  /\ \A i \in DOMAIN queue'[p] : queue'[p][i].kind = "write" =>
       \E j \in DOMAIN queue[p] : queue[p][j] = queue'[p][i]

LEMMA FewerMarks ==
  ASSUME IInv, MarksAreSet, \A p \in Process : MarksNothing(p)
  PROVE  MarksAreSet'
BY DEF MarksAreSet, MarksNothing

\* The first job is done.
LEMMA DoneMarksNothing ==
  ASSUME IInv, NEW p \in Process, queue[p] # <<>>, queue' = [queue EXCEPT ![p] = Tail(@)],
         lastSet' = lastSet,
         \A q \in Process, s \in Scopes : modified'[q][s] \subseteq modified[q][s]
  PROVE  \A q \in Process : MarksNothing(q)
<1>1. queue[p] \in Seq(Jobs) /\ \A q \in Process : queue'[q] = IF q = p THEN Tail(queue[p]) ELSE queue[q]
  BY DEF IInv, Typed
<1>2. \A i \in DOMAIN Tail(queue[p]) : \E j \in DOMAIN queue[p] : queue[p][j] = Tail(queue[p])[i]
  BY <1>1, FirstJob
<1> QED
  BY <1>1, <1>2 DEF MarksNothing

LEMMA SetKeepsMarks ==
  ASSUME IInv, MarksAreSet, NEW p \in Process, NEW s \in Scopes, NEW x \in Path, Set(p, s, x)
  PROVE  MarksAreSet'
<1> DEFINE job == Task(s, modified'[p][s], memory'[p][s])
<1>0. IInv'
  BY SetKeeps
<1>1. \A q \in Process, t \in Scopes :
        modified'[q][t] = IF q = p /\ t = s THEN modified[p][s] \cup Marks(x) ELSE modified[q][t]
  BY DEF IInv, Typed, SettingsTypeOK, Set
<1>2. \A q \in Process, t \in Scopes : Under(lastSet[q][t]) \subseteq Under(lastSet'[q][t])
  <2>1. \A q \in Process, t \in Scopes, y \in Path : lastSet[q][t][y] # 0 => lastSet'[q][t][y] # 0
    BY SettingsAssumption DEF IInv, Typed, SettingsTypeOK, Set
  <2> QED
    BY <2>1 DEF Under
<1>3. Marks(x) \subseteq Under(lastSet'[p][s])
  <2>1. lastSet'[p][s][x] # 0
    BY SettingsAssumption DEF IInv, Typed, SettingsTypeOK, Set
  <2> QED
    BY <2>1 DEF Under
<1>5. \A q \in Process, t \in Scopes : modified'[q][t] \subseteq Under(lastSet'[q][t])
  BY <1>1, <1>2, <1>3 DEF MarksAreSet
<1>6. ASSUME NEW q \in Process, NEW i \in DOMAIN queue'[q], queue'[q][i].kind = "write"
      PROVE  queue'[q][i].marks \subseteq Under(lastSet'[q][queue'[q][i].scope])
  <2>1. CASE i \in DOMAIN queue[q] /\ queue'[q][i] = queue[q][i]
    <3>1. queue[q][i] \in Jobs /\ queue[q][i].kind = "write"
      BY <1>6, <2>1 DEF IInv, Typed
    <3>2. queue[q][i].scope \in Scopes
      BY <3>1 DEF Jobs
    <3> QED
      BY <1>2, <2>1, <3>1, <3>2 DEF MarksAreSet
  <2>2. CASE q = p /\ queue'[q][i] = job
    BY <1>5, <1>6, <2>2 DEF Task
  <2>3. queue'[q] = queue[q] \/ (q = p /\ queue'[q] = Append(queue[q], job))
    BY DEF IInv, Typed, Set
  <2>4. CASE q = p /\ queue'[q] = Append(queue[q], job)
    <3>1. job \in Jobs
      <4>1. modified'[p][s] \in SUBSET Path /\ memory'[p][s] \in [Path -> Value]
        BY <1>0 DEF IInv, Typed, SettingsTypeOK
      <4> QED
        BY <4>1 DEF Task, Jobs
    <3>2. queue[q] \in Seq(Jobs)
      BY DEF IInv, Typed
    <3>3. i \in DOMAIN queue[q] \cup {Len(queue[q]) + 1}
      BY <2>4, <3>1, <3>2, NewJob
    <3> HIDE DEF job
    <3> QED
      BY <2>1, <2>2, <2>4, <3>1, <3>2, <3>3, NewJob
  <2> QED
    BY <2>1, <2>3, <2>4
<1> QED
  BY <1>5, <1>6 DEF MarksAreSet

LEMMA BeginKeepsMarks ==
  ASSUME IInv, MarksAreSet, NEW p \in Process, Begin(p)
  PROVE  MarksAreSet'
BY FewerMarks DEF MarksNothing, Begin, managerVars, historyVars

LEMMA LockLateKeepsMarks ==
  ASSUME IInv, MarksAreSet, NEW p \in Process, LockLate(p)
  PROVE  MarksAreSet'
BY FewerMarks DEF MarksNothing, LockLate, managerVars, historyVars

LEMMA StaleKeepsMarks ==
  ASSUME IInv, MarksAreSet, NEW s \in Scopes, StaleLock(s)
  PROVE  MarksAreSet'
BY FewerMarks DEF MarksNothing, StaleLock, managerVars, historyVars

LEMMA EditKeepsMarks ==
  ASSUME IInv, MarksAreSet, NEW s \in Scopes, NEW x \in Path, Edit(s, x)
  PROVE  MarksAreSet'
BY FewerMarks DEF MarksNothing, Edit, managerVars, historyVars

LEMMA WriteKeepsMarks ==
  ASSUME IInv, MarksAreSet, NEW p \in Process, Write(p)
  PROVE  MarksAreSet'
<1>1. queue[p] # <<>>
  BY Busy DEF Write
<1>2. \A q \in Process, s \in Scopes : modified'[q][s] \subseteq modified[q][s]
  BY DEF IInv, Typed, SettingsTypeOK, Write
<1> QED
  BY <1>1, <1>2, DoneMarksNothing, FewerMarks DEF Write, Over

LEMMA RefuseKeepsMarks ==
  ASSUME IInv, MarksAreSet, NEW p \in Process, Refuse(p)
  PROVE  MarksAreSet'
<1>1. queue[p] # <<>>
  BY Busy DEF Refuse, Writes
<1> QED
  BY <1>1, DoneMarksNothing, FewerMarks DEF Refuse, Over

LEMMA ReloadKeepsMarks ==
  ASSUME IInv, MarksAreSet, NEW p \in Process, Reload(p)
  PROVE  MarksAreSet'
<1>1. [kind |-> "reload"] \in Jobs /\ [kind |-> "reload"].kind # "write"
  BY DEF Jobs
<1>2. \A q \in Process : queue[q] \in Seq(Jobs)
  BY DEF IInv, Typed
<1>3. \A q \in Process : queue'[q] = IF q = p THEN Append(queue[p], [kind |-> "reload"]) ELSE queue[q]
  BY DEF IInv, Typed, Reload
<1>4. ASSUME NEW q \in Process, NEW i \in DOMAIN queue'[q], queue'[q][i].kind = "write"
      PROVE  i \in DOMAIN queue[q] /\ queue'[q][i] = queue[q][i]
  <2>1. CASE q # p
    BY <1>3, <2>1
  <2>2. CASE q = p
    <3>1. queue'[p] = Append(queue[p], [kind |-> "reload"])
      BY <1>3
    <3>2. i \in DOMAIN queue[p] \cup {Len(queue[p]) + 1}
      BY <1>1, <1>2, <2>2, <3>1, NewJob
    <3> QED
      BY <1>1, <1>2, <1>4, <2>2, <3>1, <3>2, NewJob
  <2> QED
    BY <2>1, <2>2
<1> QED
  BY <1>4 DEF MarksAreSet, Reload, historyVars

LEMMA ReloadsKeepsMarks ==
  ASSUME IInv, MarksAreSet, NEW p \in Process, Reloads(p)
  PROVE  MarksAreSet'
<1>1. memory[p] \in [Scopes -> [Path -> Value]]
  BY DEF IInv, Typed, SettingsTypeOK
<1>2. \A q \in Process, s \in Scopes : modified'[q][s] \subseteq modified[q][s]
  BY <1>1, Loads DEF Reloads
<1> QED
  BY <1>2, DoneMarksNothing, FewerMarks DEF Reloads, Over

LEMMA SetProjectTrustedKeepsMarks ==
  ASSUME IInv, MarksAreSet, NEW p \in Process, SetProjectTrusted(p)
  PROVE  MarksAreSet'
<1>1. [s \in Scopes |-> Empty] \in [Scopes -> [Path -> Value]]
  BY Files
<1>2. \A q \in Process, s \in Scopes : modified'[q][s] \subseteq modified[q][s]
  BY <1>1, Loads DEF SetProjectTrusted
<1> QED
  BY <1>2, FewerMarks DEF MarksNothing, SetProjectTrusted

LEMMA CrashKeepsMarks ==
  ASSUME IInv, MarksAreSet, NEW p \in Process, Crash(p)
  PROVE  MarksAreSet'
<1>1. \A q \in Process : queue'[q] = IF q = p THEN <<>> ELSE queue[q]
  BY DEF IInv, Typed, Crash
<1> QED
  BY <1>1, FewerMarks DEF MarksNothing, Crash, historyVars

LEMMA CreateKeepsMarks ==
  ASSUME IInv, MarksAreSet, NEW p \in Process, Create(p)
  PROVE  MarksAreSet'
<1>1. queue[p] = <<>> /\ \A s \in Scopes : modified'[p][s] = {}
  BY DEF IInv, Typed, SettingsTypeOK, BusyWrites, Create
<1>2. \A q \in Process : q # p => modified'[q] = modified[q] /\ lastSet'[q] = lastSet[q]
  BY DEF IInv, Typed, SettingsTypeOK, Create
<1> QED
  BY <1>1, <1>2 DEF MarksAreSet, Create

-----------------------------------------------------------------------------
(* The theorems.                                                            *)

LEMMA StutterKeeps ==
  ASSUME IInv, UNCHANGED settingsVars
  PROVE  IInv' /\ (MarksAreSet => MarksAreSet')
BY DEF IInv, Typed, SettingsTypeOK, LocksHeld, BusyWrites, ExistingStay, ReadIsFile, MarksAreSet, ErrorsReported,
       SetIsQueued, StillQueued, Job, settingsVars, managerVars, historyVars, boundVars

LEMMA InitHolds == SettingsInit => IInv /\ MarksAreSet
<1> SUFFICES ASSUME SettingsInit PROVE IInv /\ MarksAreSet
  OBVIOUS
<1>1. Empty \in [Path -> Value] /\ <<>> \in Seq(Jobs) /\ 0 \in 0..MaxEdits
  BY Files, SettingsAssumption
<1>2. file \in [Scopes -> File]
  BY <1>1 DEF SettingsInit, File
<1>3. SettingsTypeOK
  BY <1>1, <1>2 DEF SettingsInit, SettingsTypeOK, PerScope, Value
<1>4. Typed
  BY <1>1, <1>3 DEF SettingsInit, Typed
<1>5. LocksHeld /\ BusyWrites /\ ReadIsFile /\ ErrorsReported
  BY SettingsAssumption DEF SettingsInit, LocksHeld, BusyWrites, ReadIsFile, ErrorsReported
<1>6. ExistingStay
  BY SettingsAssumption DEF SettingsInit, ExistingStay
<1>7. SetIsQueued
  BY DEF SettingsInit, SetIsQueued, PerScope, Empty
<1>8. MarksAreSet
  BY DEF SettingsInit, MarksAreSet, PerScope
<1> QED
  BY <1>4, <1>5, <1>6, <1>7, <1>8 DEF IInv

LEMMA NextKeeps ==
  ASSUME IInv, [SettingsNext]_settingsVars
  PROVE  IInv'
BY StutterKeeps, SetKeeps, BeginKeeps, LockLateKeeps, WriteKeeps, RefuseKeeps, ReloadKeeps, ReloadsKeeps,
   SetProjectTrustedKeeps, CrashKeeps, CreateKeeps, StaleKeeps, EditKeeps DEF SettingsNext

LEMMA NextKeepsMarks ==
  ASSUME IInv, MarksAreSet, [SettingsNext]_settingsVars
  PROVE  MarksAreSet'
BY StutterKeeps, SetKeepsMarks, BeginKeepsMarks, LockLateKeepsMarks, WriteKeepsMarks, RefuseKeepsMarks,
   ReloadKeepsMarks, ReloadsKeepsMarks, SetProjectTrustedKeepsMarks, CrashKeepsMarks, CreateKeepsMarks,
   StaleKeepsMarks, EditKeepsMarks DEF SettingsNext

LEMMA QueuesEmpty ==
  ASSUME IInv
  PROVE  SavedOrReported
BY DEF IInv, SetIsQueued, SavedOrReported, StillQueued

\* What a value was set to is written, or an error is recorded (enqueueWrite, save), for
\* any number of processes, files and paths; and every variable keeps its type.
THEOREM SettingsSaved == SettingsSpec => [](SettingsTypeOK /\ SavedOrReported)
<1>1. IInv /\ [SettingsNext]_settingsVars => IInv'
  BY NextKeeps
<1>2. IInv => SettingsTypeOK /\ SavedOrReported
  BY QueuesEmpty DEF IInv, Typed
<1> QED
  BY InitHolds, <1>1, <1>2, PTL DEF SettingsSpec

\* What a step may do to the files that were there in the beginning.
KeepsEdits ==
  \A p \in Process, s \in Existing : Wrote(p, s) => Changed(s) \subseteq MarkedBy(p, s) \cup missed[p]

LEMMA StepKeepsEdits ==
  ASSUME IInv, MarksAreSet, [SettingsNext]_settingsVars
  PROVE  KeepsEdits
<1> SUFFICES ASSUME NEW p \in Process, NEW s \in Existing, Wrote(p, s), NEW x \in Changed(s), x \notin missed[p]
             PROVE  x \in MarkedBy(p, s)
  BY DEF KeepsEdits
<1>1. s \in Scopes /\ p \notin {"free", "dead"} /\ x \in Path /\ file'[s].values[x] # file[s].values[x]
  BY SettingsAssumption DEF Changed
<1>2. phase[p] = "locked" /\ Job(p).scope = s
  BY <1>1 DEF IInv, LocksHeld, Wrote
<1>3. file' # file /\ lock' # lock
  BY <1>1 DEF Wrote
<1>4. ASSUME NEW q \in Process, Crash(q)
      PROVE  FALSE
  <2>1. lock'[s] \in {lock[s], "dead"}
    BY <1>1, <1>4 DEF Crash
  <2> QED
    BY <1>1, <2>1 DEF Wrote
<1>5. ~\E t \in Scopes, y \in Path : Edit(t, y)
  BY <1>3 DEF Edit
<1>6. PICK q \in Process : Write(q)
  BY <1>3, <1>4, <1>5
     DEF SettingsNext, settingsVars, Set, Begin, LockLate, Refuse, Reload, Reloads, SetProjectTrusted, Create, StaleLock
<1> DEFINE merged == [y \in Path |-> IF y \in MarksOf(q) THEN Job(q).values[y] ELSE read[q][y]]
<1>7. phase[q] = "locked" /\ file' = [file EXCEPT ![Job(q).scope] = Ok(merged)]
  BY <1>6 DEF Write
<1>8. Job(q).scope = s
  BY <1>1, <1>7 DEF IInv, Typed, SettingsTypeOK
<1>9. q = p
  BY <1>1, <1>7, <1>8 DEF IInv, LocksHeld, Wrote
<1>10. file'[s].values = merged
  BY <1>1, <1>7, <1>8 DEF IInv, Typed, SettingsTypeOK, Ok
<1>11. read[p][x] = file[s].values[x]
  BY <1>1, <1>2 DEF IInv, ReadIsFile
<1>12. x \in Job(p).marks
  BY <1>1, <1>9, <1>10, <1>11 DEF MarksOf
<1>13. Job(p) = queue[p][1] /\ 1 \in DOMAIN queue[p] /\ Job(p).kind = "write"
  BY <1>2, Busy DEF IInv, BusyWrites
<1>14. x \in Under(lastSet[p][s])
  BY <1>2, <1>12, <1>13 DEF MarksAreSet
<1> QED
  BY <1>14 DEF Under, MarkedBy, SetBy

\* A write to a file that existed changes what the setters of its process have marked, and
\* keeps what others have put there (persistScopedSettings), but for what was edited by
\* hand between its read and the write.
THEOREM EditsKept == SettingsSpec => EditsAreKept
<1>1. IInv /\ MarksAreSet /\ [SettingsNext]_settingsVars => (IInv /\ MarksAreSet)'
  BY NextKeeps, NextKeepsMarks
<1>2. IInv /\ MarksAreSet /\ [SettingsNext]_settingsVars => [KeepsEdits]_settingsVars
  BY StepKeepsEdits
<1>3. EditsAreKept <=> [][KeepsEdits]_settingsVars
  BY DEF EditsAreKept, KeepsEdits
<1> QED
  BY InitHolds, <1>1, <1>2, <1>3, PTL DEF SettingsSpec
=============================================================================
