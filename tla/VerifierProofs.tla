---------------------------- MODULE VerifierProofs ----------------------------
(***************************************************************************)
(* The machine of VM.tla never leaves its layout: whatever an instruction  *)
(* does, calls, returns, catches or awaits, a machine that runs verified   *)
(* code is at a place of that code again, and it does not go on for ever.  *)
(***************************************************************************)
EXTENDS Verifier, SequenceTheorems, WellFoundedInduction, TLAPS

-----------------------------------------------------------------------------
(***************************************************************************)
(* Sequences whose elements nobody looks at.                               *)
(***************************************************************************)
LEMMA SeqLength ==
  ASSUME NEW s, IsSeq(s)
  PROVE  Len(s) \in Nat /\ DOMAIN s = 1..Len(s) /\ \A i \in 1..Len(s) : s[i] \in Range(s)
<1>1. s \in Seq(Range(s))
  BY DEF IsSeq
<1> QED
  BY <1>1, LenProperties, ElementOfSeq

LEMMA InSeq ==
  ASSUME NEW S, NEW s \in Seq(S)
  PROVE  IsSeq(s)
BY SeqOfRange DEF IsSeq

LEMMA EmptyIsSeq == IsSeq(<<>>) /\ Len(<<>>) = 0
<1>1. <<>> \in Seq({}) /\ Len(<<>>) = 0
  BY EmptySeq
<1> QED
  BY <1>1, InSeq

LEMMA Pushed ==
  ASSUME NEW s, IsSeq(s), NEW v
  PROVE  IsSeq(Append(s, v)) /\ Len(Append(s, v)) = Len(s) + 1
<1> DEFINE T == Range(s) \cup {v}
<1>1. s \in Seq(T)
  <2>1. s \in Seq(Range(s)) /\ Range(s) \subseteq T
    BY DEF IsSeq
  <2> HIDE DEF T
  <2> QED
    BY <2>1, SeqMonotonic
<1>2. v \in T
  OBVIOUS
<1> HIDE DEF T
<1>3. Append(s, v) \in Seq(T) /\ Len(Append(s, v)) = Len(s) + 1
  BY <1>1, <1>2, AppendProperties
<1> QED
  BY <1>3, InSeq

LEMMA Cut ==
  ASSUME NEW s, IsSeq(s), NEW n \in 0..Len(s)
  PROVE  IsSeq(SubSeq(s, 1, n)) /\ Len(SubSeq(s, 1, n)) = n
<1>1. Len(s) \in Nat /\ \A i \in 1..Len(s) : s[i] \in Range(s)
  BY SeqLength
<1>2. 1 \in Int /\ n \in Int /\ \A i \in 1..n : s[i] \in Range(s)
  BY <1>1
<1>3. SubSeq(s, 1, n) \in Seq(Range(s)) /\ Len(SubSeq(s, 1, n)) = IF 1 <= n THEN n - 1 + 1 ELSE 0
  BY <1>2, SubSeqProperties
<1>4. Len(SubSeq(s, 1, n)) = n
  BY <1>3, <1>1
<1> QED
  BY <1>3, <1>4, InSeq

\* The top `n` elements.
LEMMA Topmost ==
  ASSUME NEW s, IsSeq(s), NEW n \in 0..Len(s)
  PROVE  IsSeq(SubSeq(s, Len(s) - n + 1, Len(s))) /\ Len(SubSeq(s, Len(s) - n + 1, Len(s))) = n
<1>1. Len(s) \in Nat /\ \A i \in 1..Len(s) : s[i] \in Range(s)
  BY SeqLength
<1> DEFINE a == Len(s) - n + 1
<1>2. a \in Int /\ Len(s) \in Int /\ \A i \in a..Len(s) : s[i] \in Range(s)
  BY <1>1
<1>3. SubSeq(s, a, Len(s)) \in Seq(Range(s))
      /\ Len(SubSeq(s, a, Len(s))) = IF a <= Len(s) THEN Len(s) - a + 1 ELSE 0
  <2> HIDE DEF a
  <2> QED
    BY <1>2, SubSeqProperties
<1>4. (IF a <= Len(s) THEN Len(s) - a + 1 ELSE 0) = n
  BY <1>1
<1>5. IsSeq(SubSeq(s, a, Len(s))) /\ Len(SubSeq(s, a, Len(s))) = n
  <2> HIDE DEF a
  <2> QED
    BY <1>3, <1>4, InSeq
<1> QED
  BY <1>5

LEMMA Joined ==
  ASSUME NEW s, IsSeq(s), NEW t, IsSeq(t)
  PROVE  IsSeq(s \o t) /\ Len(s \o t) = Len(s) + Len(t)
<1> DEFINE T == Range(s) \cup Range(t)
<1>1. s \in Seq(Range(s)) /\ t \in Seq(Range(t))
  BY DEF IsSeq
<1>2. Range(s) \subseteq T /\ Range(t) \subseteq T
  OBVIOUS
<1> HIDE DEF T
<1>3. s \in Seq(T) /\ t \in Seq(T)
  BY <1>1, <1>2, SeqMonotonic
<1>4. s \o t \in Seq(T) /\ Len(s \o t) = Len(s) + Len(t)
  BY <1>3, ConcatProperties
<1> QED
  BY <1>4, InSeq

LEMMA Numbered ==
  ASSUME NEW n \in Nat, NEW f, DOMAIN f = 1..n, f = [i \in 1..n |-> f[i]]
  PROVE  IsSeq(f) /\ Len(f) = n
<1>1. f \in [1..n -> Range(f)]
  <2>1. \A i \in 1..n : f[i] \in Range(f)
    BY DEF Range
  <2> QED
    BY <2>1
<1>2. f \in Seq(Range(f))
  BY <1>1, SeqDef
<1>3. Len(f) \in Nat /\ DOMAIN f = 1..Len(f)
  BY <1>2, LenProperties
<1>4. Len(f) = n
  BY <1>3
<1> QED
  BY <1>2, <1>4 DEF IsSeq

LEMMA NullsAreSeq ==
  ASSUME NEW n \in Nat
  PROVE  IsSeq(Nulls(n)) /\ Len(Nulls(n)) = n
<1>1. DOMAIN Nulls(n) = 1..n /\ Nulls(n) = [i \in 1..n |-> Nulls(n)[i]]
  BY DEF Nulls
<1> QED
  BY <1>1, Numbered

LEMMA Changed ==
  ASSUME NEW s, IsSeq(s), NEW i, NEW v
  PROVE  IsSeq([s EXCEPT ![i] = v]) /\ Len([s EXCEPT ![i] = v]) = Len(s)
<1> DEFINE t == [s EXCEPT ![i] = v]
<1>1. Len(s) \in Nat /\ DOMAIN s = 1..Len(s)
  BY SeqLength
<1>2. DOMAIN t = 1..Len(s) /\ t = [j \in 1..Len(s) |-> t[j]]
  BY <1>1
<1> HIDE DEF t
<1>3. IsSeq(t) /\ Len(t) = Len(s)
  BY <1>1, <1>2, Numbered
<1> QED
  BY <1>3 DEF t

-----------------------------------------------------------------------------
\* Every set of naturals has a least element.
LEMMA LeastNatural ==
  ASSUME NEW T, T \subseteq Nat, T # {}
  PROVE  \E x \in T : \A y \in T : x <= y
<1> DEFINE R == OpToRel(<, Nat)
<1>1. \A x, y \in Nat : x < y => <<x, y>> \in R
  BY DEF OpToRel
<1>2. IsWellFoundedOn(R, Nat)
  BY NatLessThanWellFounded
<1> HIDE DEF R
<1>3. \E x \in T : \A y \in T : ~(<<y, x>> \in R)
  BY <1>2, WFMin
<1>4. PICK x \in T : \A y \in T : ~(<<y, x>> \in R)
  BY <1>3
<1>5. \A y \in T : ~(y < x)
  BY <1>1, <1>4
<1> QED
  BY <1>5

\* ... and a bounded one its greatest.
LEMMA GreatestNatural ==
  ASSUME NEW n \in Nat, NEW S, S \subseteq 1..n, S # {}
  PROVE  Max(S) \in S /\ \A y \in S : y <= Max(S)
<1> DEFINE T == {n - k : k \in S}
<1>1. \A k \in S : k \in 1..n /\ n - k \in T /\ n - k \in Nat
  OBVIOUS
<1>2. \A t \in T : \E k \in S : t = n - k
  OBVIOUS
<1> HIDE DEF T
<1>3. T \subseteq Nat /\ T # {}
  BY <1>1, <1>2
<1>4. PICK t \in T : \A y \in T : t <= y
  BY <1>3, LeastNatural
<1>5. PICK x \in S : t = n - x
  BY <1>2
<1>6. \A y \in S : x >= y
  BY <1>1, <1>4, <1>5
<1> QED
  BY <1>1, <1>6 DEF Max

-----------------------------------------------------------------------------
(***************************************************************************)
(* Places.                                                                 *)
(***************************************************************************)
LEMMA PlaceFacts ==
  ASSUME NEW chunks, NEW places, Verified(chunks, places),
         NEW c, NEW pc, NEW d, <<c, pc, d>> \in places
  PROVE  /\ c \in DOMAIN chunks /\ pc \in Nat /\ pc \in 1..Len(chunks[c].code) /\ d \in Nat
         /\ chunks[c].num \in Nat /\ Len(chunks[c].code) \in Nat
         /\ Finds(chunks, c, pc, d)
         /\ \A q \in After(chunks[c], <<pc, d>>) : <<c, q[1], q[2]>> \in places
<1> DEFINE p == <<c, pc, d>>
<1>1. p \in places /\ p[1] = c /\ p[2] = pc /\ p[3] = d
  OBVIOUS
<1> HIDE DEF p
<1>2. /\ p[1] \in DOMAIN chunks /\ p[2] \in 1..Len(chunks[p[1]].code) /\ p[3] \in Nat
      /\ Finds(chunks, p[1], p[2], p[3])
      /\ \A q \in After(chunks[p[1]], <<p[2], p[3]>>) : <<p[1], q[1], q[2]>> \in places
  BY <1>1 DEF Verified
<1>3. chunks[c].num \in Nat /\ Len(chunks[c].code) \in Nat
  BY <1>1, <1>2 DEF Verified
<1> QED
  BY <1>1, <1>2, <1>3

LEMMA EntryPlace ==
  ASSUME NEW chunks, NEW places, Verified(chunks, places), NEW c \in DOMAIN chunks
  PROVE  <<c, 1, 0>> \in places
BY DEF Verified

\* There is an innermost handler wherever there is one.
LEMMA Innermost ==
  ASSUME NEW chunks, NEW places, Verified(chunks, places),
         NEW c \in DOMAIN chunks, NEW pc \in Int, Covering(chunks[c], pc) # {}
  PROVE  FindHandler(chunks[c], pc) \in Covering(chunks[c], pc)
<1> DEFINE C == Covering(chunks[c], pc)
           T == {r.end - r.begin : r \in C}
<1>1. \A r \in C : r.begin \in Nat /\ r.end \in Nat /\ r.end - r.begin \in Nat /\ r.end - r.begin \in T
  <2> SUFFICES ASSUME NEW r \in C PROVE r.begin \in Nat /\ r.end \in Nat /\ r.end - r.begin \in Nat
    OBVIOUS
  <2>1. r \in Range(chunks[c].tries) /\ r.begin <= pc /\ pc < r.end
    BY DEF Covering
  <2>2. r.begin \in Nat /\ r.end \in Nat
    BY <2>1 DEF Verified
  <2> QED
    BY <2>1, <2>2
<1>2. \A t \in T : \E r \in C : t = r.end - r.begin
  OBVIOUS
<1>3. C # {}
  OBVIOUS
<1> HIDE DEF T
<1>4. T \subseteq Nat /\ T # {}
  BY <1>1, <1>2, <1>3
<1>5. PICK t \in T : \A y \in T : t <= y
  BY <1>4, LeastNatural
<1>6. PICK r \in C : t = r.end - r.begin
  BY <1>2
<1>7. \A s \in C : r.end - r.begin <= s.end - s.begin
  BY <1>1, <1>5, <1>6
<1> QED
  BY <1>7 DEF FindHandler

\* It is a place, with the error as the only operand.
LEMMA CatchPlace ==
  ASSUME NEW chunks, NEW places, Verified(chunks, places),
         NEW c, NEW pc, NEW d, <<c, pc, d>> \in places, Covering(chunks[c], pc) # {}
  PROVE  <<c, FindHandler(chunks[c], pc).catch, 1>> \in places
<1> DEFINE h == FindHandler(chunks[c], pc)
<1>1. c \in DOMAIN chunks /\ pc \in Nat /\ \A q \in After(chunks[c], <<pc, d>>) : <<c, q[1], q[2]>> \in places
  BY PlaceFacts
<1>2. h \in Covering(chunks[c], pc)
  BY <1>1, Innermost
<1>3. <<h.catch, 1>> \in {<<x.catch, 1>> : x \in Covering(chunks[c], <<pc, d>>[1])}
  BY <1>2
<1> HIDE DEF h
<1>4. <<h.catch, 1>> \in After(chunks[c], <<pc, d>>)
  BY <1>3 DEF After
<1> QED
  BY <1>1, <1>4 DEF h

-----------------------------------------------------------------------------
(***************************************************************************)
(* Frames.                                                                 *)
(***************************************************************************)
LEMMA Transitive ==
  ASSUME NEW a \in Nat, NEW b \in Nat, NEW c \in Nat, a <= b, b <= c
  PROVE  a <= c
OBVIOUS

LEMMA Differences ==
  ASSUME NEW a \in Nat, NEW b \in Nat, NEW c \in Nat
  PROVE  (a - b) - c + 1 = (a - c) - b + 1 /\ (a - c) - b = (a - b) - c
OBVIOUS

LEMMA FrameFacts ==
  ASSUME NEW chunks, NEW f \in Frame(chunks)
  PROVE  f.chunk \in DOMAIN chunks /\ f.pc \in Nat /\ f.lbase \in Nat /\ f.sbase \in Nat
BY DEF Frame

LEMMA FramedFacts ==
  ASSUME NEW chunks, NEW places, NEW frames, NEW stack, NEW locals, Framed(chunks, places, frames, stack, locals)
  PROVE  /\ Len(frames) \in Nat \ {0} /\ DOMAIN frames = 1..Len(frames)
         /\ \A k \in 1..Len(frames) : frames[k] \in Frame(chunks)
         /\ Last(frames) = frames[Len(frames)]
         /\ Last(frames) \in Frame(chunks)
         /\ IsSeq(stack) /\ IsSeq(locals) /\ Len(stack) \in Nat /\ Len(locals) \in Nat
<1>1. frames \in Seq(Frame(chunks)) /\ frames # <<>>
  BY DEF Framed
<1>2. Len(frames) \in Nat \ {0} /\ DOMAIN frames = 1..Len(frames)
  BY <1>1, EmptySeq, LenProperties
<1>3. \A k \in 1..Len(frames) : frames[k] \in Frame(chunks)
  BY <1>1, ElementOfSeq
<1>4. IsSeq(stack) /\ IsSeq(locals) /\ Len(stack) \in Nat /\ Len(locals) \in Nat
  BY SeqLength DEF Framed
<1> QED
  BY <1>2, <1>3, <1>4 DEF Last

\* Other operands and other values of the variables, the same frames.
LEMMA Refilled ==
  ASSUME NEW chunks, NEW places, NEW frames, NEW stack, NEW locals, Framed(chunks, places, frames, stack, locals),
         NEW stack1, IsSeq(stack1), Last(frames).sbase <= Len(stack1),
         NEW locals1, IsSeq(locals1), Len(locals1) = Len(locals)
  PROVE  Framed(chunks, places, frames, stack1, locals1)
BY DEF Framed

\* The top frame moves on.
Onwards(frames, pc) == [frames EXCEPT ![Len(frames)].pc = pc]
LEMMA Moved ==
  ASSUME NEW chunks, NEW places, NEW frames, NEW stack, NEW locals, Framed(chunks, places, frames, stack, locals),
         NEW pc \in Nat
  PROVE  /\ Framed(chunks, places, Onwards(frames, pc), stack, locals)
         /\ Last(Onwards(frames, pc)).chunk = Last(frames).chunk /\ Last(Onwards(frames, pc)).pc = pc
         /\ Last(Onwards(frames, pc)).lbase = Last(frames).lbase /\ Last(Onwards(frames, pc)).sbase = Last(frames).sbase
<1> DEFINE n == Onwards(frames, pc)
           L == Len(frames)
           f == Last(frames)
           g == [f EXCEPT !.pc = pc]
<1>1. /\ L \in Nat \ {0} /\ DOMAIN frames = 1..L /\ f = frames[L] /\ f \in Frame(chunks)
      /\ \A k \in 1..L : frames[k] \in Frame(chunks)
  BY FramedFacts
<1>2. n = [frames EXCEPT ![L] = g]
  BY <1>1 DEF Onwards
<1>3. g \in Frame(chunks) /\ g.chunk = f.chunk /\ g.lbase = f.lbase /\ g.sbase = f.sbase /\ g.pc = pc
  BY <1>1 DEF Frame
<1>4. frames \in Seq(Frame(chunks)) /\ frames # <<>>
  BY DEF Framed
<1> HIDE DEF n, g
<1>5. /\ n \in Seq(Frame(chunks)) /\ Len(n) = L
      /\ \A j \in 1..L : n[j] = IF j = L THEN g ELSE frames[j]
  BY <1>1, <1>2, <1>3, <1>4, ExceptSeq
<1>6. n # <<>>
  BY <1>1, <1>5, EmptySeq
<1>7. Last(n) = g
  <2>1. L \in 1..L
    BY <1>1
  <2>2. Len(n) = L /\ n[L] = g
    BY <1>5, <2>1
  <2> QED
    BY <2>2 DEF Last
<1>8. \A k \in 1..L - 1 : Called(chunks, places, n[k], n[k + 1])
  <2> SUFFICES ASSUME NEW k \in 1..L - 1
               PROVE  Called(chunks, places, n[k], n[k + 1])
    OBVIOUS
  <2>1. k \in 1..L /\ k + 1 \in 1..L /\ k # L
    <3>1. L \in Nat
      BY <1>1
    <3> HIDE DEF L
    <3> QED
      BY <3>1
  <2>2. Called(chunks, places, frames[k], frames[k + 1])
    BY DEF Framed
  <2>3. n[k] = frames[k] /\ n[k + 1].lbase = frames[k + 1].lbase /\ n[k + 1].sbase = frames[k + 1].sbase
    BY <1>1, <1>3, <1>5, <2>1
  <2> QED
    BY <2>2, <2>3 DEF Called
<1>9. \A j, k \in 1..L : j <= k => n[j].sbase <= n[k].sbase /\ n[j].lbase <= n[k].lbase
  <2>1. \A j \in 1..L : n[j].sbase = frames[j].sbase /\ n[j].lbase = frames[j].lbase
    BY <1>1, <1>3, <1>5
  <2> QED
    BY <2>1 DEF Framed
<1>10. Last(n).sbase <= Len(stack) /\ Len(locals) = Last(n).lbase + chunks[Last(n).chunk].num
  BY <1>3, <1>7 DEF Framed
<1>11. Framed(chunks, places, n, stack, locals)
  <2>1. IsSeq(stack) /\ IsSeq(locals)
    BY DEF Framed
  <2> QED
    BY <2>1, <1>5, <1>6, <1>8, <1>9, <1>10 DEF Framed
<1> QED
  BY <1>3, <1>7, <1>11 DEF n

\* The frames above the k-th one go.
LEMMA Uncovered ==
  ASSUME NEW chunks, NEW places, NEW frames, NEW stack, NEW locals, Framed(chunks, places, frames, stack, locals),
         NEW k \in 1..Len(frames),
         NEW stack1, IsSeq(stack1), frames[k].sbase <= Len(stack1),
         NEW locals1, IsSeq(locals1), Len(locals1) = frames[k].lbase + chunks[frames[k].chunk].num
  PROVE  /\ Framed(chunks, places, SubSeq(frames, 1, k), stack1, locals1)
         /\ Last(SubSeq(frames, 1, k)) = frames[k]
<1> DEFINE L == Len(frames)
           n == SubSeq(frames, 1, k)
<1>1. L \in Nat \ {0} /\ DOMAIN frames = 1..L /\ \A i \in 1..L : frames[i] \in Frame(chunks)
  BY FramedFacts
<1>2. 1 \in Int /\ k \in Int /\ \A i \in 1..k : frames[i] \in Frame(chunks)
  BY <1>1
<1>3. /\ n \in Seq(Frame(chunks)) /\ Len(n) = IF 1 <= k THEN k - 1 + 1 ELSE 0
      /\ \A i \in 1..k - 1 + 1 : n[i] = frames[1 + i - 1]
  BY <1>2, SubSeqProperties
<1> HIDE DEF n
<1>4. Len(n) = k /\ k >= 1 /\ \A i \in 1..k : n[i] = frames[i]
  BY <1>1, <1>3
<1>5. n # <<>>
  BY <1>4, EmptySeq
<1>6. Last(n) = frames[k]
  BY <1>4 DEF Last
<1>7. \A i \in 1..k - 1 : Called(chunks, places, n[i], n[i + 1])
  <2> SUFFICES ASSUME NEW i \in 1..k - 1 PROVE Called(chunks, places, n[i], n[i + 1])
    OBVIOUS
  <2>1. i \in 1..L - 1 /\ i \in 1..k /\ i + 1 \in 1..k
    <3>1. L \in Nat /\ k \in 1..L
      BY <1>1
    <3> HIDE DEF L
    <3> QED
      BY <3>1
  <2>2. Called(chunks, places, frames[i], frames[i + 1])
    BY <2>1 DEF Framed
  <2> QED
    BY <1>4, <2>1, <2>2
<1>8. \A i, j \in 1..k : i <= j => n[i].sbase <= n[j].sbase /\ n[i].lbase <= n[j].lbase
  <2>1. \A i, j \in 1..L : i <= j => frames[i].sbase <= frames[j].sbase /\ frames[i].lbase <= frames[j].lbase
    BY DEF Framed
  <2>2. \A i \in 1..k : i \in 1..L
    BY <1>1
  <2> QED
    BY <1>4, <2>1, <2>2
<1>9. Framed(chunks, places, n, stack1, locals1)
  BY <1>3, <1>4, <1>5, <1>6, <1>7, <1>8 DEF Framed
<1> QED
  BY <1>6, <1>9 DEF n

\* A frame more, for a call made by the top one.
LEMMA Covered ==
  ASSUME NEW chunks, NEW places, NEW frames, NEW stack, NEW locals, Framed(chunks, places, frames, stack, locals),
         NEW g \in Frame(chunks), chunks[Last(frames).chunk].num \in Nat,
         Called(chunks, places, Last(frames), g), Last(frames).sbase <= g.sbase,
         NEW stack1, IsSeq(stack1), g.sbase <= Len(stack1),
         NEW locals1, IsSeq(locals1), Len(locals1) = g.lbase + chunks[g.chunk].num
  PROVE  Framed(chunks, places, Append(frames, g), stack1, locals1) /\ Last(Append(frames, g)) = g
<1> DEFINE L == Len(frames)
           n == Append(frames, g)
<1>1. /\ L \in Nat \ {0} /\ Last(frames) = frames[L]
      /\ \A i \in 1..L : frames[i] \in Frame(chunks)
  BY FramedFacts
<1>2. frames \in Seq(Frame(chunks))
  BY DEF Framed
<1>3. /\ n \in Seq(Frame(chunks)) /\ n # <<>> /\ Len(n) = L + 1
      /\ \A i \in 1..L : n[i] = frames[i]
      /\ n[L + 1] = g
  BY <1>2, AppendProperties
<1> HIDE DEF n
<1>4. Last(n) = g
  BY <1>3 DEF Last
<1>5. \A k \in 1..Len(n) - 1 : Called(chunks, places, n[k], n[k + 1])
  <2> SUFFICES ASSUME NEW k \in 1..L PROVE Called(chunks, places, n[k], n[k + 1])
    BY <1>1, <1>3
  <2>1. CASE k = L
    BY <1>1, <1>3, <2>1
  <2>2. CASE k # L
    <3>1. k \in 1..L - 1 /\ k + 1 \in 1..L
      BY <1>1, <2>2
    <3> QED
      BY <1>3, <3>1 DEF Framed
  <2> QED
    BY <2>1, <2>2
<1>6. \A i \in 1..L : frames[i].sbase \in Nat /\ frames[i].lbase \in Nat
  BY <1>1, FrameFacts
<1>7. frames[L].lbase <= g.lbase /\ frames[L].sbase <= g.sbase /\ g.lbase \in Nat /\ g.sbase \in Nat
  <2>1. frames[L].lbase \in Nat /\ g.lbase \in Nat /\ g.sbase \in Nat
    BY <1>1, FrameFacts
  <2>2. g.lbase = frames[L].lbase + chunks[frames[L].chunk].num
    BY <1>1 DEF Called
  <2> QED
    BY <1>1, <2>1, <2>2
<1>8. \A i \in 1..L : frames[i].sbase <= g.sbase /\ frames[i].lbase <= g.lbase
  <2> SUFFICES ASSUME NEW i \in 1..L PROVE frames[i].sbase <= g.sbase /\ frames[i].lbase <= g.lbase
    OBVIOUS
  <2>1. frames[i].sbase <= frames[L].sbase /\ frames[i].lbase <= frames[L].lbase
    BY <1>1 DEF Framed
  <2>2. /\ frames[i].sbase \in Nat /\ frames[i].lbase \in Nat
        /\ frames[L].sbase \in Nat /\ frames[L].lbase \in Nat
    BY <1>1, <1>6
  <2>3. frames[i].sbase <= g.sbase
    BY <1>7, <2>1, <2>2, Transitive
  <2>4. frames[i].lbase <= g.lbase
    BY <1>7, <2>1, <2>2, Transitive
  <2> QED
    BY <2>3, <2>4
<1>9. \A i, j \in 1..Len(n) : i <= j => n[i].sbase <= n[j].sbase /\ n[i].lbase <= n[j].lbase
  <2> SUFFICES ASSUME NEW i \in 1..L + 1, NEW j \in 1..L + 1, i <= j
               PROVE  n[i].sbase <= n[j].sbase /\ n[i].lbase <= n[j].lbase
    BY <1>3
  <2>1. CASE j \in 1..L
    <3>1. i \in 1..L
      BY <1>1, <2>1
    <3>2. frames[i].sbase <= frames[j].sbase /\ frames[i].lbase <= frames[j].lbase
      BY <2>1, <3>1 DEF Framed
    <3> QED
      BY <1>3, <2>1, <3>1, <3>2
  <2>2. CASE j = L + 1 /\ i \in 1..L
    <3>1. n[j] = g /\ n[i] = frames[i]
      BY <1>3, <2>2
    <3> QED
      BY <1>8, <2>2, <3>1
  <2>3. CASE j = L + 1 /\ i = L + 1
    <3>1. n[j] = g /\ n[i] = g
      BY <1>3, <2>3
    <3> QED
      BY <1>7, <3>1
  <2> QED
    BY <1>1, <2>1, <2>2, <2>3
<1>10. Framed(chunks, places, n, stack1, locals1)
  BY <1>3, <1>4, <1>5, <1>9 DEF Framed
<1> QED
  BY <1>4, <1>10 DEF n

-----------------------------------------------------------------------------
(***************************************************************************)
(* Between two instructions, and in the midst of one: the frame is past it *)
(* already, its operands are still there.                                  *)
(***************************************************************************)
Ready(chunks, places, frames, stack, locals) ==
  /\ Framed(chunks, places, frames, stack, locals)
  /\ <<Last(frames).chunk, Last(frames).pc, Len(stack) - Last(frames).sbase>> \in places
Midway(chunks, places, frames, stack, locals) ==
  /\ Framed(chunks, places, frames, stack, locals)
  /\ <<Last(frames).chunk, Last(frames).pc - 1, Len(stack) - Last(frames).sbase>> \in places
Instr(chunks, frames) == chunks[Last(frames).chunk].code[Last(frames).pc - 1]

LEMMA MidwayFacts ==
  ASSUME NEW chunks, NEW places, Verified(chunks, places),
         NEW frames, NEW stack, NEW locals, Midway(chunks, places, frames, stack, locals)
  PROVE  LET f == Last(frames)
             i == Instr(chunks, frames)
             d == Len(stack) - f.sbase
         IN /\ Framed(chunks, places, frames, stack, locals)
            /\ f \in Frame(chunks) /\ f.chunk \in DOMAIN chunks /\ chunks[f.chunk].num \in Nat
            /\ f.pc \in Nat /\ f.pc - 1 \in Nat /\ f.sbase \in Nat /\ f.lbase \in Nat
            /\ IsSeq(stack) /\ IsSeq(locals) /\ Len(stack) \in Nat /\ Len(locals) \in Nat /\ d \in Nat
            /\ Len(locals) = f.lbase + chunks[f.chunk].num
            /\ Takes(i) \in 0..d /\ Takes(i) \in 0..Len(stack) /\ f.sbase <= Len(stack) - Takes(i)
            /\ Finds(chunks, f.chunk, f.pc - 1, d)
            /\ \A q \in After(chunks[f.chunk], <<f.pc - 1, d>>) : <<f.chunk, q[1], q[2]>> \in places
<1> DEFINE f == Last(frames)
           i == Instr(chunks, frames)
           d == Len(stack) - f.sbase
<1>1. Framed(chunks, places, frames, stack, locals) /\ <<f.chunk, f.pc - 1, d>> \in places
  BY DEF Midway
<1>2. f \in Frame(chunks) /\ Len(stack) \in Nat /\ Len(locals) \in Nat /\ IsSeq(stack) /\ IsSeq(locals)
  BY <1>1, FramedFacts
<1>3. f.chunk \in DOMAIN chunks /\ f.pc \in Nat /\ f.lbase \in Nat /\ f.sbase \in Nat
  <2> HIDE DEF f
  <2> QED
    BY <1>2, FrameFacts
<1>4. Len(locals) = f.lbase + chunks[f.chunk].num
  BY <1>1 DEF Framed
<1>5. /\ f.pc - 1 \in Nat /\ d \in Nat /\ chunks[f.chunk].num \in Nat
      /\ Finds(chunks, f.chunk, f.pc - 1, d)
      /\ \A q \in After(chunks[f.chunk], <<f.pc - 1, d>>) : <<f.chunk, q[1], q[2]>> \in places
  <2> HIDE DEF f, d
  <2> QED
    BY <1>1, PlaceFacts
<1>6. Takes(i) \in 0..d
  BY <1>5 DEF Finds, Instr
<1>7. Takes(i) \in 0..Len(stack) /\ f.sbase <= Len(stack) - Takes(i)
  <2> HIDE DEF f, i
  <2> QED
    BY <1>2, <1>3, <1>5, <1>6
<1> QED
  BY <1>1, <1>2, <1>3, <1>4, <1>5, <1>6, <1>7

\* An instruction begins.
LEMMA Begun ==
  ASSUME NEW chunks, NEW places, Verified(chunks, places),
         NEW frames, NEW stack, NEW locals, Ready(chunks, places, frames, stack, locals)
  PROVE  LET f == Last(frames)
             g == Onwards(frames, f.pc + 1)
         IN /\ Midway(chunks, places, g, stack, locals)
            /\ Instr(chunks, g) = chunks[f.chunk].code[f.pc]
            /\ ~(f.pc > Len(chunks[f.chunk].code))
            /\ Last(g).pc = f.pc + 1 /\ f.pc \in Nat
<1> DEFINE f == Last(frames)
           g == Onwards(frames, f.pc + 1)
           d == Len(stack) - f.sbase
<1>1. Framed(chunks, places, frames, stack, locals) /\ <<f.chunk, f.pc, d>> \in places
  BY DEF Ready
<1>2. f.pc \in Nat /\ f.pc \in 1..Len(chunks[f.chunk].code) /\ Len(chunks[f.chunk].code) \in Nat
  <2> HIDE DEF f, d
  <2> QED
    BY <1>1, PlaceFacts
<1> DEFINE pc == f.pc + 1
<1>3. pc \in Nat /\ ~(f.pc > Len(chunks[f.chunk].code)) /\ pc - 1 = f.pc
  BY <1>2
<1>4. /\ Framed(chunks, places, g, stack, locals)
      /\ Last(g).chunk = f.chunk /\ Last(g).pc = pc /\ Last(g).sbase = f.sbase
  <2>1. pc \in Nat /\ Framed(chunks, places, frames, stack, locals)
    BY <1>1, <1>3
  <2>2. /\ Framed(chunks, places, Onwards(frames, pc), stack, locals)
        /\ Last(Onwards(frames, pc)).chunk = f.chunk /\ Last(Onwards(frames, pc)).pc = pc
        /\ Last(Onwards(frames, pc)).sbase = f.sbase
    <3> HIDE DEF pc
    <3> QED
      BY <2>1, Moved
  <2> QED
    BY <2>2
<1>5. Last(g).pc - 1 = f.pc
  <2> HIDE DEF pc, f, g
  <2> QED
    BY <1>3, <1>4
<1>6. Midway(chunks, places, g, stack, locals)
  <2> HIDE DEF pc, f, g
  <2> QED
    BY <1>1, <1>4, <1>5 DEF Midway
<1>7. Instr(chunks, g) = chunks[f.chunk].code[f.pc]
  <2> HIDE DEF pc, f, g
  <2> QED
    BY <1>4, <1>5 DEF Instr
<1> QED
  BY <1>2, <1>3, <1>4, <1>6, <1>7

\* It ends where the next one begins.
LEMMA Advanced ==
  ASSUME NEW chunks, NEW places, Verified(chunks, places),
         NEW frames, NEW stack, NEW locals, Midway(chunks, places, frames, stack, locals),
         Instr(chunks, frames).op \notin {"Return", "ReturnNull", "Jump"},
         NEW stack1, IsSeq(stack1),
         Len(stack1) = Len(stack) - Takes(Instr(chunks, frames)) + Leaves(Instr(chunks, frames)),
         NEW locals1, IsSeq(locals1), Len(locals1) = Len(locals)
  PROVE  Ready(chunks, places, frames, stack1, locals1)
<1> DEFINE f == Last(frames)
           i == Instr(chunks, frames)
           d == Len(stack) - f.sbase
           left == d - Takes(i) + Leaves(i)
<1>1. /\ f.pc \in Nat /\ f.sbase \in Nat /\ Len(stack) \in Nat /\ Takes(i) \in 0..d
      /\ Takes(i) \in 0..Len(stack) /\ f.sbase <= Len(stack) - Takes(i)
      /\ \A q \in After(chunks[f.chunk], <<f.pc - 1, d>>) : <<f.chunk, q[1], q[2]>> \in places
  BY MidwayFacts
<1>2. Leaves(i) \in {0, 1}
  BY DEF Leaves
<1>3. i = chunks[f.chunk].code[f.pc - 1] /\ f.pc - 1 + 1 = f.pc
  BY <1>1 DEF Instr
<1>4. <<f.pc, left>> \in After(chunks[f.chunk], <<f.pc - 1, d>>)
  BY <1>3 DEF After
<1>5. <<f.chunk, f.pc, left>> \in places
  BY <1>1, <1>4
<1>6. left = Len(stack1) - f.sbase /\ f.sbase <= Len(stack1)
  <2>1. Len(stack1) = Len(stack) - Takes(i) + Leaves(i)
    OBVIOUS
  <2>2. Takes(i) \in Int /\ Leaves(i) \in Nat
    BY <1>1, <1>2
  <2> HIDE DEF f, i
  <2> QED
    BY <1>1, <2>1, <2>2
<1>7. Framed(chunks, places, frames, stack1, locals1)
  BY <1>6, Refilled DEF Midway
<1> QED
  BY <1>5, <1>6, <1>7 DEF Ready

\* The same, by a jump.
LEMMA Jumped ==
  ASSUME NEW chunks, NEW places, Verified(chunks, places),
         NEW frames, NEW stack, NEW locals, Midway(chunks, places, frames, stack, locals),
         NEW pc, NEW stack1, IsSeq(stack1), Len(stack1) \in Nat,
         Last(frames).sbase <= Len(stack1),
         <<pc, Len(stack1) - Last(frames).sbase>>
           \in After(chunks[Last(frames).chunk], <<Last(frames).pc - 1, Len(stack) - Last(frames).sbase>>)
  PROVE  Ready(chunks, places, Onwards(frames, pc), stack1, locals)
<1> DEFINE f == Last(frames)
           d == Len(stack) - f.sbase
           d1 == Len(stack1) - f.sbase
           g == Onwards(frames, pc)
<1>1. /\ Framed(chunks, places, frames, stack, locals) /\ IsSeq(locals)
      /\ \A q \in After(chunks[f.chunk], <<f.pc - 1, d>>) : <<f.chunk, q[1], q[2]>> \in places
  BY MidwayFacts
<1>2. <<pc, d1>> \in After(chunks[f.chunk], <<f.pc - 1, d>>)
  OBVIOUS
<1>3. <<f.chunk, pc, d1>> \in places
  <2> HIDE DEF f, d, d1
  <2> QED
    BY <1>1, <1>2
<1>4. pc \in Nat
  <2> HIDE DEF f, d1
  <2> QED
    BY <1>3, PlaceFacts
<1>5. Framed(chunks, places, frames, stack1, locals)
  BY <1>1, Refilled
<1>6. Framed(chunks, places, g, stack1, locals) /\ Last(g).chunk = f.chunk /\ Last(g).pc = pc /\ Last(g).sbase = f.sbase
  BY <1>4, <1>5, Moved
<1> HIDE DEF f, g
<1> QED
  BY <1>3, <1>6 DEF Ready, g

-----------------------------------------------------------------------------
(***************************************************************************)
(* Errors, returns and calls.                                              *)
(***************************************************************************)
\* Whatever fails, the frame that catches it goes on with the error as its
\* only operand, and with its own variables.
LEMMA CaughtIn ==
  ASSUME NEW chunks, NEW places, Verified(chunks, places),
         NEW frames, NEW stack, NEW locals, Midway(chunks, places, frames, stack, locals),
         NEW k \in 1..Len(frames), Covering(chunks[frames[k].chunk], frames[k].pc - 1) # {}, NEW v
  PROVE  Ready(chunks, places, Onwards(SubSeq(frames, 1, k), FindHandler(chunks[frames[k].chunk], frames[k].pc - 1).catch),
               Append(SubSeq(stack, 1, frames[k].sbase), v),
               IF k < Len(frames) THEN SubSeq(locals, 1, frames[k + 1].lbase) ELSE locals)
<1> DEFINE L == Len(frames)
           f == frames[k]
           pc == FindHandler(chunks[f.chunk], f.pc - 1).catch
           stack1 == Append(SubSeq(stack, 1, f.sbase), v)
           locals1 == IF k < L THEN SubSeq(locals, 1, frames[k + 1].lbase) ELSE locals
           rest == SubSeq(frames, 1, k)
<1>1. Framed(chunks, places, frames, stack, locals)
  BY DEF Midway
<1>2. /\ L \in Nat \ {0} /\ DOMAIN frames = 1..L /\ \A j \in 1..L : frames[j] \in Frame(chunks)
      /\ Last(frames) = frames[L] /\ Len(stack) \in Nat /\ Len(locals) \in Nat
      /\ IsSeq(stack) /\ IsSeq(locals)
  BY <1>1, FramedFacts
<1>3. f.chunk \in DOMAIN chunks /\ f.pc \in Nat /\ f.lbase \in Nat /\ f.sbase \in Nat
  BY <1>2, FrameFacts
<1>4. \E d : <<f.chunk, f.pc - 1, d>> \in places
  <2>1. CASE k = L
    BY <1>2, <2>1 DEF Midway
  <2>2. CASE k # L
    <3>1. k \in 1..L - 1
      <4>1. k \in 1..L /\ L \in Nat
        BY <1>2
      <4> HIDE DEF L
      <4> QED
        BY <2>2, <4>1
    <3>2. Called(chunks, places, f, frames[k + 1])
      BY <1>1, <3>1 DEF Framed
    <3>3. PICK p \in places : p[1] = f.chunk /\ p[2] = f.pc - 1
      BY <3>2 DEF Called
    <3>4. p = <<p[1], p[2], p[3]>>
      BY DEF Verified
    <3> HIDE DEF f
    <3>5. <<f.chunk, f.pc - 1, p[3]>> \in places
      BY <3>3, <3>4
    <3> QED
      BY <3>5
  <2> QED
    BY <2>1, <2>2
<1>5. <<f.chunk, pc, 1>> \in places /\ pc \in Nat
  <2>1. PICK d : <<f.chunk, f.pc - 1, d>> \in places
    BY <1>4
  <2>2. Covering(chunks[f.chunk], f.pc - 1) # {}
    OBVIOUS
  <2>3. <<f.chunk, pc, 1>> \in places
    <3> HIDE DEF f
    <3> QED
      BY <2>1, <2>2, CatchPlace
  <2>4. pc \in Nat
    <3> HIDE DEF f, pc
    <3> QED
      BY <2>3, PlaceFacts
  <2> QED
    BY <2>3, <2>4
<1>6. IsSeq(stack1) /\ Len(stack1) = f.sbase + 1
  <2>1. f.sbase <= frames[L].sbase /\ frames[L].sbase <= Len(stack)
    BY <1>1, <1>2 DEF Framed
  <2>2. frames[L].sbase \in Nat
    BY <1>2, FrameFacts
  <2>3. f.sbase <= Len(stack)
    BY <1>2, <1>3, <2>1, <2>2, Transitive
  <2>4. f.sbase \in 0..Len(stack)
    BY <1>2, <1>3, <2>3
  <2> HIDE DEF f
  <2>5. IsSeq(SubSeq(stack, 1, f.sbase)) /\ Len(SubSeq(stack, 1, f.sbase)) = f.sbase
    BY <1>2, <2>4, Cut
  <2> QED
    BY <2>5, Pushed
<1>7. IsSeq(locals1) /\ Len(locals1) = f.lbase + chunks[f.chunk].num
  <2>1. Len(locals) = frames[L].lbase + chunks[frames[L].chunk].num
    BY <1>1, <1>2 DEF Framed
  <2>2. CASE k = L
    BY <1>2, <2>1, <2>2
  <2>3. CASE k # L
    <3>1. k \in 1..L - 1 /\ k + 1 \in 1..L /\ L \in 1..L /\ k < L /\ k + 1 <= L
      <4>1. k \in 1..L /\ L \in Nat
        BY <1>2
      <4> HIDE DEF L
      <4> QED
        BY <2>3, <4>1
    <3>2. Called(chunks, places, f, frames[k + 1])
      BY <1>1, <3>1 DEF Framed
    <3>3. frames[k + 1].lbase = f.lbase + chunks[f.chunk].num
      BY <3>2 DEF Called
    <3>4. frames[k + 1].lbase <= frames[L].lbase
      BY <1>1, <3>1 DEF Framed
    <3>5. frames[k + 1].lbase \in Nat /\ frames[L].lbase \in Nat /\ frames[L].chunk \in DOMAIN chunks
      BY <1>2, <3>1, FrameFacts
    <3>6. chunks[frames[L].chunk].num \in Nat
      BY <3>5 DEF Verified
    <3>7. frames[L].lbase <= Len(locals)
      BY <2>1, <3>5, <3>6
    <3>8. frames[k + 1].lbase <= Len(locals)
      BY <1>2, <3>4, <3>5, <3>7, Transitive
    <3>9. frames[k + 1].lbase \in 0..Len(locals)
      BY <1>2, <3>5, <3>8
    <3>10. IsSeq(SubSeq(locals, 1, frames[k + 1].lbase))
           /\ Len(SubSeq(locals, 1, frames[k + 1].lbase)) = frames[k + 1].lbase
      BY <1>2, <3>9, Cut
    <3>11. locals1 = SubSeq(locals, 1, frames[k + 1].lbase)
      BY <3>1
    <3> QED
      BY <3>3, <3>10, <3>11
  <2> QED
    BY <2>2, <2>3
<1>8. f.sbase <= Len(stack1)
  <2> HIDE DEF stack1, f
  <2> QED
    BY <1>3, <1>6
<1>9. Framed(chunks, places, rest, stack1, locals1) /\ Last(rest) = f
  <2> HIDE DEF stack1, locals1
  <2> QED
    BY <1>1, <1>6, <1>7, <1>8, Uncovered
<1> HIDE DEF pc, stack1, locals1, rest, f
<1>10. /\ Framed(chunks, places, Onwards(rest, pc), stack1, locals1)
       /\ Last(Onwards(rest, pc)).chunk = f.chunk /\ Last(Onwards(rest, pc)).pc = pc
       /\ Last(Onwards(rest, pc)).sbase = f.sbase
  BY <1>5, <1>9, Moved
<1>11. Len(stack1) - Last(Onwards(rest, pc)).sbase = 1
  BY <1>3, <1>6, <1>10
<1>12. Ready(chunks, places, Onwards(rest, pc), stack1, locals1)
  BY <1>5, <1>10, <1>11 DEF Ready
<1> QED
  BY <1>12 DEF pc, stack1, locals1, rest, f

\* The caller goes on with the result.
LEMMA ReturnedTo ==
  ASSUME NEW chunks, NEW places, Verified(chunks, places),
         NEW frames, NEW stack, NEW locals, Framed(chunks, places, frames, stack, locals),
         Front(frames) # <<>>, NEW v
  PROVE  Ready(chunks, places, Front(frames), Append(SubSeq(stack, 1, Last(frames).sbase), v),
               SubSeq(locals, 1, Last(frames).lbase))
<1> DEFINE L == Len(frames)
           k == L - 1
           f == frames[k]
           g == frames[L]
           stack1 == Append(SubSeq(stack, 1, g.sbase), v)
           locals1 == SubSeq(locals, 1, g.lbase)
           rest == SubSeq(frames, 1, k)
<1>1. /\ L \in Nat \ {0} /\ \A j \in 1..L : frames[j] \in Frame(chunks)
      /\ Last(frames) = g /\ Len(stack) \in Nat /\ Len(locals) \in Nat
      /\ IsSeq(stack) /\ IsSeq(locals)
  BY FramedFacts
<1>2. Front(frames) = rest
  BY DEF Front
<1>3. L # 1
  <2> SUFFICES ASSUME L = 1 PROVE FALSE
    OBVIOUS
  <2>1. SubSeq(frames, 1, 0) = <<>>
    BY SubSeqEmpty
  <2> QED
    BY <1>2, <2>1
<1>4. k \in 1..L /\ k \in 1..L - 1 /\ k + 1 = L /\ k <= L
  <2>1. L \in Nat \ {0}
    BY <1>1
  <2> HIDE DEF L
  <2> QED
    BY <1>3, <2>1
<1>5. /\ f.chunk \in DOMAIN chunks /\ f.lbase \in Nat /\ f.sbase \in Nat
      /\ g.chunk \in DOMAIN chunks /\ g.lbase \in Nat /\ g.sbase \in Nat
  <2>1. f \in Frame(chunks) /\ g \in Frame(chunks)
    BY <1>1, <1>4
  <2> HIDE DEF f, g
  <2> QED
    BY <2>1, FrameFacts
<1>6. Called(chunks, places, f, g)
  BY <1>4 DEF Framed
<1>7. f.sbase <= g.sbase /\ g.sbase <= Len(stack) /\ Len(locals) = g.lbase + chunks[g.chunk].num
  BY <1>1, <1>4 DEF Framed
<1>8. g.sbase \in 0..Len(stack) /\ g.lbase \in 0..Len(locals)
  <2>1. chunks[g.chunk].num \in Nat
    BY <1>5 DEF Verified
  <2> HIDE DEF g
  <2> QED
    BY <1>1, <1>5, <1>7, <2>1
<1>9. IsSeq(stack1) /\ Len(stack1) = g.sbase + 1
  <2> HIDE DEF g
  <2>1. IsSeq(SubSeq(stack, 1, g.sbase)) /\ Len(SubSeq(stack, 1, g.sbase)) = g.sbase
    BY <1>1, <1>8, Cut
  <2> QED
    BY <2>1, Pushed
<1>10. IsSeq(locals1) /\ Len(locals1) = g.lbase
  <2> HIDE DEF g
  <2> QED
    BY <1>1, <1>8, Cut
<1>11. Len(locals1) = f.lbase + chunks[f.chunk].num
  BY <1>6, <1>10 DEF Called
<1>12. f.sbase <= Len(stack1)
  <2> HIDE DEF f, g, stack1
  <2> QED
    BY <1>5, <1>7, <1>9
<1>13. Framed(chunks, places, rest, stack1, locals1) /\ Last(rest) = f
  <2>1. k \in 1..Len(frames)
    BY <1>4
  <2> HIDE DEF stack1, locals1, k
  <2> QED
    BY <2>1, <1>9, <1>10, <1>11, <1>12, Uncovered
<1>14. <<f.chunk, f.pc, Len(stack1) - f.sbase>> \in places
  <2>1. <<f.chunk, f.pc, g.sbase - f.sbase + 1>> \in places
    BY <1>6 DEF Called
  <2>2. g.sbase - f.sbase + 1 = Len(stack1) - f.sbase
    <3> HIDE DEF f, g, stack1
    <3> QED
      BY <1>5, <1>9
  <2> QED
    BY <2>1, <2>2
<1> HIDE DEF f, stack1, locals1, rest
<1>15. Ready(chunks, places, rest, stack1, locals1)
  BY <1>13, <1>14 DEF Ready
<1> QED
  BY <1>1, <1>2, <1>15 DEF stack1, locals1

\* The function that is called starts at its first instruction, without
\* operands.
LEMMA EnteredFrom ==
  ASSUME NEW chunks, NEW places, Verified(chunks, places),
         NEW frames, NEW stack, NEW locals, Midway(chunks, places, frames, stack, locals),
         Instr(chunks, frames).op = "CallFunction",
         NEW id, id = Instr(chunks, frames).arg[1],
         NEW argc, argc = Instr(chunks, frames).arg[2],
         NEW stack1, IsSeq(stack1), Len(stack1) = Len(stack) - argc,
         NEW locals1, IsSeq(locals1), Len(locals1) = Len(locals) + chunks[id].num
  PROVE  Ready(chunks, places,
               Append(frames, [chunk |-> id, pc |-> 1, lbase |-> Len(locals), sbase |-> Len(stack) - argc]),
               stack1, locals1)
<1> DEFINE f == Last(frames)
           i == Instr(chunks, frames)
           d == Len(stack) - f.sbase
           g == [chunk |-> id, pc |-> 1, lbase |-> Len(locals), sbase |-> Len(stack) - argc]
<1>1. /\ Framed(chunks, places, frames, stack, locals)
      /\ f.chunk \in DOMAIN chunks /\ chunks[f.chunk].num \in Nat
      /\ f.pc \in Nat /\ f.sbase \in Nat /\ f.lbase \in Nat
      /\ Len(stack) \in Nat /\ Len(locals) \in Nat /\ d \in Nat
      /\ Len(locals) = f.lbase + chunks[f.chunk].num
      /\ Takes(i) \in 0..d /\ Takes(i) \in 0..Len(stack) /\ f.sbase <= Len(stack) - Takes(i)
      /\ Finds(chunks, f.chunk, f.pc - 1, d)
      /\ \A q \in After(chunks[f.chunk], <<f.pc - 1, d>>) : <<f.chunk, q[1], q[2]>> \in places
  BY MidwayFacts
<1>2. Takes(i) = argc /\ Leaves(i) = 1
  BY DEF Takes, Leaves, GenericOf
<1>3. id \in DOMAIN chunks
  BY <1>1 DEF Finds, Instr
<1>4. argc \in Nat /\ Len(stack) - argc \in Nat /\ f.sbase <= Len(stack) - argc
  <2> HIDE DEF f, d, i
  <2> QED
    BY <1>1, <1>2
<1>5. /\ g \in Frame(chunks) /\ g.chunk = id /\ g.pc = 1 /\ g.lbase = Len(locals) /\ g.sbase = Len(stack) - argc
  BY <1>1, <1>3, <1>4 DEF Frame
<1>6. <<f.pc, d - argc + 1>> \in After(chunks[f.chunk], <<f.pc - 1, d>>)
  <2>1. i = chunks[f.chunk].code[f.pc - 1]
    BY DEF Instr
  <2>0. f.pc - 1 + 1 = f.pc
    <3> HIDE DEF f
    <3> QED
      BY <1>1
  <2> HIDE DEF i, f, d
  <2>2. i.op = "CallFunction"
    BY DEF i
  <2>3. <<f.pc, d - argc + 1>> = <<f.pc - 1 + 1, d - Takes(i) + Leaves(i)>>
    BY <1>2, <2>0
  <2> QED
    BY <2>1, <2>2, <2>3 DEF After
<1>7. <<f.chunk, f.pc, d - argc + 1>> \in places
  BY <1>1, <1>6
<1> HIDE DEF g
<1>8. d - argc + 1 = g.sbase - f.sbase + 1
  <2>1. g.sbase = Len(stack) - argc
    BY <1>5
  <2>2. (Len(stack) - f.sbase) - argc + 1 = (Len(stack) - argc) - f.sbase + 1
    BY <1>1, <1>4, Differences
  <2> QED
    BY <2>1, <2>2
<1>9. \E p \in places : p[1] = f.chunk /\ p[2] = f.pc - 1
  <2>1. <<f.chunk, f.pc - 1, d>> \in places
    BY DEF Midway
  <2> HIDE DEF f, d
  <2> QED
    BY <2>1
<1>10. Called(chunks, places, f, g)
  <2> HIDE DEF f, d
  <2> QED
    BY <1>1, <1>5, <1>7, <1>8, <1>9 DEF Called
<1>11. g.sbase <= Len(stack1) /\ Len(stack1) - g.sbase = 0 /\ f.sbase <= g.sbase
  <2> HIDE DEF f
  <2> QED
    BY <1>4, <1>5
<1>12. Len(locals1) = g.lbase + chunks[g.chunk].num
  BY <1>5
<1>13. Framed(chunks, places, Append(frames, g), stack1, locals1) /\ Last(Append(frames, g)) = g
  BY <1>1, <1>5, <1>10, <1>11, <1>12, Covered
<1>14. <<g.chunk, g.pc, Len(stack1) - g.sbase>> \in places
  BY <1>3, <1>5, <1>11, EntryPlace
<1>15. Ready(chunks, places, Append(frames, g), stack1, locals1)
  BY <1>13, <1>14 DEF Ready
<1> QED
  BY <1>15 DEF g

-----------------------------------------------------------------------------
(***************************************************************************)
(* Machines.                                                               *)
(***************************************************************************)
Amid(chunks, places, m) ==
  /\ Registers \subseteq DOMAIN m /\ m.status = "run"
  /\ Midway(chunks, places, m.frames, m.stack, m.locals)

\* The same machine, but for its operands, or for nothing the layout is about.
Kept(m, n) == n.frames = m.frames /\ n.locals = m.locals /\ n.status = m.status /\ Registers \subseteq DOMAIN n

LEMMA RunsReady ==
  ASSUME NEW chunks, NEW places, NEW n, Registers \subseteq DOMAIN n, n.status = "run",
         NEW frames, n.frames = frames, NEW stack, n.stack = stack, NEW locals, n.locals = locals,
         Ready(chunks, places, frames, stack, locals)
  PROVE  Laid(chunks, places, n)
BY DEF Ready, Laid

LEMMA WorldApart ==
  ASSUME NEW m, Registers \subseteq DOMAIN m, NEW w
  PROVE  Kept(m, [m EXCEPT !.w = w]) /\ [m EXCEPT !.w = w].stack = m.stack
BY DEF Registers, Kept

LEMMA StepsApart ==
  ASSUME NEW m, Registers \subseteq DOMAIN m, NEW n
  PROVE  Kept(m, [m EXCEPT !.steps = n]) /\ [m EXCEPT !.steps = n].stack = m.stack
BY DEF Registers, Kept

LEMMA PushFacts ==
  ASSUME NEW m, Registers \subseteq DOMAIN m, IsSeq(m.stack), NEW v
  PROVE  Kept(m, Push(m, v)) /\ IsSeq(Push(m, v).stack) /\ Len(Push(m, v).stack) = Len(m.stack) + 1
<1>1. Kept(m, Push(m, v)) /\ Push(m, v).stack = Append(m.stack, v)
  BY DEF Push, Registers, Kept
<1> QED
  BY <1>1, Pushed

LEMMA DropFacts ==
  ASSUME NEW m, Registers \subseteq DOMAIN m, IsSeq(m.stack), NEW n \in 0..Len(m.stack)
  PROVE  Kept(m, Drop(m, n)) /\ IsSeq(Drop(m, n).stack) /\ Len(Drop(m, n).stack) = Len(m.stack) - n
<1>1. Kept(m, Drop(m, n)) /\ Drop(m, n).stack = SubSeq(m.stack, 1, Len(m.stack) - n)
  BY DEF Drop, Registers, Kept
<1>2. Len(m.stack) \in Nat
  BY SeqLength
<1>3. Len(m.stack) - n \in 0..Len(m.stack)
  BY <1>2
<1>4. /\ IsSeq(SubSeq(m.stack, 1, Len(m.stack) - n))
      /\ Len(SubSeq(m.stack, 1, Len(m.stack) - n)) = Len(m.stack) - n
  BY <1>3, Cut
<1> QED
  BY <1>1, <1>4

LEMMA GotoFacts ==
  ASSUME NEW m, Registers \subseteq DOMAIN m, NEW pc
  PROVE  /\ Goto(m, pc).frames = Onwards(m.frames, pc)
         /\ Goto(m, pc).stack = m.stack /\ Goto(m, pc).locals = m.locals /\ Goto(m, pc).status = m.status
         /\ Registers \subseteq DOMAIN Goto(m, pc)
BY DEF Goto, Onwards, Registers

\* Whatever has failed, the machine is at a place again or it has stopped.
LEMMA Raised ==
  ASSUME NEW chunks, NEW places, Verified(chunks, places), NEW m, Amid(chunks, places, m), NEW message
  PROVE  Laid(chunks, places, Raise(chunks, m, message))
<1> DEFINE C == Catching(chunks, m)
           n == Raise(chunks, m, message)
<1>1. Registers \subseteq DOMAIN m /\ m.status = "run" /\ Midway(chunks, places, m.frames, m.stack, m.locals)
  BY DEF Amid
<1>2. Len(m.frames) \in Nat /\ DOMAIN m.frames = 1..Len(m.frames)
  BY <1>1, FramedFacts DEF Midway
<1>3. CASE C = {}
  <2>1. n = [m EXCEPT !.frames = <<>>, !.stack = <<>>, !.locals = <<>>, !.status = "error", !.value = message]
    BY <1>3 DEF Raise
  <2>2. n.frames = <<>> /\ n.status = "error" /\ DOMAIN n = DOMAIN m
    <3> HIDE DEF n
    <3> QED
      BY <1>1, <2>1 DEF Registers
  <2> HIDE DEF n
  <2>3. Laid(chunks, places, n)
    BY <1>1, <2>2 DEF Laid
  <2> QED
    BY <2>3 DEF n
<1>4. CASE C # {}
  <2> DEFINE k == Max(C)
             f == m.frames[k]
             h == FindHandler(chunks[f.chunk], f.pc - 1).catch
             err == Alloc(m.w, << <<"message", Str(message)>> >>, "Dict")
             u == Unwind(m, k)
             stack1 == Append(SubSeq(m.stack, 1, f.sbase), err.v)
             c == [u EXCEPT !.stack = Append(ResizeTo(@, f.sbase), err.v), !.w = err.w, !.steps = 0]
             locals1 == IF k < Len(m.frames) THEN SubSeq(m.locals, 1, m.frames[k + 1].lbase) ELSE m.locals
  <2>1. C \subseteq 1..Len(m.frames)
    BY <1>2 DEF Catching
  <2>2. k \in C
    <3> HIDE DEF C
    <3> QED
      BY <1>2, <1>4, <2>1, GreatestNatural
  <2>3. k \in 1..Len(m.frames) /\ Covering(chunks[f.chunk], f.pc - 1) # {}
    BY <2>1, <2>2 DEF Catching
  <2>4. n = Goto(c, h)
    BY <1>4 DEF Raise, Catch
  <2>5. /\ u.frames = SubSeq(m.frames, 1, k) /\ u.locals = locals1 /\ u.stack = m.stack
        /\ u.status = m.status /\ DOMAIN u = DOMAIN m
    <3> HIDE DEF k
    <3> QED
      BY <1>1 DEF Unwind, ResizeTo, Registers
  <2>6. /\ c.frames = SubSeq(m.frames, 1, k) /\ c.locals = locals1 /\ c.stack = stack1
        /\ c.status = "run" /\ Registers \subseteq DOMAIN c
    <3> HIDE DEF k, u, err, f, locals1
    <3> QED
      BY <1>1, <2>5 DEF ResizeTo, Registers
  <2>7. Ready(chunks, places, Onwards(SubSeq(m.frames, 1, k), h), stack1, locals1)
    <3> HIDE DEF k, err
    <3> QED
      BY <1>1, <2>3, CaughtIn
  <2> HIDE DEF n, c, h, stack1, locals1, k
  <2>8. /\ n.frames = Onwards(SubSeq(m.frames, 1, k), h) /\ n.stack = stack1 /\ n.locals = locals1
        /\ n.status = "run" /\ Registers \subseteq DOMAIN n
    BY <2>4, <2>6, GotoFacts
  <2>9. Laid(chunks, places, n)
    BY <2>7, <2>8, RunsReady
  <2> QED
    BY <2>9 DEF n
<1> QED
  BY <1>3, <1>4

\* Whatever is returned, the caller is at its place, or the machine is done.
LEMMA Left ==
  ASSUME NEW chunks, NEW places, Verified(chunks, places), NEW m, Registers \subseteq DOMAIN m, m.status = "run",
         Framed(chunks, places, m.frames, m.stack, m.locals), NEW v
  PROVE  Laid(chunks, places, Leave(m, v))
<1> DEFINE f == Last(m.frames)
           rest == Front(m.frames)
           n == Leave(m, v)
<1>1. CASE rest = <<>>
  <2>1. n = [m EXCEPT !.frames = rest, !.status = "done", !.value = v]
    BY <1>1 DEF Leave
  <2>2. n.frames = <<>> /\ n.status = "done" /\ DOMAIN n = DOMAIN m
    <3> HIDE DEF n, rest
    <3> QED
      BY <1>1, <2>1 DEF Registers
  <2> HIDE DEF n
  <2>3. Laid(chunks, places, n)
    BY <2>2 DEF Laid
  <2> QED
    BY <2>3 DEF n
<1>2. CASE rest # <<>>
  <2> DEFINE stack1 == Append(SubSeq(m.stack, 1, f.sbase), v)
             locals1 == SubSeq(m.locals, 1, f.lbase)
  <2>1. n = [m EXCEPT !.frames = rest, !.stack = Append(ResizeTo(@, f.sbase), v), !.locals = ResizeTo(@, f.lbase)]
    BY <1>2 DEF Leave
  <2>2. n.frames = rest /\ n.status = "run" /\ Registers \subseteq DOMAIN n /\ n.stack = stack1 /\ n.locals = locals1
    <3> HIDE DEF n, rest, f
    <3> QED
      BY <2>1 DEF Registers, ResizeTo
  <2>3. Ready(chunks, places, rest, stack1, locals1)
    BY <1>2, ReturnedTo
  <2> HIDE DEF n, rest, stack1, locals1
  <2>4. Laid(chunks, places, n)
    BY <2>2, <2>3, RunsReady
  <2> QED
    BY <2>4 DEF n
<1> QED
  BY <1>1, <1>2

\* Nothing but the operands changes, and there are as many as the next place
\* asks for.
LEMMA Went ==
  ASSUME NEW chunks, NEW places, Verified(chunks, places), NEW m, Amid(chunks, places, m),
         NEW i, i = Instr(chunks, m.frames), i.op \notin {"Return", "ReturnNull", "Jump"},
         NEW n, Kept(m, n), IsSeq(n.stack), Len(n.stack) = Len(m.stack) - Takes(i) + Leaves(i)
  PROVE  Laid(chunks, places, n)
<1>1. Registers \subseteq DOMAIN m /\ m.status = "run" /\ Midway(chunks, places, m.frames, m.stack, m.locals)
  BY DEF Amid
<1>2. n.frames = m.frames /\ n.locals = m.locals /\ n.status = "run" /\ Registers \subseteq DOMAIN n
  BY <1>1 DEF Kept
<1>3. IsSeq(m.locals)
  BY <1>1, MidwayFacts
<1>4. Ready(chunks, places, m.frames, n.stack, m.locals)
  BY <1>1, <1>3, Advanced
<1> QED
  BY <1>2, <1>4, RunsReady

\* A value takes the place of the operands, or it is an error.
LEMMA Resulted ==
  ASSUME NEW chunks, NEW places, Verified(chunks, places), NEW m, Amid(chunks, places, m),
         NEW i, i = Instr(chunks, m.frames), i.op \notin {"Return", "ReturnNull", "Jump"}, Leaves(i) = 1,
         NEW v
  PROVE  /\ Laid(chunks, places, Push(Drop(m, Takes(i)), v))
         /\ Laid(chunks, places, Result(chunks, m, Takes(i), v))
<1> DEFINE k == Takes(i)
           n == Push(Drop(m, k), v)
<1>1. Registers \subseteq DOMAIN m /\ IsSeq(m.stack) /\ Len(m.stack) \in Nat /\ k \in 0..Len(m.stack)
  BY MidwayFacts DEF Amid
<1>2. Kept(m, Drop(m, k)) /\ IsSeq(Drop(m, k).stack) /\ Len(Drop(m, k).stack) = Len(m.stack) - k
  <2> HIDE DEF k
  <2> QED
    BY <1>1, DropFacts
<1>3. Kept(Drop(m, k), n) /\ IsSeq(n.stack) /\ Len(n.stack) = Len(m.stack) - k + 1
  <2>1. Registers \subseteq DOMAIN Drop(m, k)
    BY <1>2 DEF Kept
  <2> HIDE DEF k
  <2> QED
    BY <1>2, <2>1, PushFacts
<1>4. Kept(m, n)
  BY <1>2, <1>3 DEF Kept
<1>5. Laid(chunks, places, n)
  <2>1. Len(n.stack) = Len(m.stack) - Takes(i) + Leaves(i)
    BY <1>3
  <2> HIDE DEF n, k
  <2> QED
    BY <1>3, <1>4, <2>1, Went
<1>6. CASE IsA(v, "error")
  <2>1. Laid(chunks, places, Raise(chunks, m, v[2]))
    BY Raised
  <2> QED
    BY <1>5, <1>6, <2>1 DEF Result
<1>7. CASE ~IsA(v, "error")
  BY <1>5, <1>7 DEF Result
<1> QED
  BY <1>6, <1>7

LEMMA CameOut ==
  ASSUME NEW chunks, NEW places, Verified(chunks, places), NEW m, Amid(chunks, places, m),
         NEW i, i = Instr(chunks, m.frames), i.op \notin {"Return", "ReturnNull", "Jump"}, Leaves(i) = 1,
         NEW call
  PROVE  Laid(chunks, places, Outcome(chunks, m, Takes(i), call))
<1> DEFINE n == [m EXCEPT !.w = call.w]
<1>1. Kept(m, n) /\ n.stack = m.stack
  BY WorldApart DEF Amid
<1> HIDE DEF n
<1>2. Amid(chunks, places, n) /\ n.frames = m.frames
  BY <1>1 DEF Amid, Kept
<1>3. i = Instr(chunks, n.frames)
  BY <1>2
<1>4. Laid(chunks, places, Result(chunks, n, Takes(i), call.v))
  BY <1>2, <1>3, Resulted
<1> QED
  BY <1>4 DEF Outcome, n

\* An operand goes, as it does when the condition of a jump is looked at, or
\* when it becomes a variable.
LEMMA Dropped ==
  ASSUME NEW chunks, NEW places, Verified(chunks, places), NEW m, Amid(chunks, places, m),
         NEW i, i = Instr(chunks, m.frames), Takes(i) = 1, Leaves(i) = 0, i.op \notin {"Return", "ReturnNull", "Jump"}
  PROVE  /\ Laid(chunks, places, Drop(m, 1))
         /\ \A slot, v : Laid(chunks, places, [Drop(m, 1) EXCEPT !.locals[slot] = v])
<1>0. /\ Registers \subseteq DOMAIN m /\ IsSeq(m.stack) /\ Len(m.stack) \in Nat /\ Takes(i) \in 0..Len(m.stack)
      /\ IsSeq(m.locals) /\ m.status = "run" /\ Midway(chunks, places, m.frames, m.stack, m.locals)
  BY MidwayFacts DEF Amid
<1>1. /\ Registers \subseteq DOMAIN m /\ IsSeq(m.stack) /\ Len(m.stack) \in Nat /\ 1 \in 0..Len(m.stack)
      /\ IsSeq(m.locals) /\ m.status = "run" /\ Midway(chunks, places, m.frames, m.stack, m.locals)
  BY <1>0
<1>2. Kept(m, Drop(m, 1)) /\ IsSeq(Drop(m, 1).stack) /\ Len(Drop(m, 1).stack) = Len(m.stack) - 1
  BY <1>1, DropFacts
<1>3. Len(Drop(m, 1).stack) = Len(m.stack) - Takes(i) + Leaves(i)
  BY <1>1, <1>2
<1>4. Laid(chunks, places, Drop(m, 1))
  BY <1>2, <1>3, Went
<1>5. ASSUME NEW slot, NEW v
      PROVE  Laid(chunks, places, [Drop(m, 1) EXCEPT !.locals[slot] = v])
  <2> DEFINE d == Drop(m, 1)
             n == [d EXCEPT !.locals[slot] = v]
             locals1 == [m.locals EXCEPT ![slot] = v]
  <2>1. d.locals = m.locals /\ d.frames = m.frames /\ d.status = m.status /\ Registers \subseteq DOMAIN d
    BY <1>2 DEF Kept
  <2>2. IsSeq(locals1) /\ Len(locals1) = Len(m.locals)
    BY <1>1, Changed
  <2>3. IsSeq(d.stack) /\ Len(d.stack) = Len(m.stack) - Takes(i) + Leaves(i)
    BY <1>2, <1>3
  <2> HIDE DEF d, locals1
  <2>4. Ready(chunks, places, m.frames, d.stack, locals1)
    BY <1>1, <2>2, <2>3, Advanced
  <2>5. n.frames = m.frames /\ n.stack = d.stack /\ n.status = "run" /\ Registers \subseteq DOMAIN n
    BY <1>1, <2>1 DEF Registers
  <2>6. n.locals = locals1
    BY <2>1 DEF Registers, locals1
  <2> HIDE DEF n
  <2>7. Laid(chunks, places, n)
    BY <2>4, <2>5, <2>6, RunsReady
  <2> QED
    BY <2>7 DEF n, d
<1> QED
  BY <1>4, <1>5

\* A jump, with the operands that the place it goes to asks for.
LEMMA WentTo ==
  ASSUME NEW chunks, NEW places, Verified(chunks, places), NEW m, Amid(chunks, places, m),
         NEW pc, NEW d \in Nat,
         <<pc, d>> \in After(chunks[Last(m.frames).chunk], <<Last(m.frames).pc - 1, Len(m.stack) - Last(m.frames).sbase>>),
         NEW n, n.frames = Onwards(m.frames, pc), n.locals = m.locals, n.status = "run", Registers \subseteq DOMAIN n,
         IsSeq(n.stack), Len(n.stack) = Last(m.frames).sbase + d
  PROVE  Laid(chunks, places, n)
<1> DEFINE f == Last(m.frames)
           stack1 == n.stack
<1>1. Midway(chunks, places, m.frames, m.stack, m.locals) /\ f.sbase \in Nat
  BY MidwayFacts DEF Amid
<1>2. Len(stack1) \in Nat /\ Len(stack1) - f.sbase = d /\ f.sbase <= Len(stack1) /\ IsSeq(stack1)
  <2>1. Len(stack1) = f.sbase + d /\ IsSeq(stack1)
    OBVIOUS
  <2> HIDE DEF f, stack1
  <2> QED
    BY <1>1, <2>1
<1>3. <<pc, Len(stack1) - f.sbase>> \in After(chunks[f.chunk], <<f.pc - 1, Len(m.stack) - f.sbase>>)
  BY <1>2
<1>4. Ready(chunks, places, Onwards(m.frames, pc), stack1, m.locals)
  <2> HIDE DEF stack1
  <2> QED
    BY <1>1, <1>2, <1>3, Jumped
<1> DEFINE frames1 == Onwards(m.frames, pc)
<1>5. n.frames = frames1 /\ n.stack = stack1 /\ n.locals = m.locals
  OBVIOUS
<1> HIDE DEF frames1, stack1
<1> QED
  BY <1>4, <1>5, RunsReady DEF frames1, stack1

\* A value is pushed.
LEMMA Loads ==
  ASSUME NEW chunks, NEW places, Verified(chunks, places), NEW m, Amid(chunks, places, m),
         NEW i, i = Instr(chunks, m.frames), i.op \in {"Const", "LoadLocal"}, NEW v
  PROVE  Laid(chunks, places, Push(m, v))
<1> DEFINE n == Push(m, v)
<1>1. Registers \subseteq DOMAIN m /\ IsSeq(m.stack) /\ Len(m.stack) \in Nat
  BY MidwayFacts DEF Amid
<1>2. Kept(m, n) /\ IsSeq(n.stack) /\ Len(n.stack) = Len(m.stack) + 1
  BY <1>1, PushFacts
<1>3. Takes(i) = 0 /\ Leaves(i) = 1
  BY DEF Takes, Leaves, GenericOf
<1>4. Len(n.stack) = Len(m.stack) - Takes(i) + Leaves(i)
  <2> HIDE DEF n
  <2> QED
    BY <1>1, <1>2, <1>3
<1> HIDE DEF n
<1>5. Laid(chunks, places, n)
  BY <1>2, <1>4, Went
<1> QED
  BY <1>5 DEF n

LEMMA AmidFacts ==
  ASSUME NEW chunks, NEW places, Verified(chunks, places), NEW m, Amid(chunks, places, m)
  PROVE  LET i == Instr(chunks, m.frames)
             f == Last(m.frames)
             d == Len(m.stack) - f.sbase
         IN /\ Registers \subseteq DOMAIN m /\ m.status = "run"
            /\ Midway(chunks, places, m.frames, m.stack, m.locals)
            /\ Framed(chunks, places, m.frames, m.stack, m.locals)
            /\ IsSeq(m.stack) /\ IsSeq(m.locals) /\ Len(m.stack) \in Nat /\ Len(m.locals) \in Nat
            /\ f.sbase \in Nat /\ d \in Nat /\ f.pc \in Nat
            /\ Takes(i) \in 0..d /\ Takes(i) \in 0..Len(m.stack) /\ f.sbase <= Len(m.stack) - Takes(i)
            /\ i = chunks[f.chunk].code[f.pc - 1]
            /\ Finds(chunks, f.chunk, f.pc - 1, d)
<1>1. Registers \subseteq DOMAIN m /\ m.status = "run" /\ Midway(chunks, places, m.frames, m.stack, m.locals)
  BY DEF Amid
<1>2. Instr(chunks, m.frames) = chunks[Last(m.frames).chunk].code[Last(m.frames).pc - 1]
  BY DEF Instr
<1> QED
  BY <1>1, <1>2, MidwayFacts

LEMMA JumpedTo ==
  ASSUME NEW chunks, NEW places, Verified(chunks, places), NEW m, Amid(chunks, places, m),
         NEW i, i = Instr(chunks, m.frames), i.op = "Jump", NEW pc
  PROVE  Laid(chunks, places, JumpTo(chunks, m, pc, i.arg))
<1> DEFINE f == Last(m.frames)
           d == Len(m.stack) - f.sbase
           steps == m.steps + (IF i.arg <= pc + 1 THEN 1 ELSE 0)
           u == [m EXCEPT !.steps = steps]
           n == Goto(u, i.arg)
<1>1. /\ Registers \subseteq DOMAIN m /\ m.status = "run" /\ i = chunks[f.chunk].code[f.pc - 1]
      /\ f.sbase \in Nat /\ d \in Nat /\ IsSeq(m.stack) /\ Len(m.stack) \in Nat
  BY AmidFacts
<1>2. CASE steps > StepLimit
  <2>1. JumpTo(chunks, m, pc, i.arg) = Raise(chunks, m, "steps")
    BY <1>2 DEF JumpTo
  <2> QED
    BY <2>1, Raised
<1>3. CASE ~(steps > StepLimit)
  <2>1. JumpTo(chunks, m, pc, i.arg) = n
    BY <1>3 DEF JumpTo
  <2>2. Kept(m, u) /\ u.stack = m.stack
    <3> HIDE DEF steps
    <3> QED
      BY <1>1, StepsApart
  <2>3. /\ n.frames = Onwards(m.frames, i.arg) /\ n.stack = m.stack /\ n.locals = m.locals /\ n.status = "run"
        /\ Registers \subseteq DOMAIN n
    <3> HIDE DEF u
    <3> QED
      BY <1>1, <2>2, GotoFacts DEF Kept
  <2>4. Takes(i) = 0 /\ Leaves(i) = 0
    BY DEF Takes, Leaves, GenericOf
  <2>5. d - Takes(i) + Leaves(i) = d
    <3> HIDE DEF d
    <3> QED
      BY <1>1, <2>4
  <2>6. <<i.arg, d>> \in After(chunks[f.chunk], <<f.pc - 1, d>>)
    <3> HIDE DEF f, d
    <3> QED
      BY <1>1, <2>5 DEF After
  <2>7. Len(m.stack) = f.sbase + d
    <3> HIDE DEF f
    <3> QED
      BY <1>1
  <2> HIDE DEF n, d
  <2>8. Laid(chunks, places, n)
    BY <1>1, <2>3, <2>6, <2>7, WentTo DEF d
  <2> QED
    BY <2>1, <2>8
<1> QED
  BY <1>2, <1>3

LEMMA Branched ==
  ASSUME NEW chunks, NEW places, Verified(chunks, places), NEW m, Amid(chunks, places, m),
         NEW i, i = Instr(chunks, m.frames), i.op = "JumpIfFalse"
  PROVE  Laid(chunks, places, Drop(Goto(m, i.arg), 1))
<1> DEFINE f == Last(m.frames)
           d == Len(m.stack) - f.sbase
           u == Goto(m, i.arg)
           n == Drop(u, 1)
<1>1. /\ Registers \subseteq DOMAIN m /\ m.status = "run" /\ i = chunks[f.chunk].code[f.pc - 1]
      /\ f.sbase \in Nat /\ d \in Nat /\ IsSeq(m.stack) /\ Len(m.stack) \in Nat
      /\ Takes(i) \in 0..d /\ Takes(i) \in 0..Len(m.stack)
  BY AmidFacts
<1>2. Takes(i) = 1 /\ Leaves(i) = 0
  BY DEF Takes, Leaves, GenericOf
<1>3. /\ u.frames = Onwards(m.frames, i.arg) /\ u.stack = m.stack /\ u.locals = m.locals /\ u.status = "run"
      /\ Registers \subseteq DOMAIN u
  BY <1>1, GotoFacts
<1>4. Kept(u, n) /\ IsSeq(n.stack) /\ Len(n.stack) = Len(m.stack) - 1
  <2>1. 1 \in 0..Len(u.stack) /\ IsSeq(u.stack)
    BY <1>1, <1>2, <1>3
  <2> HIDE DEF u
  <2>2. Kept(u, n) /\ IsSeq(n.stack) /\ Len(n.stack) = Len(u.stack) - 1
    BY <1>3, <2>1, DropFacts
  <2> QED
    BY <1>3, <2>2
<1>5. /\ n.frames = Onwards(m.frames, i.arg) /\ n.locals = m.locals /\ n.status = "run"
      /\ Registers \subseteq DOMAIN n
  BY <1>3, <1>4 DEF Kept
<1>6. d - Takes(i) + Leaves(i) = d - 1 /\ d - 1 \in Nat
  <2> HIDE DEF d
  <2> QED
    BY <1>1, <1>2
<1>7. <<i.arg, d - 1>> \in After(chunks[f.chunk], <<f.pc - 1, d>>)
  <2>1. <<i.arg, d - Takes(i) + Leaves(i)>> \in After(chunks[f.chunk], <<f.pc - 1, d>>)
    <3> HIDE DEF f, d
    <3> QED
      BY <1>1 DEF After, Peeks
  <2> HIDE DEF f, d
  <2> QED
    BY <1>6, <2>1
<1>8. Len(n.stack) = f.sbase + (d - 1)
  <2> HIDE DEF f, n
  <2> QED
    BY <1>1, <1>4
<1> DEFINE e == d - 1
<1>9. e \in Nat /\ <<i.arg, e>> \in After(chunks[f.chunk], <<f.pc - 1, Len(m.stack) - f.sbase>>) /\ Len(n.stack) = f.sbase + e
  BY <1>6, <1>7, <1>8
<1> HIDE DEF n, e
<1> QED
  BY <1>4, <1>5, <1>9, WentTo DEF n

LEMMA Peeked ==
  ASSUME NEW chunks, NEW places, Verified(chunks, places), NEW m, Amid(chunks, places, m),
         NEW i, i = Instr(chunks, m.frames), i.op \in Peeks
  PROVE  Laid(chunks, places, Goto(m, i.arg))
<1> DEFINE f == Last(m.frames)
           d == Len(m.stack) - f.sbase
           n == Goto(m, i.arg)
<1>1. /\ Registers \subseteq DOMAIN m /\ m.status = "run" /\ i = chunks[f.chunk].code[f.pc - 1]
      /\ f.sbase \in Nat /\ d \in Nat /\ IsSeq(m.stack) /\ Len(m.stack) \in Nat
  BY AmidFacts
<1>2. /\ n.frames = Onwards(m.frames, i.arg) /\ n.stack = m.stack /\ n.locals = m.locals /\ n.status = "run"
      /\ Registers \subseteq DOMAIN n
  BY <1>1, GotoFacts
<1>3. <<i.arg, d>> \in After(chunks[f.chunk], <<f.pc - 1, d>>)
  <2> HIDE DEF f, d
  <2> QED
    BY <1>1 DEF After, Peeks
<1>4. Len(m.stack) = f.sbase + d
  <2> HIDE DEF f
  <2> QED
    BY <1>1
<1> HIDE DEF n, d
<1>5. Laid(chunks, places, n)
  BY <1>1, <1>2, <1>3, <1>4, WentTo DEF d
<1> QED
  BY <1>5 DEF n

\* Who awaits is where its code goes on with one more operand, the awaited.
LEMMA Awaiting ==
  ASSUME NEW chunks, NEW places, Verified(chunks, places),
         NEW frames, NEW stack, NEW locals, Midway(chunks, places, frames, stack, locals),
         Instr(chunks, frames).op = "CallAsync",
         NEW stack1, IsSeq(stack1), Len(stack1) = Len(stack) - Takes(Instr(chunks, frames))
  PROVE  /\ Framed(chunks, places, frames, stack1, locals)
         /\ <<Last(frames).chunk, Last(frames).pc, Len(stack1) - Last(frames).sbase + 1>> \in places
<1> DEFINE f == Last(frames)
           i == Instr(chunks, frames)
           stack2 == Append(stack1, Null)
<1>1. /\ f.sbase \in Nat /\ Len(stack) \in Nat /\ IsSeq(locals)
      /\ Takes(i) \in 0..Len(stack) /\ f.sbase <= Len(stack) - Takes(i)
      /\ Framed(chunks, places, frames, stack, locals)
  BY MidwayFacts
<1>2. IsSeq(stack2) /\ Len(stack2) = Len(stack1) + 1
  BY Pushed
<1>3. Leaves(i) = 1 /\ i.op \notin {"Return", "ReturnNull", "Jump"}
  BY DEF Leaves
<1>4. Len(stack2) = Len(stack) - Takes(i) + Leaves(i)
  <2> HIDE DEF stack2
  <2> QED
    BY <1>2, <1>3
<1>5. Ready(chunks, places, frames, stack2, locals)
  <2> HIDE DEF stack2
  <2> QED
    BY <1>1, <1>2, <1>3, <1>4, Advanced
<1>6. <<f.chunk, f.pc, Len(stack2) - f.sbase>> \in places
  BY <1>5 DEF Ready
<1>7. Len(stack2) - f.sbase = Len(stack1) - f.sbase + 1 /\ f.sbase <= Len(stack1)
  <2>1. Len(stack1) = Len(stack) - Takes(i) /\ Takes(i) \in Int
    BY <1>1
  <2> HIDE DEF f, stack2, i
  <2> QED
    BY <1>1, <1>2, <2>1
<1>8. Framed(chunks, places, frames, stack1, locals)
  BY <1>1, <1>7, Refilled
<1> QED
  BY <1>6, <1>7, <1>8

LEMMA Suspended ==
  ASSUME NEW chunks, NEW places, Verified(chunks, places), NEW m, Amid(chunks, places, m),
         NEW i, i = Instr(chunks, m.frames), i.op = "CallAsync", NEW value
  PROVE  Laid(chunks, places, [Drop(m, Takes(i)) EXCEPT !.status = "await", !.value = value])
<1> DEFINE k == Takes(i)
           u == Drop(m, k)
           n == [u EXCEPT !.status = "await", !.value = value]
<1>1. /\ Registers \subseteq DOMAIN m /\ IsSeq(m.stack) /\ Len(m.stack) \in Nat /\ k \in 0..Len(m.stack)
      /\ Midway(chunks, places, m.frames, m.stack, m.locals)
  BY AmidFacts
<1>2. Kept(m, u) /\ IsSeq(u.stack) /\ Len(u.stack) = Len(m.stack) - k
  <2> HIDE DEF k
  <2> QED
    BY <1>1, DropFacts
<1>3. /\ Framed(chunks, places, m.frames, u.stack, m.locals)
      /\ <<Last(m.frames).chunk, Last(m.frames).pc, Len(u.stack) - Last(m.frames).sbase + 1>> \in places
  <2> DEFINE stack1 == u.stack
  <2>1. IsSeq(stack1) /\ Len(stack1) = Len(m.stack) - Takes(Instr(chunks, m.frames))
    BY <1>2
  <2> HIDE DEF u, stack1
  <2>2. /\ Framed(chunks, places, m.frames, stack1, m.locals)
        /\ <<Last(m.frames).chunk, Last(m.frames).pc, Len(stack1) - Last(m.frames).sbase + 1>> \in places
    BY <1>1, <2>1, Awaiting
  <2> QED
    BY <2>2 DEF stack1
<1> HIDE DEF u
<1>4. n.frames = m.frames /\ n.locals = m.locals /\ n.stack = u.stack /\ n.status = "await" /\ Registers \subseteq DOMAIN n
  BY <1>2 DEF Kept, Registers
<1> HIDE DEF n
<1>5. Laid(chunks, places, n)
  BY <1>3, <1>4 DEF Laid
<1> QED
  BY <1>5 DEF n, u

LEMMA Entered ==
  ASSUME NEW chunks, NEW places, Verified(chunks, places), NEW m, Amid(chunks, places, m),
         NEW i, i = Instr(chunks, m.frames), i.op = "CallFunction"
  PROVE  Laid(chunks, places, CallFunction(chunks, m, i.arg[1], i.arg[2]))
<1> DEFINE f == Last(m.frames)
           id == i.arg[1]
           argc == i.arg[2]
           extra == chunks[id].num - argc
           frame == [chunk |-> id, pc |-> 1, lbase |-> Len(m.locals), sbase |-> Len(m.stack) - argc]
           u == Drop(m, argc)
           n == [u EXCEPT !.locals = @ \o Operands(m, argc) \o Nulls(extra), !.frames = Append(@, frame)]
           locals1 == m.locals \o Operands(m, argc) \o Nulls(extra)
<1>1. /\ Registers \subseteq DOMAIN m /\ m.status = "run" /\ i = chunks[f.chunk].code[f.pc - 1]
      /\ IsSeq(m.stack) /\ IsSeq(m.locals) /\ Len(m.stack) \in Nat /\ Len(m.locals) \in Nat
      /\ Takes(i) \in 0..Len(m.stack) /\ Finds(chunks, f.chunk, f.pc - 1, Len(m.stack) - f.sbase)
      /\ Midway(chunks, places, m.frames, m.stack, m.locals)
  BY AmidFacts
<1>2. Takes(i) = argc
  BY DEF Takes, GenericOf
<1>3. id \in DOMAIN chunks /\ argc <= chunks[id].num
  <2> HIDE DEF f
  <2> QED
    BY <1>1 DEF Finds
<1>4. chunks[id].num \in Nat
  <2> HIDE DEF id
  <2> QED
    BY <1>3 DEF Verified
<1>5. argc \in 0..Len(m.stack) /\ extra \in Nat /\ argc + extra = chunks[id].num /\ argc \in Nat
  <2>1. argc \in 0..Len(m.stack)
    BY <1>1, <1>2
  <2> HIDE DEF id, argc
  <2> QED
    BY <1>1, <1>3, <1>4, <2>1
<1>6. Kept(m, u) /\ IsSeq(u.stack) /\ Len(u.stack) = Len(m.stack) - argc
  <2> HIDE DEF argc
  <2> QED
    BY <1>1, <1>5, DropFacts
<1>7. IsSeq(locals1) /\ Len(locals1) = Len(m.locals) + chunks[id].num
  <2> DEFINE args == Operands(m, argc)
             nulls == Nulls(extra)
             both == m.locals \o args
  <2>1. IsSeq(args) /\ Len(args) = argc
    <3> HIDE DEF argc
    <3> QED
      BY <1>1, <1>5, Topmost DEF Operands
  <2>2. IsSeq(nulls) /\ Len(nulls) = extra
    <3> HIDE DEF extra
    <3> QED
      BY <1>5, NullsAreSeq
  <2>3. IsSeq(both) /\ Len(both) = Len(m.locals) + argc
    <3> HIDE DEF args
    <3> QED
      BY <1>1, <2>1, Joined
  <2>4. IsSeq(both \o nulls) /\ Len(both \o nulls) = Len(m.locals) + argc + extra
    <3> HIDE DEF both, nulls
    <3> QED
      BY <2>2, <2>3, Joined
  <2>5. Len(m.locals) + argc + extra = Len(m.locals) + chunks[id].num
    <3> HIDE DEF argc, extra, id
    <3> QED
      BY <1>1, <1>4, <1>5
  <2> QED
    BY <2>4, <2>5
<1>8. Ready(chunks, places, Append(m.frames, frame), u.stack, locals1)
  <2> DEFINE stack1 == u.stack
  <2>1. IsSeq(stack1) /\ Len(stack1) = Len(m.stack) - argc
    BY <1>6
  <2>2. id = Instr(chunks, m.frames).arg[1] /\ argc = Instr(chunks, m.frames).arg[2]
        /\ Instr(chunks, m.frames).op = "CallFunction"
    OBVIOUS
  <2> HIDE DEF stack1, locals1, id, argc
  <2>3. Ready(chunks, places, Append(m.frames, frame), stack1, locals1)
    BY <1>1, <1>7, <2>1, <2>2, EnteredFrom
  <2> QED
    BY <2>3 DEF stack1
<1>9. /\ n.frames = Append(m.frames, frame) /\ n.locals = locals1 /\ n.stack = u.stack /\ n.status = "run"
      /\ Registers \subseteq DOMAIN n
  <2> HIDE DEF u, frame, extra
  <2> QED
    BY <1>1, <1>6 DEF Kept, Registers
<1>10. Laid(chunks, places, n)
  <2> DEFINE frames1 == Append(m.frames, frame)
             stack1 == u.stack
  <2>1. Ready(chunks, places, frames1, stack1, locals1) /\ n.frames = frames1 /\ n.stack = stack1
    BY <1>8, <1>9
  <2> HIDE DEF n, frames1, stack1, locals1
  <2> QED
    BY <1>9, <2>1, RunsReady
<1>11. CallFunction(chunks, m, id, argc) = IF Len(m.frames) >= MaxFrames THEN Raise(chunks, m, "recursion") ELSE n
  BY DEF CallFunction
<1>12. Laid(chunks, places, Raise(chunks, m, "recursion"))
  BY Raised
<1> HIDE DEF n
<1> QED
  BY <1>10, <1>11, <1>12

-----------------------------------------------------------------------------
(***************************************************************************)
(* Every instruction.                                                      *)
(***************************************************************************)
LEMMA PerformKeepsLayout ==
  ASSUME NEW chunks, NEW places, Verified(chunks, places),
         NEW m, Amid(chunks, places, m), NEW f, NEW i, i = Instr(chunks, m.frames)
  PROVE  Laid(chunks, places, Perform(chunks, f, i, m))
<1> DEFINE top == Operand(m, 0)
           slot == f.lbase + i.arg
           n == Perform(chunks, f, i, m)
           Binary == {"Add", "Sub", "Mul", "Div", "Mod", "Eq", "Ne", "Lt", "Le", "Gt", "Ge"}
<1> SUFFICES Laid(chunks, places, n)
  OBVIOUS
<1>5. Framed(chunks, places, m.frames, m.stack, m.locals) /\ m.status = "run" /\ Registers \subseteq DOMAIN m
  BY AmidFacts
<1>6. CASE i.op \in {"Const", "LoadLocal"}
  <2>1. \E v : n = Push(m, v)
    BY <1>6 DEF Perform, GenericOf
  <2> HIDE DEF n
  <2> QED
    BY <1>6, <2>1, Loads
<1>7. CASE i.op = "StoreLocal"
  <2>1. n = [Drop(m, 1) EXCEPT !.locals[slot] = top]
    BY <1>7 DEF Perform, GenericOf
  <2>2. Takes(i) = 1 /\ Leaves(i) = 0
    BY <1>7 DEF Takes, Leaves, GenericOf
  <2> HIDE DEF n, top, slot
  <2> QED
    BY <1>7, <2>1, <2>2, Dropped
<1>8. CASE i.op = "Pop"
  <2>1. n = Drop(m, 1)
    BY <1>8 DEF Perform, GenericOf
  <2>2. Takes(i) = 1 /\ Leaves(i) = 0
    BY <1>8 DEF Takes, Leaves, GenericOf
  <2> HIDE DEF n
  <2> QED
    BY <1>8, <2>1, <2>2, Dropped
<1>9. CASE i.op \in Binary \cup DOMAIN GenericOf \cup {"SetMember"}
  <2>1. \E call : n = Outcome(chunks, m, 2, call)
    BY <1>9 DEF Perform, GenericOf
  <2>2. Takes(i) = 2 /\ Leaves(i) = 1
    BY <1>9 DEF Takes, Leaves, GenericOf
  <2>3. i.op \notin {"Return", "ReturnNull", "Jump"}
    BY <1>9 DEF GenericOf
  <2> HIDE DEF n
  <2> QED
    BY <2>1, <2>2, <2>3, CameOut
<1>10. CASE i.op \in {"Neg", "GetMember"}
  <2>1. \E v : n = Result(chunks, m, 1, v)
    BY <1>10 DEF Perform, GenericOf
  <2>2. Takes(i) = 1 /\ Leaves(i) = 1
    BY <1>10 DEF Takes, Leaves, GenericOf
  <2> HIDE DEF n
  <2> QED
    BY <1>10, <2>1, <2>2, Resulted
<1>11. CASE i.op = "Not"
  <2>1. \E v : n = Push(Drop(m, 1), v)
    BY <1>11 DEF Perform, GenericOf
  <2>2. Takes(i) = 1 /\ Leaves(i) = 1
    BY <1>11 DEF Takes, Leaves, GenericOf
  <2> HIDE DEF n
  <2> QED
    BY <1>11, <2>1, <2>2, Resulted
<1>12. CASE i.op = "Jump"
  <2>1. n = JumpTo(chunks, m, f.pc, i.arg)
    BY <1>12 DEF Perform, GenericOf
  <2> HIDE DEF n
  <2> QED
    BY <1>12, <2>1, JumpedTo
<1>13. CASE i.op = "JumpIfFalse"
  <2>1. n = Drop(m, 1) \/ n = Drop(Goto(m, i.arg), 1)
    BY <1>13 DEF Perform, GenericOf
  <2>2. Takes(i) = 1 /\ Leaves(i) = 0
    BY <1>13 DEF Takes, Leaves, GenericOf
  <2> HIDE DEF n
  <2> QED
    BY <1>13, <2>1, <2>2, Dropped, Branched
<1>14. CASE i.op \in Peeks
  <2>1. n = Drop(m, 1) \/ n = Goto(m, i.arg)
    BY <1>14 DEF Perform, GenericOf, Peeks
  <2>2. Takes(i) = 1 /\ Leaves(i) = 0 /\ i.op \notin {"Return", "ReturnNull", "Jump"}
    BY <1>14 DEF Takes, Leaves, GenericOf, Peeks
  <2> HIDE DEF n
  <2> QED
    BY <1>14, <2>1, <2>2, Dropped, Peeked
<1>15. CASE i.op = "MakeList"
  <2>1. \E call : n = Outcome(chunks, m, i.arg, call)
    BY <1>15 DEF Perform, GenericOf
  <2>2. Takes(i) = i.arg /\ Leaves(i) = 1
    BY <1>15 DEF Takes, Leaves, GenericOf
  <2> HIDE DEF n
  <2> QED
    BY <1>15, <2>1, <2>2, CameOut
<1>16. CASE i.op = "MakeDict"
  <2>1. \E call : n = Outcome(chunks, m, 2 * i.arg, call)
    BY <1>16 DEF Perform, GenericOf
  <2>2. Takes(i) = 2 * i.arg /\ Leaves(i) = 1
    BY <1>16 DEF Takes, Leaves, GenericOf
  <2> HIDE DEF n
  <2> QED
    BY <1>16, <2>1, <2>2, CameOut
<1>17. CASE i.op = "GetIndex"
  <2>1. \E v : n = Result(chunks, m, 2, v)
    BY <1>17 DEF Perform, GenericOf
  <2>2. Takes(i) = 2 /\ Leaves(i) = 1
    BY <1>17 DEF Takes, Leaves, GenericOf
  <2> HIDE DEF n
  <2> QED
    BY <1>17, <2>1, <2>2, Resulted
<1>18. CASE i.op = "SetIndex"
  <2>1. \E call : n = Outcome(chunks, m, 3, call)
    BY <1>18 DEF Perform, GenericOf
  <2>2. Takes(i) = 3 /\ Leaves(i) = 1
    BY <1>18 DEF Takes, Leaves, GenericOf
  <2> HIDE DEF n
  <2> QED
    BY <1>18, <2>1, <2>2, CameOut
<1>19. CASE i.op = "IterList"
  <2>1. \E call : n = Outcome(chunks, m, 1, call)
    BY <1>19 DEF Perform, GenericOf
  <2>2. Takes(i) = 1 /\ Leaves(i) = 1
    BY <1>19 DEF Takes, Leaves, GenericOf
  <2> HIDE DEF n
  <2> QED
    BY <1>19, <2>1, <2>2, CameOut
<1>20. CASE i.op = "CallMethod"
  <2>1. \E call : n = Outcome(chunks, m, i.arg[2] + 1, call)
    BY <1>20 DEF Perform, GenericOf
  <2>2. Takes(i) = i.arg[2] + 1 /\ Leaves(i) = 1
    BY <1>20 DEF Takes, Leaves, GenericOf
  <2> HIDE DEF n
  <2> QED
    BY <1>20, <2>1, <2>2, CameOut
<1>21. CASE i.op = "CallNative"
  <2>1. \E call : n = Outcome(chunks, m, i.arg[2], call)
    BY <1>21 DEF Perform, GenericOf
  <2>2. Takes(i) = i.arg[2] /\ Leaves(i) = 1
    BY <1>21 DEF Takes, Leaves, GenericOf
  <2> HIDE DEF n
  <2> QED
    BY <1>21, <2>1, <2>2, CameOut
<1>22. CASE i.op = "CallAsync"
  <2> DEFINE v == <<i.arg[1], Operands(m, i.arg[2])>>
  <2>1. n = [Drop(m, i.arg[2]) EXCEPT !.status = "await", !.value = v]
    BY <1>22 DEF Perform, GenericOf
  <2>2. Takes(i) = i.arg[2]
    BY <1>22 DEF Takes, GenericOf
  <2> HIDE DEF n, v
  <2>3. n = [Drop(m, Takes(i)) EXCEPT !.status = "await", !.value = v]
    BY <2>1, <2>2
  <2>4. Laid(chunks, places, [Drop(m, Takes(i)) EXCEPT !.status = "await", !.value = v])
    BY <1>22, Suspended
  <2> QED
    BY <2>3, <2>4
<1>23. CASE i.op = "CallFunction"
  <2>1. n = CallFunction(chunks, m, i.arg[1], i.arg[2])
    BY <1>23 DEF Perform, GenericOf
  <2> HIDE DEF n
  <2> QED
    BY <1>23, <2>1, Entered
<1> DEFINE Others == Binary \cup DOMAIN GenericOf
                       \cup {"Const", "LoadLocal", "StoreLocal", "Pop", "SetMember", "Neg", "GetMember", "Not", "Jump",
                             "JumpIfFalse", "MakeList", "MakeDict", "GetIndex", "SetIndex", "IterList", "CallMethod",
                             "CallNative", "CallAsync", "CallFunction"}
                       \cup Peeks
<1>24. CASE i.op \notin Others
  <2>1. \E v : n = Leave(m, v)
    BY <1>24 DEF Perform, GenericOf, Peeks
  <2> HIDE DEF n
  <2> QED
    BY <1>5, <2>1, Left
<1> HIDE DEF n
<1> QED
  BY <1>6, <1>7, <1>8, <1>9, <1>10, <1>11, <1>12, <1>13, <1>14, <1>15, <1>16, <1>17, <1>18, <1>19, <1>20,
     <1>21, <1>22, <1>23, <1>24

\* An instruction of code that the verifier accepts leaves the machine laid
\* out for the next one: whether it computes, calls, returns, jumps, fails and
\* is caught, fails and is not, or suspends (VM::execute, vm.cpp:98-550).
THEOREM StepKeepsLayout ==
  ASSUME NEW chunks, NEW places, Verified(chunks, places),
         NEW m, Laid(chunks, places, m), m.status = "run"
  PROVE  Laid(chunks, places, Step(chunks, m))
<1> DEFINE f == Last(m.frames)
           code == chunks[f.chunk].code
           i == code[f.pc]
           n == Goto(m, f.pc + 1)
           frames == m.frames
           stack == m.stack
           locals == m.locals
<1>1. /\ Registers \subseteq DOMAIN m
      /\ Ready(chunks, places, frames, stack, locals)
  BY DEF Laid, Ready
<1>2. /\ Midway(chunks, places, Onwards(frames, f.pc + 1), stack, locals)
      /\ i = Instr(chunks, Onwards(frames, f.pc + 1))
      /\ ~(f.pc > Len(code))
  <2> HIDE DEF stack, locals
  <2> QED
    BY <1>1, Begun
<1>3. /\ n.frames = Onwards(frames, f.pc + 1)
      /\ n.stack = stack /\ n.locals = locals /\ n.status = "run"
      /\ Registers \subseteq DOMAIN n
  <2> HIDE DEF f
  <2> QED
    BY <1>1, GotoFacts
<1>4. Amid(chunks, places, n) /\ i = Instr(chunks, n.frames)
  <2> HIDE DEF n, f, i, frames, stack, locals
  <2> QED
    BY <1>2, <1>3 DEF Amid
<1>5. Laid(chunks, places, Perform(chunks, f, i, n))
  <2> HIDE DEF f, i, n
  <2> QED
    BY <1>4, PerformKeepsLayout
<1>6. Step(chunks, m) = IF f.pc > Len(code) THEN Leave(m, Null) ELSE Perform(chunks, f, i, n)
  BY DEF Step
<1> HIDE DEF f, i, n, code
<1> QED
  BY <1>2, <1>5, <1>6

\* A machine starts at the first instruction of its code, with its variables.
LEMMA StartIsLaid ==
  ASSUME NEW chunks, NEW places, Verified(chunks, places), NEW id \in DOMAIN chunks, NEW params
  PROVE  Laid(chunks, places, StartVM(chunks, id, params)) /\ StartVM(chunks, id, params).status = "run"
<1> DEFINE n == StartVM(chunks, id, params)
           f == [chunk |-> id, pc |-> 1, lbase |-> 0, sbase |-> 0]
           frames1 == <<f>>
           locals1 == [i \in 1..chunks[id].num |-> IF i \in DOMAIN params THEN params[i] ELSE Null]
<1>1. n.frames = frames1 /\ n.stack = <<>> /\ n.locals = locals1 /\ n.status = "run" /\ Registers \subseteq DOMAIN n
  BY DEF StartVM, Registers
<1>2. chunks[id].num \in Nat
  BY DEF Verified
<1>3. IsSeq(locals1) /\ Len(locals1) = chunks[id].num
  <2>1. DOMAIN locals1 = 1..chunks[id].num /\ locals1 = [i \in 1..chunks[id].num |-> locals1[i]]
    OBVIOUS
  <2> HIDE DEF locals1
  <2> QED
    BY <1>2, <2>1, Numbered
<1>4. f \in Frame(chunks) /\ f.chunk = id /\ f.pc = 1 /\ f.lbase = 0 /\ f.sbase = 0
  BY DEF Frame
<1> HIDE DEF f
<1>5. frames1 \in Seq(Frame(chunks)) /\ Len(frames1) = 1 /\ frames1[1] = f /\ Last(frames1) = f
  BY <1>4 DEF Last
<1>6. frames1 # <<>>
  BY <1>5, EmptySeq
<1>7. <<f.chunk, f.pc, 0>> \in places
  BY <1>4, EntryPlace
<1> HIDE DEF frames1, locals1, n
<1>8. Len(locals1) = f.lbase + chunks[f.chunk].num
  BY <1>2, <1>3, <1>4
<1>9. \A k \in 1..Len(frames1) - 1 : Called(chunks, places, frames1[k], frames1[k + 1])
  BY <1>5
<1>10. \A j, k \in 1..Len(frames1) :
         j <= k => frames1[j].sbase <= frames1[k].sbase /\ frames1[j].lbase <= frames1[k].lbase
  BY <1>4, <1>5
<1>11. Framed(chunks, places, frames1, <<>>, locals1)
  <2>1. Last(frames1).sbase <= Len(<<>>)
    BY <1>4, <1>5, EmptyIsSeq
  <2> QED
    BY <1>3, <1>5, <1>6, <1>8, <1>9, <1>10, <2>1, EmptyIsSeq DEF Framed
<1>12. Len(<<>>) - Last(frames1).sbase = 0
  BY <1>4, <1>5, EmptyIsSeq
<1>13. Ready(chunks, places, frames1, <<>>, locals1)
  BY <1>5, <1>7, <1>11, <1>12 DEF Ready
<1>14. Laid(chunks, places, n)
  BY <1>1, <1>13, RunsReady
<1> QED
  BY <1>1, <1>14 DEF n

\* The awaited value is the operand its place asks for.
LEMMA ResumeIsLaid ==
  ASSUME NEW chunks, NEW places, Verified(chunks, places), NEW m, Laid(chunks, places, m), m.status # "run", NEW v
  PROVE  /\ Laid(chunks, places, ResumeVM(m, v))
         /\ ResumeVM(m, v).status = IF m.status = "await" THEN "run" ELSE "done"
<1> DEFINE n == ResumeVM(m, v)
           stack1 == Append(m.stack, v)
           frames == m.frames
           locals == m.locals
           stack == m.stack
<1>1. Registers \subseteq DOMAIN m
  BY DEF Laid
<1>2. /\ n.frames = frames /\ n.locals = locals /\ n.stack = stack1 /\ Registers \subseteq DOMAIN n
      /\ n.status = IF frames = <<>> THEN "done" ELSE "run"
  BY <1>1 DEF ResumeVM, Registers
<1>3. CASE m.status = "await"
  <2>1. /\ Framed(chunks, places, frames, stack, locals)
        /\ <<Last(frames).chunk, Last(frames).pc, Len(stack) - Last(frames).sbase + 1>> \in places
    BY <1>3 DEF Laid
  <2> DEFINE b == Last(frames).sbase
  <2> HIDE DEF frames, stack, locals
  <2>2. frames # <<>> /\ b <= Len(stack) /\ IsSeq(stack) /\ IsSeq(locals)
    BY <2>1 DEF Framed
  <2>3. IsSeq(stack1) /\ Len(stack1) = Len(stack) + 1
    BY <2>2, Pushed DEF stack
  <2>4. b \in Nat /\ Len(stack) \in Nat
    <3>1. Last(frames) \in Frame(chunks) /\ Len(stack) \in Nat
      BY <2>1, FramedFacts
    <3> QED
      BY <3>1, FrameFacts
  <2>5. b <= Len(stack1) /\ Len(stack1) - b = Len(stack) - b + 1
    <3> HIDE DEF b, stack1
    <3> QED
      BY <2>2, <2>3, <2>4
  <2>6. Framed(chunks, places, frames, stack1, locals)
    <3> HIDE DEF stack1
    <3> QED
      BY <2>1, <2>2, <2>3, <2>5, Refilled
  <2> HIDE DEF stack1
  <2>7. Ready(chunks, places, frames, stack1, locals)
    BY <2>1, <2>5, <2>6 DEF Ready
  <2> HIDE DEF n
  <2>8. Laid(chunks, places, n)
    BY <1>2, <2>2, <2>7, RunsReady
  <2> QED
    BY <1>2, <1>3, <2>2, <2>8 DEF n
<1>4. CASE m.status # "await"
  <2>1. frames = <<>>
    BY <1>4 DEF Laid
  <2> HIDE DEF n, frames
  <2>2. Laid(chunks, places, n) /\ n.status = "done"
    BY <1>2, <2>1 DEF Laid
  <2> QED
    BY <1>4, <2>2 DEF n
<1> QED
  BY <1>3, <1>4

\* A machine that is laid out and runs is where its code says.
LEMMA LaidIsPlaced ==
  ASSUME NEW chunks, NEW places, NEW m, Laid(chunks, places, m), m.status = "run"
  PROVE  Placed(chunks, places, m)
BY DEF Laid, Framed, Placed

\* Nothing but its registers makes the layout of a machine.
LEMMA SameLayout ==
  ASSUME NEW chunks, NEW places, NEW m, Laid(chunks, places, m),
         NEW n, Registers \subseteq DOMAIN n, \A x \in Registers : n[x] = m[x]
  PROVE  Laid(chunks, places, n)
<1>1. n.frames = m.frames /\ n.stack = m.stack /\ n.locals = m.locals /\ n.status = m.status
  BY DEF Registers
<1> QED
  BY <1>1 DEF Laid

-----------------------------------------------------------------------------
(***************************************************************************)
(* Steps.  "The counter is only looked at here: an infinite loop needs a   *)
(* jump back, and the limit of the frames cuts an infinite recursion       *)
(* first" (vm.cpp:305-308).  What is true of that: as long as nothing is   *)
(* caught, the counter goes up, or it stays and the places of the frames,  *)
(* read from the first one, go on in the order of words, a frame that has  *)
(* returned after all others.  The counter, the frames and the places have *)
(* limits, so that no handler runs for ever without an error to catch.     *)
(***************************************************************************)
Limited(m) == Len(m.frames) <= MaxFrames /\ m.steps \in 0..StepLimit

\* The first frame that differs has gone on, or has returned.
Further(frames, later) ==
  \E k \in 1..Len(frames) :
    /\ \A j \in 1..k - 1 : j <= Len(later) /\ later[j] = frames[j]
    /\ k <= Len(later) => later[k].chunk = frames[k].chunk /\ later[k].pc > frames[k].pc

\* The counter starts again at the catch of a frame that was there.
Caught(chunks, m, n) ==
  /\ n.steps = 0 /\ n.frames # <<>> /\ Len(n.frames) <= Len(m.frames)
  /\ \E t \in Range(chunks[Last(n.frames).chunk].tries) : Last(n.frames).pc = t.catch

Advances(chunks, m, n) ==
  \/ n.steps = m.steps + 1
  \/ n.steps = m.steps /\ Further(m.frames, n.frames)
  \/ Caught(chunks, m, n)

\* What an instruction may do to the frames, once the top one is past it.
Goes(frames, later) ==
  \/ later = frames
  \/ later = Front(frames)
  \/ \E f : later = Append(frames, f)
  \/ \E pc \in Nat : pc > Last(frames).pc - 1 /\ later = Onwards(frames, pc)

LEMMA GoesFurther ==
  ASSUME NEW F, NEW frames \in Seq(F), frames # <<>>, NEW pc \in Nat, frames[Len(frames)].pc = pc,
         NEW next, next = Onwards(frames, pc + 1),
         NEW later, Goes(next, later),
         Len(frames) \in DOMAIN frames, {"chunk", "pc"} \subseteq DOMAIN frames[Len(frames)]
  PROVE  Further(frames, later)
<1> DEFINE L == Len(frames)
<1>1. L \in Nat \ {0} /\ DOMAIN frames = 1..L
  BY EmptySeq, LenProperties
<1>2. /\ DOMAIN next = 1..L /\ \A j \in 1..L - 1 : next[j] = frames[j]
      /\ next[L].chunk = frames[L].chunk /\ next[L].pc = pc + 1
  BY <1>1 DEF Onwards
<1>3. next \in Seq(Range(next)) /\ Len(next) = L
  <2>1. DOMAIN next = 1..L /\ next = [i \in 1..L |-> next[i]]
    BY <1>2 DEF Onwards
  <2>2. IsSeq(next) /\ Len(next) = L
    BY <1>1, <2>1, Numbered
  <2> QED
    BY <2>2 DEF IsSeq
<1>4. Last(next) = next[L]
  BY <1>3 DEF Last
<1> HIDE DEF L
<1> SUFFICES /\ \A j \in 1..L - 1 : j <= Len(later) /\ later[j] = frames[j]
             /\ L <= Len(later) => later[L].chunk = frames[L].chunk /\ later[L].pc > pc
  BY <1>1 DEF Further, L
<1>5. CASE later = next
  BY <1>1, <1>2, <1>3, <1>5
<1>6. CASE later = Front(next)
  <2>1. Len(later) = L - 1 /\ \A j \in 1..L - 1 : later[j] = next[j]
    BY <1>1, <1>3, <1>6 DEF Front
  <2> QED
    BY <1>1, <1>2, <2>1
<1>7. CASE \E f : later = Append(next, f)
  <2>1. PICK f : later = Append(next, f)
    BY <1>7
  <2>2. Len(later) = L + 1 /\ \A j \in 1..L : later[j] = next[j]
    BY <1>1, <1>3, <2>1
  <2> QED
    BY <1>1, <1>2, <2>2
<1>8. CASE \E q \in Nat : q > Last(next).pc - 1 /\ later = Onwards(next, q)
  <2>1. PICK q \in Nat : q > pc + 1 - 1 /\ later = Onwards(next, q)
    BY <1>2, <1>4, <1>8
  <2>2. DOMAIN later = 1..L /\ later = [i \in 1..L |-> later[i]]
    BY <1>2, <2>1 DEF Onwards
  <2>3. Len(later) = L
    BY <1>1, <2>2, Numbered
  <2>4. \A j \in 1..L - 1 : later[j] = next[j]
    BY <1>1, <1>2, <1>3, <2>1 DEF Onwards
  <2>5. "pc" \in DOMAIN next[L]
    BY <1>1 DEF Onwards, L
  <2>6. later[L].chunk = next[L].chunk /\ later[L].pc = q
    BY <1>1, <1>2, <1>3, <2>1, <2>5 DEF Onwards
  <2> QED
    BY <1>1, <1>2, <2>1, <2>3, <2>4, <2>6
<1> QED
  BY <1>5, <1>6, <1>7, <1>8 DEF Goes

Proper(chunks, m, n) ==
  /\ Limited(m) => Limited(n)
  /\ n.status = "run" => \/ n.steps = m.steps + 1
                         \/ n.steps = m.steps /\ Goes(m.frames, n.frames)
                         \/ Caught(chunks, m, n)

\* The same calls, and as many steps.
SameCalls(m, n) == n.frames = m.frames /\ n.steps = m.steps /\ Registers \subseteq DOMAIN n

LEMMA CallsStay ==
  ASSUME NEW m, Registers \subseteq DOMAIN m
  PROVE  /\ \A v : SameCalls(m, Push(m, v))
         /\ \A k : SameCalls(m, Drop(m, k))
         /\ \A w : SameCalls(m, [m EXCEPT !.w = w])
         /\ \A slot, v : SameCalls(m, [m EXCEPT !.locals[slot] = v])
         /\ \A s, v : SameCalls(m, [m EXCEPT !.status = s, !.value = v])
         /\ \A pc : /\ Goto(m, pc).frames = Onwards(m.frames, pc) /\ Goto(m, pc).steps = m.steps
                    /\ Registers \subseteq DOMAIN Goto(m, pc)
BY DEF SameCalls, Registers, Push, Drop, Goto, Onwards

LEMMA GotoAlike ==
  ASSUME NEW m, Registers \subseteq DOMAIN m, NEW frames, m.frames = frames, NEW steps, m.steps = steps, NEW pc
  PROVE  Goto(m, pc).frames = Onwards(frames, pc) /\ Goto(m, pc).steps = steps
BY CallsStay

LEMMA AlikeIsProper ==
  ASSUME NEW chunks, NEW m, NEW u, SameCalls(m, u), NEW n, Proper(chunks, u, n)
  PROVE  Proper(chunks, m, n)
BY DEF Proper, SameCalls, Limited, Caught

LEMMA StaysProper ==
  ASSUME NEW chunks, NEW m, NEW n, SameCalls(m, n)
  PROVE  Proper(chunks, m, n)
BY DEF Proper, SameCalls, Limited, Goes

LEMMA RaisesProperly ==
  ASSUME NEW chunks, NEW places, Verified(chunks, places), NEW m, Amid(chunks, places, m), NEW message
  PROVE  Proper(chunks, m, Raise(chunks, m, message))
<1> DEFINE C == Catching(chunks, m)
           n == Raise(chunks, m, message)
<1> SUFFICES Proper(chunks, m, n)
  OBVIOUS
<1>1. /\ Registers \subseteq DOMAIN m /\ Framed(chunks, places, m.frames, m.stack, m.locals)
      /\ Len(m.frames) \in Nat /\ DOMAIN m.frames = 1..Len(m.frames)
      /\ \A k \in 1..Len(m.frames) : m.frames[k] \in Frame(chunks)
  BY FramedFacts DEF Amid, Midway
<1>2. CASE C = {}
  <2>1. n = [m EXCEPT !.frames = <<>>, !.stack = <<>>, !.locals = <<>>, !.status = "error", !.value = message]
    BY <1>2 DEF Raise
  <2>2. n.frames = <<>> /\ n.status = "error" /\ n.steps = m.steps
    <3> HIDE DEF n
    <3> QED
      BY <1>1, <2>1 DEF Registers
  <2> HIDE DEF n
  <2> QED
    BY <2>2, LimitsAssumption DEF Proper, Limited
<1>3. CASE C # {}
  <2> DEFINE k == Max(C)
             f == m.frames[k]
             h == FindHandler(chunks[f.chunk], f.pc - 1)
             err == Alloc(m.w, << <<"message", Str(message)>> >>, "Dict")
             u == Unwind(m, k)
             c == [u EXCEPT !.stack = Append(ResizeTo(@, f.sbase), err.v), !.w = err.w, !.steps = 0]
             calls == SubSeq(m.frames, 1, k)
  <2>1. C \subseteq 1..Len(m.frames)
    BY <1>1 DEF Catching
  <2>2. k \in C
    <3> HIDE DEF C
    <3> QED
      BY <1>1, <1>3, <2>1, GreatestNatural
  <2>3. k \in 1..Len(m.frames) /\ Covering(chunks[f.chunk], f.pc - 1) # {}
    BY <2>1, <2>2 DEF Catching
  <2>4. f.chunk \in DOMAIN chunks /\ f.pc \in Nat /\ f \in Frame(chunks)
    <3> HIDE DEF k
    <3> QED
      BY <1>1, <2>3, FrameFacts
  <2>5. h \in Range(chunks[f.chunk].tries)
    <3>1. h \in Covering(chunks[f.chunk], f.pc - 1)
      <4> DEFINE pc == f.pc - 1
      <4>1. pc \in Int /\ Covering(chunks[f.chunk], pc) # {}
        BY <2>3, <2>4
      <4> HIDE DEF pc, f
      <4> QED
        BY <2>4, <4>1, Innermost DEF pc
    <3> QED
      BY <3>1 DEF Covering
  <2>6. n = Goto(c, h.catch)
    BY <1>3 DEF Raise, Catch
  <2>7. c.frames = calls /\ c.steps = 0 /\ Registers \subseteq DOMAIN c
    <3>1. u.frames = calls /\ DOMAIN u = DOMAIN m
      <4> HIDE DEF k
      <4> QED
        BY <1>1 DEF Unwind, ResizeTo, Registers
    <3> HIDE DEF u, err, f, calls
    <3> QED
      BY <1>1, <3>1 DEF Registers
  <2> HIDE DEF n, c
  <2>8. n.frames = Onwards(calls, h.catch) /\ n.steps = 0
    <3> HIDE DEF calls, h
    <3> QED
      BY <2>6, <2>7, CallsStay
  <2>9. Len(calls) = k /\ DOMAIN calls = 1..k /\ calls[k] = f
    <3>1. m.frames \in Seq(Frame(chunks))
      BY <1>1 DEF Framed
    <3> HIDE DEF k
    <3> QED
      BY <1>1, <2>3, <3>1
  <2> DEFINE g == Onwards(calls, h.catch)
  <2>10. Len(g) = k /\ g[k].chunk = f.chunk /\ g[k].pc = h.catch
    <3>1. DOMAIN g = 1..k /\ g = [j \in 1..k |-> g[j]]
      BY <2>9 DEF Onwards
    <3>2. k \in Nat /\ k \in 1..k
      <4> HIDE DEF k
      <4> QED
        BY <1>1, <2>3
    <3>3. Len(g) = k
      <4> HIDE DEF g, k
      <4> QED
        BY <3>1, <3>2, Numbered
    <3>4. {"chunk", "pc"} \subseteq DOMAIN f
      <4> HIDE DEF f
      <4> QED
        BY <2>4 DEF Frame
    <3> HIDE DEF calls, f, k, h
    <3> QED
      BY <2>9, <3>2, <3>3, <3>4 DEF Onwards
  <2> HIDE DEF k, f, h, g, calls
  <2>11. Last(g) = g[k] /\ g # <<>> /\ k <= Len(m.frames) /\ k \in Nat
    BY <1>1, <2>3, <2>10 DEF Last
  <2>12. Caught(chunks, m, n)
    BY <2>5, <2>8, <2>10, <2>11 DEF Caught, g
  <2>13. Limited(m) => Limited(n)
    BY <1>1, <2>8, <2>10, <2>11, LimitsAssumption DEF Limited, g
  <2> QED
    BY <2>12, <2>13 DEF Proper
<1> QED
  BY <1>2, <1>3

LEMMA ResultsProperly ==
  ASSUME NEW chunks, NEW places, Verified(chunks, places), NEW m, Amid(chunks, places, m), NEW k, NEW v
  PROVE  /\ Proper(chunks, m, Push(Drop(m, k), v))
         /\ Proper(chunks, m, Result(chunks, m, k, v))
<1>1. Registers \subseteq DOMAIN m
  BY DEF Amid
<1>2. SameCalls(m, Drop(m, k)) /\ SameCalls(Drop(m, k), Push(Drop(m, k), v))
  BY <1>1, CallsStay DEF SameCalls
<1>3. SameCalls(m, Push(Drop(m, k), v))
  BY <1>2 DEF SameCalls
<1>4. Proper(chunks, m, Push(Drop(m, k), v))
  BY <1>3, StaysProper
<1>5. Proper(chunks, m, Raise(chunks, m, v[2]))
  BY RaisesProperly
<1> QED
  BY <1>4, <1>5 DEF Result

LEMMA ComesOutProperly ==
  ASSUME NEW chunks, NEW places, Verified(chunks, places), NEW m, Amid(chunks, places, m), NEW k, NEW call
  PROVE  Proper(chunks, m, Outcome(chunks, m, k, call))
<1> DEFINE u == [m EXCEPT !.w = call.w]
<1>1. SameCalls(m, u) /\ Kept(m, u) /\ u.stack = m.stack
  BY CallsStay, WorldApart DEF Amid
<1> HIDE DEF u
<1>2. Amid(chunks, places, u)
  BY <1>1 DEF Amid, Kept
<1>3. Proper(chunks, u, Result(chunks, u, k, call.v))
  BY <1>2, ResultsProperly
<1>4. Proper(chunks, m, Result(chunks, u, k, call.v))
  BY <1>1, <1>3, AlikeIsProper
<1> QED
  BY <1>4 DEF Outcome, u

LEMMA LeavesProperly ==
  ASSUME NEW chunks, NEW places, NEW m, Registers \subseteq DOMAIN m,
         Framed(chunks, places, m.frames, m.stack, m.locals), NEW v
  PROVE  Proper(chunks, m, Leave(m, v))
<1> DEFINE f == Last(m.frames)
           rest == Front(m.frames)
           n == Leave(m, v)
<1>1. n.frames = rest /\ n.steps = m.steps
  <2> HIDE DEF f, rest
  <2> QED
    BY DEF Leave, Registers, f, rest
<1>2. Len(m.frames) \in Nat \ {0} /\ Len(rest) = Len(m.frames) - 1
  BY FramedFacts DEF Front, Framed
<1> HIDE DEF n, rest
<1>3. Proper(chunks, m, n)
  BY <1>1, <1>2, LimitsAssumption DEF Proper, Limited, Goes, rest
<1> QED
  BY <1>3 DEF n

\* To go to a place that is further on.
LEMMA GoesProperly ==
  ASSUME NEW chunks, NEW m, Registers \subseteq DOMAIN m, NEW pc \in Nat, pc > Last(m.frames).pc - 1,
         NEW frames, frames = m.frames, Len(Onwards(frames, pc)) = Len(frames)
  PROVE  Proper(chunks, m, Goto(m, pc))
<1>1. Goto(m, pc).frames = Onwards(frames, pc) /\ Goto(m, pc).steps = m.steps
  BY CallsStay
<1> QED
  BY <1>1 DEF Proper, Limited, Goes

LEMMA OnwardsIsAsLong ==
  ASSUME NEW chunks, NEW places, NEW frames, NEW stack, NEW locals, Framed(chunks, places, frames, stack, locals), NEW pc
  PROVE  Len(Onwards(frames, pc)) = Len(frames)
<1> DEFINE g == Onwards(frames, pc)
<1>1. Len(frames) \in Nat /\ DOMAIN frames = 1..Len(frames)
  BY FramedFacts
<1>2. DOMAIN g = 1..Len(frames) /\ g = [j \in 1..Len(frames) |-> g[j]]
  BY <1>1 DEF Onwards
<1> HIDE DEF g
<1>3. Len(g) = Len(frames)
  BY <1>1, <1>2, Numbered
<1> QED
  BY <1>3 DEF g

\* Where a jump leads.
LEMMA Leads ==
  ASSUME NEW chunk, NEW pc, NEW d, NEW i, i = chunk.code[pc], NEW left, left = d - Takes(i) + Leaves(i)
  PROVE  /\ i.op \in {"Jump", "JumpIfFalse"} => <<i.arg, left>> \in After(chunk, <<pc, d>>)
         /\ i.op \in Peeks => <<i.arg, d>> \in After(chunk, <<pc, d>>)
<1>1. <<pc, d>>[1] = pc /\ <<pc, d>>[2] = d
  OBVIOUS
<1>2. CASE i.op \in {"Jump", "JumpIfFalse"}
  BY <1>1, <1>2 DEF After, Peeks
<1>3. CASE i.op \in Peeks
  BY <1>1, <1>3 DEF After, Peeks
<1> QED
  BY <1>2, <1>3

\* Where a jump goes is a place.
LEMMA TargetIsNatural ==
  ASSUME NEW chunks, NEW places, Verified(chunks, places), NEW m, Amid(chunks, places, m),
         NEW i, i = Instr(chunks, m.frames), i.op \in {"Jump", "JumpIfFalse"} \cup Peeks
  PROVE  i.arg \in Nat
<1> DEFINE f == Last(m.frames)
           d == Len(m.stack) - f.sbase
           left == d - Takes(i) + Leaves(i)
<1>1. /\ i = chunks[f.chunk].code[f.pc - 1]
      /\ \A q \in After(chunks[f.chunk], <<f.pc - 1, d>>) : <<f.chunk, q[1], q[2]>> \in places
  BY MidwayFacts DEF Amid, Instr
<1>2. <<i.arg, left>> \in After(chunks[f.chunk], <<f.pc - 1, d>>) \/ <<i.arg, d>> \in After(chunks[f.chunk], <<f.pc - 1, d>>)
  <2> HIDE DEF f, d
  <2> QED
    BY <1>1, Leads
<1>3. \E e : <<f.chunk, i.arg, e>> \in places
  <2> HIDE DEF f, d, left
  <2> QED
    BY <1>1, <1>2
<1> QED
  BY <1>3, PlaceFacts

LEMMA JumpsProperly ==
  ASSUME NEW chunks, NEW places, Verified(chunks, places), NEW m, Amid(chunks, places, m),
         NEW i, i = Instr(chunks, m.frames), i.op = "Jump", Limited(m)
  PROVE  Proper(chunks, m, JumpTo(chunks, m, Last(m.frames).pc - 1, i.arg))
<1> DEFINE pc == Last(m.frames).pc - 1
           steps == m.steps + (IF i.arg <= pc + 1 THEN 1 ELSE 0)
           u == [m EXCEPT !.steps = steps]
           n == Goto(u, i.arg)
<1>1. /\ Registers \subseteq DOMAIN m /\ Framed(chunks, places, m.frames, m.stack, m.locals) /\ i.arg \in Nat
      /\ pc \in Nat /\ m.steps \in Nat
  <2>1. pc \in Nat /\ Framed(chunks, places, m.frames, m.stack, m.locals)
    BY MidwayFacts DEF Amid
  <2>2. m.steps \in Nat
    BY LimitsAssumption DEF Limited
  <2> QED
    BY <2>1, <2>2, TargetIsNatural DEF Amid
<1> HIDE DEF pc
<1>2. CASE steps > StepLimit
  <2>1. JumpTo(chunks, m, pc, i.arg) = Raise(chunks, m, "steps")
    BY <1>2 DEF JumpTo
  <2> QED
    BY <2>1, RaisesProperly DEF pc
<1>3. CASE ~(steps > StepLimit)
  <2>1. JumpTo(chunks, m, pc, i.arg) = n
    BY <1>3 DEF JumpTo
  <2>2. u.frames = m.frames /\ u.steps = steps /\ Registers \subseteq DOMAIN u
    <3> HIDE DEF steps
    <3> QED
      BY <1>1 DEF Registers
  <2> HIDE DEF u
  <2>3. n.frames = Onwards(m.frames, i.arg) /\ n.steps = steps
    <3> DEFINE frames == m.frames
    <3>1. u.frames = frames /\ u.steps = steps /\ Registers \subseteq DOMAIN u
      BY <2>2
    <3> HIDE DEF steps, frames
    <3>2. n.frames = Onwards(frames, i.arg) /\ n.steps = steps
      BY <3>1, GotoAlike
    <3> QED
      BY <3>2 DEF frames
  <2> HIDE DEF n
  <2> SUFFICES Proper(chunks, m, n)
    BY <2>1 DEF pc
  <2>4. Len(n.frames) = Len(m.frames)
    BY <1>1, <2>3, OnwardsIsAsLong
  <2>5. steps \in {m.steps, m.steps + 1} /\ steps \in 0..StepLimit
    BY <1>1, <1>3, LimitsAssumption
  <2> HIDE DEF steps
  <2>6. Limited(n)
    BY <2>3, <2>4, <2>5 DEF Limited
  <2>7. CASE i.arg <= pc + 1
    <3>1. steps = m.steps + 1
      BY <2>7 DEF steps
    <3> QED
      BY <2>3, <2>6, <3>1 DEF Proper
  <2>8. CASE ~(i.arg <= pc + 1)
    <3>1. i.arg > pc /\ steps = m.steps
      BY <1>1, <2>8 DEF steps
    <3>2. Goes(m.frames, n.frames)
      BY <1>1, <2>3, <3>1 DEF Goes, pc
    <3> QED
      BY <2>3, <2>6, <3>1, <3>2 DEF Proper
  <2> QED
    BY <2>7, <2>8
<1> QED
  BY <1>2, <1>3 DEF pc

\* An operand goes, and the machine goes on, here or further on.
LEMMA BranchesProperly ==
  ASSUME NEW chunks, NEW places, Verified(chunks, places), OnlyJumpsGoBack(chunks),
         NEW m, Amid(chunks, places, m),
         NEW i, i = Instr(chunks, m.frames), i.op \in {"JumpIfFalse"} \cup Peeks
  PROVE  /\ Proper(chunks, m, Goto(m, i.arg))
         /\ Proper(chunks, m, Drop(Goto(m, i.arg), 1))
<1> DEFINE frames == m.frames
           n == Goto(m, i.arg)
<1>1. /\ Registers \subseteq DOMAIN m /\ Framed(chunks, places, frames, m.stack, m.locals)
      /\ <<Last(frames).chunk, Last(frames).pc - 1, Len(m.stack) - Last(frames).sbase>> \in places
      /\ i = chunks[Last(frames).chunk].code[Last(frames).pc - 1]
  BY DEF Amid, Midway, Instr
<1>2. i.arg \in Nat
  BY TargetIsNatural
<1> HIDE DEF frames
<1>3. Last(frames).chunk \in DOMAIN chunks /\ Last(frames).pc - 1 \in 1..Len(chunks[Last(frames).chunk].code)
  BY <1>1, PlaceFacts
<1>4. i.arg > Last(frames).pc - 1
  BY <1>1, <1>3 DEF OnlyJumpsGoBack
<1>5. Len(Onwards(frames, i.arg)) = Len(frames)
  BY <1>1, OnwardsIsAsLong
<1>6. Proper(chunks, m, n)
  BY <1>1, <1>2, <1>4, <1>5, GoesProperly DEF frames
<1>7. SameCalls(n, Drop(n, 1)) /\ n.status = m.status
  <2>1. Registers \subseteq DOMAIN n /\ n.status = m.status
    BY <1>1, GotoFacts
  <2> HIDE DEF n
  <2> QED
    BY <2>1, CallsStay
<1>8. Drop(n, 1).frames = n.frames /\ Drop(n, 1).steps = n.steps /\ n.status = "run"
  BY <1>7 DEF SameCalls, Amid
<1> HIDE DEF n
<1>9. Proper(chunks, m, Drop(n, 1))
  BY <1>6, <1>8 DEF Proper, Limited, Caught
<1> QED
  BY <1>6, <1>9 DEF n

LEMMA EntersProperly ==
  ASSUME NEW chunks, NEW places, Verified(chunks, places), NEW m, Amid(chunks, places, m), NEW id, NEW argc
  PROVE  Proper(chunks, m, CallFunction(chunks, m, id, argc))
<1> DEFINE frame == [chunk |-> id, pc |-> 1, lbase |-> Len(m.locals), sbase |-> Len(m.stack) - argc]
           extra == chunks[id].num - argc
           u == Drop(m, argc)
           n == [u EXCEPT !.locals = @ \o Operands(m, argc) \o Nulls(extra), !.frames = Append(@, frame)]
<1>1. Registers \subseteq DOMAIN m /\ Len(m.frames) \in Nat /\ m.frames \in Seq(Frame(chunks))
  BY FramedFacts DEF Amid, Midway, Framed
<1>2. SameCalls(m, u)
  BY <1>1, CallsStay
<1>3. CASE Len(m.frames) >= MaxFrames
  <2>1. CallFunction(chunks, m, id, argc) = Raise(chunks, m, "recursion")
    BY <1>3 DEF CallFunction
  <2> QED
    BY <2>1, RaisesProperly
<1>4. CASE ~(Len(m.frames) >= MaxFrames)
  <2>1. CallFunction(chunks, m, id, argc) = n
    BY <1>4 DEF CallFunction
  <2>2. n.frames = Append(m.frames, frame) /\ n.steps = m.steps
    <3> HIDE DEF u, frame
    <3> QED
      BY <1>2 DEF SameCalls, Registers
  <2> HIDE DEF n, frame
  <2>3. Len(n.frames) = Len(m.frames) + 1
    BY <1>1, <2>2
  <2>4. Limited(m) => Limited(n)
    BY <1>1, <1>4, <2>2, <2>3, LimitsAssumption DEF Limited
  <2>5. Goes(m.frames, n.frames)
    BY <2>2 DEF Goes
  <2>6. Proper(chunks, m, n)
    BY <2>2, <2>4, <2>5 DEF Proper
  <2> QED
    BY <2>1, <2>6
<1> QED
  BY <1>3, <1>4

LEMMA PerformsProperly ==
  ASSUME NEW chunks, NEW places, Verified(chunks, places), OnlyJumpsGoBack(chunks),
         NEW m, Amid(chunks, places, m), Limited(m),
         NEW f, f.pc = Last(m.frames).pc - 1, NEW i, i = Instr(chunks, m.frames)
  PROVE  Proper(chunks, m, Perform(chunks, f, i, m))
<1> DEFINE top == Operand(m, 0)
           slot == f.lbase + i.arg
           n == Perform(chunks, f, i, m)
           Binary == {"Add", "Sub", "Mul", "Div", "Mod", "Eq", "Ne", "Lt", "Le", "Gt", "Ge"}
           Results == {"Neg", "GetMember", "GetIndex"}
           Outcomes == {"MakeList", "MakeDict", "SetIndex", "IterList", "CallMethod", "CallNative", "SetMember"}
                         \cup Binary \cup DOMAIN GenericOf
<1> SUFFICES Proper(chunks, m, n)
  OBVIOUS
<1>1. Framed(chunks, places, m.frames, m.stack, m.locals) /\ Registers \subseteq DOMAIN m
  BY AmidFacts
<1>2. CASE i.op \in {"Const", "LoadLocal"}
  <2>1. \E v : n = Push(m, v)
    BY <1>2 DEF Perform, GenericOf
  <2> HIDE DEF n
  <2> QED
    BY <1>1, <2>1, CallsStay, StaysProper
<1>3. CASE i.op \in {"StoreLocal", "Pop"}
  <2>1. n = Drop(m, 1) \/ n = [Drop(m, 1) EXCEPT !.locals[slot] = top]
    BY <1>3 DEF Perform, GenericOf
  <2> HIDE DEF n, slot, top
  <2>2. SameCalls(m, Drop(m, 1)) /\ SameCalls(Drop(m, 1), [Drop(m, 1) EXCEPT !.locals[slot] = top])
    BY <1>1, CallsStay DEF SameCalls
  <2>3. SameCalls(m, n)
    BY <2>1, <2>2 DEF SameCalls
  <2> QED
    BY <2>3, StaysProper
<1>4. CASE i.op \in Outcomes
  <2>1. \E k, call : n = Outcome(chunks, m, k, call)
    BY <1>4 DEF Perform, GenericOf
  <2> HIDE DEF n
  <2> QED
    BY <2>1, ComesOutProperly
<1>5. CASE i.op \in Results
  <2>1. \E k, v : n = Result(chunks, m, k, v)
    BY <1>5 DEF Perform, GenericOf
  <2> HIDE DEF n
  <2> QED
    BY <2>1, ResultsProperly
<1>6. CASE i.op = "Not"
  <2>1. \E v : n = Push(Drop(m, 1), v)
    BY <1>6 DEF Perform, GenericOf
  <2> HIDE DEF n
  <2> QED
    BY <2>1, ResultsProperly
<1>7. CASE i.op = "Jump"
  <2>1. n = JumpTo(chunks, m, f.pc, i.arg)
    BY <1>7 DEF Perform, GenericOf
  <2> HIDE DEF n
  <2> QED
    BY <1>7, <2>1, JumpsProperly
<1>8. CASE i.op \in {"JumpIfFalse"} \cup Peeks
  <2>1. n = Drop(m, 1) \/ n = Goto(m, i.arg) \/ n = Drop(Goto(m, i.arg), 1)
    BY <1>8 DEF Perform, GenericOf, Peeks
  <2> HIDE DEF n
  <2>2. Proper(chunks, m, Drop(m, 1))
    BY <1>1, CallsStay, StaysProper
  <2> QED
    BY <1>8, <2>1, <2>2, BranchesProperly
<1>9. CASE i.op = "CallAsync"
  <2> DEFINE v == <<i.arg[1], Operands(m, i.arg[2])>>
             k == i.arg[2]
  <2>1. n = [Drop(m, k) EXCEPT !.status = "await", !.value = v]
    BY <1>9 DEF Perform, GenericOf
  <2> HIDE DEF n, v, k
  <2>2. SameCalls(m, Drop(m, k)) /\ SameCalls(Drop(m, k), n)
    BY <1>1, <2>1, CallsStay DEF SameCalls
  <2>3. SameCalls(m, n)
    BY <2>2 DEF SameCalls
  <2> QED
    BY <2>3, StaysProper
<1>10. CASE i.op = "CallFunction"
  <2>1. n = CallFunction(chunks, m, i.arg[1], i.arg[2])
    BY <1>10 DEF Perform, GenericOf
  <2> HIDE DEF n
  <2> QED
    BY <2>1, EntersProperly
<1> DEFINE Others == Outcomes \cup Results \cup Peeks
                       \cup {"Const", "LoadLocal", "StoreLocal", "Pop", "Not", "Jump", "JumpIfFalse", "CallAsync", "CallFunction"}
<1>11. CASE i.op \notin Others
  <2>1. \E v : n = Leave(m, v)
    BY <1>11 DEF Perform, GenericOf, Peeks
  <2> HIDE DEF n
  <2> QED
    BY <1>1, <2>1, LeavesProperly
<1> HIDE DEF n
<1> QED
  BY <1>2, <1>3, <1>4, <1>5, <1>6, <1>7, <1>8, <1>9, <1>10, <1>11

\* An instruction of code that the verifier accepts keeps the limits of the
\* machine, and unless it answers, suspends or fails for good it makes
\* headway: no call, return or branch takes a handler back to where it has
\* been without counting a step (vm.cpp:305-308), an error that is caught
\* apart.
THEOREM StepAdvances ==
  ASSUME NEW chunks, NEW places, Verified(chunks, places), OnlyJumpsGoBack(chunks),
         NEW m, Laid(chunks, places, m), m.status = "run", Limited(m)
  PROVE  /\ Limited(Step(chunks, m))
         /\ Step(chunks, m).status = "run" => Advances(chunks, m, Step(chunks, m))
<1> DEFINE f == Last(m.frames)
           code == chunks[f.chunk].code
           i == code[f.pc]
           u == Goto(m, f.pc + 1)
           frames == m.frames
           stack == m.stack
           locals == m.locals
           n == Perform(chunks, f, i, u)
<1>1. /\ Registers \subseteq DOMAIN m /\ Framed(chunks, places, frames, stack, locals)
      /\ Ready(chunks, places, frames, stack, locals)
  BY DEF Laid, Ready
<1>2. /\ Midway(chunks, places, Onwards(frames, f.pc + 1), stack, locals)
      /\ i = Instr(chunks, Onwards(frames, f.pc + 1))
      /\ ~(f.pc > Len(code))
      /\ Last(Onwards(frames, f.pc + 1)).pc = f.pc + 1 /\ f.pc \in Nat
  <2> HIDE DEF stack, locals
  <2> QED
    BY <1>1, Begun
<1>3. /\ u.frames = Onwards(frames, f.pc + 1) /\ u.steps = m.steps
      /\ u.stack = stack /\ u.locals = locals /\ u.status = "run"
      /\ Registers \subseteq DOMAIN u
  <2> HIDE DEF f
  <2> QED
    BY <1>1, GotoFacts, GotoAlike
<1>4. Len(Onwards(frames, f.pc + 1)) = Len(frames)
  BY <1>1, OnwardsIsAsLong
<1>5. Limited(u)
  <2> HIDE DEF u
  <2> QED
    BY <1>3, <1>4 DEF Limited
<1>6. Amid(chunks, places, u) /\ i = Instr(chunks, u.frames) /\ f.pc = Last(u.frames).pc - 1
  <2> HIDE DEF u, f, i, frames, stack, locals
  <2> QED
    BY <1>2, <1>3 DEF Amid
<1>7. Proper(chunks, u, n)
  <2> HIDE DEF f, i, u
  <2> QED
    BY <1>5, <1>6, PerformsProperly
<1>8. Step(chunks, m) = n
  <2>1. Step(chunks, m) = IF f.pc > Len(code) THEN Leave(m, Null) ELSE n
    BY DEF Step
  <2> HIDE DEF f, n, code
  <2> QED
    BY <1>2, <2>1
<1>9. /\ frames \in Seq(Frame(chunks)) /\ frames # <<>> /\ frames[Len(frames)] = f
      /\ Len(frames) \in DOMAIN frames /\ {"chunk", "pc"} \subseteq DOMAIN f
  <2>1. frames \in Seq(Frame(chunks)) /\ frames # <<>>
    BY <1>1 DEF Framed
  <2>2. /\ Len(frames) \in Nat \ {0} /\ DOMAIN frames = 1..Len(frames)
        /\ f = frames[Len(frames)] /\ f \in Frame(chunks)
    BY <1>1, FramedFacts
  <2>3. {"chunk", "pc"} \subseteq DOMAIN f
    <3> HIDE DEF f
    <3> QED
      BY <2>2 DEF Frame
  <2> QED
    BY <2>1, <2>2, <2>3
<1> DEFINE later == n.frames
<1> HIDE DEF f, n, u, i, code
<1>10. Goes(u.frames, later) => Further(frames, later)
  <2> HIDE DEF later, frames
  <2> QED
    BY <1>2, <1>3, <1>9, GoesFurther
<1>11. Caught(chunks, u, n) => Caught(chunks, m, n)
  BY <1>3, <1>4 DEF Caught
<1>12. Limited(n) /\ (n.status = "run" => Advances(chunks, m, n))
  BY <1>3, <1>5, <1>7, <1>10, <1>11 DEF Proper, Advances
<1> QED
  BY <1>8, <1>12

\* A machine starts within the limits, and is resumed within them.
LEMMA StartIsLimited ==
  ASSUME NEW chunks, NEW id, NEW params
  PROVE  Limited(StartVM(chunks, id, params))
BY LimitsAssumption DEF Limited, StartVM

LEMMA ResumeIsLimited ==
  ASSUME NEW m, Registers \subseteq DOMAIN m, Limited(m), NEW v
  PROVE  Limited(ResumeVM(m, v))
<1>1. ResumeVM(m, v).frames = m.frames /\ ResumeVM(m, v).steps = 0
  BY DEF ResumeVM, Registers
<1> QED
  BY <1>1, LimitsAssumption DEF Limited
=============================================================================
