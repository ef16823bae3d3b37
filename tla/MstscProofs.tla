----------------------------- MODULE MstscProofs -----------------------------
(***************************************************************************)
(* What the threads of mstsc-rs keep, for every kind of server, every      *)
(* number of bitmaps and activations, every size of record and of socket,  *)
(* and every interleaving: the types, and the order of the bitmaps.        *)
(***************************************************************************)
EXTENDS Mstsc, SequenceTheorems, WellFoundedInduction, TLAPS

-----------------------------------------------------------------------------
(***************************************************************************)
(* Induction: a set of numbers has a least one.                            *)
(***************************************************************************)
LessThan == {pair \in Nat \X Nat : pair[1] < pair[2]}

\* A set of numbers has a least one.
LEMMA Least ==
    ASSUME NEW T \in SUBSET Nat, T # {}
    PROVE  \E m \in T : \A k \in T : m <= k
  <1>1. IsWellFoundedOn(LessThan, Nat)
    BY NatLessThanWellFounded DEF OpToRel, LessThan
  <1>2. PICK m \in T : \A k \in T : ~(<<k, m>> \in LessThan)
    BY <1>1, WFMin
  <1>3. \A k \in T : ~(k < m)
    BY <1>2 DEF LessThan
  <1> QED
    BY <1>3

\* What never falls from one place to the next never falls.
LEMMA Climbs ==
    ASSUME NEW n \in Nat, NEW f, \A i \in 0 .. n : f[i] \in Nat,
           \A i \in 1 .. n : f[i - 1] <= f[i]
    PROVE  \A i, j \in 0 .. n : i <= j => f[i] <= f[j]
  <1> SUFFICES ASSUME NEW i \in 0 .. n, NEW j \in 0 .. n, i <= j, f[j] < f[i]
               PROVE  FALSE
    OBVIOUS
  <1> DEFINE T == {k \in 0 .. n : i <= k /\ f[k] < f[i]}
  <1>1. T \in SUBSET Nat /\ T # {}
    OBVIOUS
  <1>2. PICK m \in T : \A k \in T : m <= k
    BY <1>1, Least
  <1>3. m - 1 \in 0 .. n /\ i <= m - 1 /\ m \in 1 .. n /\ m - 1 < m
    BY <1>2
  <1>4. m - 1 \notin T
    BY <1>2, <1>3
  <1>5. f[i] <= f[m - 1] /\ f[m - 1] <= f[m] /\ f[m] < f[i]
    BY <1>2, <1>3, <1>4
  <1>6. f[i] \in Nat /\ f[m - 1] \in Nat /\ f[m] \in Nat
    BY <1>3
  <1> QED
    BY <1>5, <1>6

\* What climbs passes every value on its way.
LEMMA Passes ==
    ASSUME NEW n \in Nat, NEW f, \A i \in 0 .. n : f[i] \in Nat,
           NEW v \in Nat, f[0] < v, v <= f[n]
    PROVE  \E m \in 1 .. n : f[m - 1] < v /\ v <= f[m]
  <1> DEFINE T == {k \in 0 .. n : v <= f[k]}
  <1>1. T \in SUBSET Nat /\ T # {}
    OBVIOUS
  <1>2. PICK m \in T : \A k \in T : m <= k
    BY <1>1, Least
  <1>3. m # 0
    BY <1>2
  <1>4. m \in 1 .. n /\ m - 1 \in 0 .. n /\ m - 1 < m
    BY <1>2, <1>3
  <1>5. m - 1 \notin T
    BY <1>2, <1>4
  <1>6. f[m - 1] < v
    BY <1>4, <1>5
  <1> QED
    BY <1>2, <1>4, <1>6

-----------------------------------------------------------------------------
(***************************************************************************)
(* Chains.  A state is whether a share is active and how many bitmaps went *)
(* by; a frame, and a record of frames, leads from one state to another.   *)
(* Chain says that a sequence of them leads from p to q.                   *)
(***************************************************************************)
State == [on : BOOLEAN, count : Nat]

Chain(s, R, p, q) ==
    \E g \in [0 .. Len(s) -> State] :
        /\ g[0] = p /\ g[Len(s)] = q
        /\ \A i \in 1 .. Len(s) : <<g[i - 1], s[i], g[i]>> \in R

\* No frames lead nowhere.
LEMMA ChainOfNone ==
    ASSUME NEW R, NEW p \in State, NEW q
    PROVE  Chain(<<>>, R, p, q) <=> p = q
  <1>1. Len(<<>>) = 0 /\ 0 .. 0 = {0} /\ 1 .. 0 = {}
    OBVIOUS
  <1>2. ASSUME p = q PROVE Chain(<<>>, R, p, q)
    <2>1. PICK g : g = [i \in 0 .. 0 |-> p]
      OBVIOUS
    <2>2. g \in [0 .. Len(<<>>) -> State] /\ g[0] = p
      BY <1>1, <2>1
    <2> QED
      BY <1>1, <1>2, <2>2 DEF Chain
  <1>3. ASSUME Chain(<<>>, R, p, q) PROVE p = q
    BY <1>1, <1>3 DEF Chain
  <1> QED
    BY <1>2, <1>3

\* A chain is a step and a chain,
LEMMA ChainHead ==
    ASSUME NEW S, NEW R, NEW s \in Seq(S), s # <<>>, NEW p, NEW q, Chain(s, R, p, q)
    PROVE  \E r \in State : <<p, Head(s), r>> \in R /\ Chain(Tail(s), R, r, q)
  <1>1. PICK g \in [0 .. Len(s) -> State] :
            /\ g[0] = p /\ g[Len(s)] = q
            /\ \A i \in 1 .. Len(s) : <<g[i - 1], s[i], g[i]>> \in R
    BY DEF Chain
  <1>2. /\ Len(s) \in Nat /\ Len(s) >= 1 /\ Len(Tail(s)) = Len(s) - 1
        /\ Head(s) = s[1] /\ \A i \in 1 .. Len(s) - 1 : Tail(s)[i] = s[i + 1]
    OBVIOUS
  <1>3. PICK n \in Nat : n = Len(s) - 1
    <2>1. Len(s) - 1 \in Nat
      BY <1>2
    <2> QED
      BY <2>1
  <1>4. PICK h : h = [i \in 0 .. n |-> g[i + 1]]
    OBVIOUS
  <1>5. \A i \in 0 .. n : i + 1 \in 0 .. Len(s)
    BY <1>2, <1>3
  <1>6. h \in [0 .. n -> State]
    BY <1>4, <1>5
  <1>7. h[0] = g[1] /\ h[n] = q
    BY <1>1, <1>2, <1>3, <1>4
  <1>8. ASSUME NEW i \in 1 .. n
        PROVE  <<h[i - 1], Tail(s)[i], h[i]>> \in R
    <2>1. i - 1 \in 0 .. n /\ i \in 0 .. n /\ i - 1 + 1 = i /\ i + 1 - 1 = i
          /\ i + 1 \in 1 .. Len(s) /\ i \in 1 .. Len(s) - 1
      BY <1>2, <1>3
    <2>2. h[i - 1] = g[i] /\ h[i] = g[i + 1] /\ Tail(s)[i] = s[i + 1]
      BY <1>2, <1>4, <2>1
    <2>3. <<g[i + 1 - 1], s[i + 1], g[i + 1]>> \in R
      BY <1>1, <2>1
    <2> QED
      BY <2>1, <2>2, <2>3
  <1>9. Chain(Tail(s), R, g[1], q)
    BY <1>2, <1>3, <1>6, <1>7, <1>8 DEF Chain
  <1>10. 1 \in 1 .. Len(s) /\ 1 - 1 = 0 /\ 1 \in 0 .. Len(s)
    BY <1>2
  <1>11. <<p, Head(s), g[1]>> \in R /\ g[1] \in State
    BY <1>1, <1>2, <1>10
  <1> QED
    BY <1>9, <1>11

\* from either end.
LEMMA ChainLast ==
    ASSUME NEW S, NEW R, NEW s \in Seq(S), s # <<>>, NEW p, NEW q, Chain(s, R, p, q)
    PROVE  \E r \in State : Chain(Front(s), R, p, r) /\ <<r, Last(s), q>> \in R
  <1>1. PICK g \in [0 .. Len(s) -> State] :
            /\ g[0] = p /\ g[Len(s)] = q
            /\ \A i \in 1 .. Len(s) : <<g[i - 1], s[i], g[i]>> \in R
    BY DEF Chain
  <1>2. /\ Len(s) \in Nat /\ Len(s) >= 1 /\ Len(Front(s)) = Len(s) - 1
        /\ Last(s) = s[Len(s)] /\ \A i \in 1 .. Len(s) - 1 : Front(s)[i] = s[i]
    BY DEF Front, Last
  <1>3. PICK n \in Nat : n = Len(s) - 1
    BY <1>2
  <1>4. PICK h : h = [i \in 0 .. n |-> g[i]]
    OBVIOUS
  <1>5. h \in [0 .. n -> State] /\ h[0] = p /\ h[n] = g[n]
    BY <1>1, <1>2, <1>3, <1>4
  <1>6. ASSUME NEW i \in 1 .. n
        PROVE  <<h[i - 1], Front(s)[i], h[i]>> \in R
    <2>1. i - 1 \in 0 .. n /\ i \in 0 .. n /\ i \in 1 .. Len(s) /\ i \in 1 .. Len(s) - 1
      BY <1>2, <1>3
    <2>2. h[i - 1] = g[i - 1] /\ h[i] = g[i] /\ Front(s)[i] = s[i]
      BY <1>2, <1>4, <2>1
    <2> QED
      BY <1>1, <2>1, <2>2
  <1>7. Chain(Front(s), R, p, g[n])
    BY <1>2, <1>3, <1>5, <1>6 DEF Chain
  <1>8. <<g[n], Last(s), q>> \in R /\ g[n] \in State
    BY <1>1, <1>2, <1>3
  <1> QED
    BY <1>7, <1>8

\* A chain goes on with one more step,
LEMMA ChainAppend ==
    ASSUME NEW S, NEW R, NEW s \in Seq(S), NEW x \in S, NEW p, NEW q, NEW r \in State,
           Chain(s, R, p, q), <<q, x, r>> \in R
    PROVE  Chain(Append(s, x), R, p, r)
  <1>1. PICK g \in [0 .. Len(s) -> State] :
            /\ g[0] = p /\ g[Len(s)] = q
            /\ \A i \in 1 .. Len(s) : <<g[i - 1], s[i], g[i]>> \in R
    BY DEF Chain
  <1>2. PICK n \in Nat : n = Len(s)
    OBVIOUS
  <1>3. /\ Len(Append(s, x)) = n + 1 /\ Append(s, x)[n + 1] = x
        /\ \A i \in 1 .. n : Append(s, x)[i] = s[i]
    BY <1>2
  <1>4. PICK h : h = [i \in 0 .. n + 1 |-> IF i <= n THEN g[i] ELSE r]
    OBVIOUS
  <1>5. h \in [0 .. n + 1 -> State]
    <2>1. \A i \in 0 .. n + 1 : i <= n => i \in 0 .. n
      OBVIOUS
    <2> QED
      BY <1>2, <1>4, <2>1
  <1>6. h[0] = p /\ h[n + 1] = r /\ h[n] = q
    BY <1>1, <1>2, <1>4
  <1>7. ASSUME NEW i \in 1 .. n + 1
        PROVE  <<h[i - 1], Append(s, x)[i], h[i]>> \in R
    <2>1. CASE i = n + 1
      BY <1>3, <1>6, <2>1
    <2>2. CASE i # n + 1
      <3>1. i \in 1 .. n /\ i - 1 \in 0 .. n + 1 /\ i \in 0 .. n + 1 /\ i - 1 <= n /\ i <= n
        BY <2>2
      <3>2. h[i - 1] = g[i - 1] /\ h[i] = g[i] /\ Append(s, x)[i] = s[i]
        BY <1>3, <1>4, <3>1
      <3> QED
        BY <1>1, <1>2, <3>1, <3>2
    <2> QED
      BY <2>1, <2>2
  <1> QED
    BY <1>3, <1>5, <1>6, <1>7 DEF Chain

\* or begins with one.
LEMMA ChainCons ==
    ASSUME NEW S, NEW R, NEW s \in Seq(S), NEW x \in S, NEW p \in State, NEW q, NEW r,
           <<p, x, q>> \in R, Chain(s, R, q, r)
    PROVE  Chain(<<x>> \o s, R, p, r)
  <1>1. PICK g \in [0 .. Len(s) -> State] :
            /\ g[0] = q /\ g[Len(s)] = r
            /\ \A i \in 1 .. Len(s) : <<g[i - 1], s[i], g[i]>> \in R
    BY DEF Chain
  <1>2. PICK n \in Nat : n = Len(s)
    OBVIOUS
  <1>3. PICK t : t = <<x>> \o s
    OBVIOUS
  <1>4. /\ Len(t) = n + 1 /\ t[1] = x
        /\ \A i \in 2 .. n + 1 : t[i] = s[i - 1]
    BY <1>2, <1>3
  <1>5. PICK h : h = [i \in 0 .. n + 1 |-> IF i = 0 THEN p ELSE g[i - 1]]
    OBVIOUS
  <1>6. h \in [0 .. n + 1 -> State]
    <2>1. \A i \in 0 .. n + 1 : i # 0 => i - 1 \in 0 .. n
      OBVIOUS
    <2> QED
      BY <1>2, <1>5, <2>1
  <1>7. h[0] = p /\ h[n + 1] = r /\ h[1] = q
    <2>1. 0 \in 0 .. n + 1 /\ 1 \in 0 .. n + 1 /\ n + 1 \in 0 .. n + 1
          /\ 1 - 1 = 0 /\ n + 1 - 1 = n /\ 1 # 0 /\ n + 1 # 0
      OBVIOUS
    <2> QED
      BY <1>1, <1>2, <1>5, <2>1
  <1>8. ASSUME NEW i \in 1 .. n + 1
        PROVE  <<h[i - 1], t[i], h[i]>> \in R
    <2>1. CASE i = 1
      BY <1>4, <1>7, <2>1
    <2>2. CASE i # 1
      <3>1. i \in 2 .. n + 1 /\ i - 1 \in 1 .. n /\ i - 1 \in 0 .. n + 1 /\ i \in 0 .. n + 1
            /\ i - 1 # 0 /\ i # 0
        BY <2>2
      <3>2. h[i - 1] = g[i - 1 - 1] /\ h[i] = g[i - 1] /\ t[i] = s[i - 1]
        BY <1>4, <1>5, <3>1
      <3> QED
        BY <1>1, <1>2, <3>1, <3>2
    <2> QED
      BY <2>1, <2>2
  <1> QED
    BY <1>3, <1>4, <1>6, <1>7, <1>8 DEF Chain

-----------------------------------------------------------------------------
(***************************************************************************)
(* What frames and records do to a state.                                  *)
(***************************************************************************)
AnyFrame == Frames \cup {Part, None}

FrameStep ==
    {t \in State \X AnyFrame \X State :
        \/ t[2].type \in {"Part", "None", "Disconnect"} /\ t[3] = t[1]
        \/ t[2].type = "Activate" /\ t[3] = [on |-> TRUE, count |-> t[1].count]
        \/ t[2].type = "Deactivate" /\ t[3] = [on |-> FALSE, count |-> t[1].count]
        \/ /\ t[2].type = "Bitmap" /\ t[1].on
           /\ t[2].n = t[1].count + 1
           /\ t[3] = [on |-> TRUE, count |-> t[2].n]}

RecordStep ==
    {t \in State \X Seq(AnyFrame) \X State : Chain(t[2], FrameStep, t[1], t[3])}

\* The kinds of frames.
LEMMA FrameKinds ==
    ASSUME NEW x \in AnyFrame
    PROVE  /\ x.type \in {"Part", "None", "Activate", "Deactivate", "Disconnect", "Bitmap"}
           /\ x.n \in Nat
           /\ x.type = "Part" <=> x = Part
           /\ x.type = "None" <=> x = None
           /\ x.type = "Bitmap" => x.n \in 1 .. MaxBitmaps
           /\ x \in Frames <=> x # Part /\ x # None
  <1>1. CASE x \in {Frame(t) : t \in {"Activate", "Deactivate", "Disconnect"}}
    BY <1>1 DEF Frame, Part, None, Frames
  <1>2. CASE x \in {Bitmap(n) : n \in 1 .. MaxBitmaps}
    BY <1>2, MstscAssumption DEF Bitmap, Part, None, Frames
  <1>3. CASE x \in {Part, None}
    <2>1. x \notin Frames
      BY <1>3 DEF Part, None, Frames, Frame, Bitmap
    <2> QED
      BY <1>3, <2>1 DEF Part, None
  <1> QED
    BY <1>1, <1>2, <1>3 DEF AnyFrame, Frames

\* What a frame does to a state,
LEMMA FrameSteps ==
    ASSUME NEW p, NEW x, NEW q, <<p, x, q>> \in FrameStep
    PROVE  /\ p \in State /\ x \in AnyFrame /\ q \in State
           /\ p.count \in Nat /\ q.count \in Nat
           /\ x.type # "Bitmap" => q.count = p.count
           /\ x.type = "Bitmap" => p.on /\ q.on /\ x.n = p.count + 1 /\ q.count = p.count + 1
           /\ x.type \in {"Part", "None", "Disconnect"} => q = p
           /\ x.type = "Activate" => q = [on |-> TRUE, count |-> p.count]
           /\ x.type = "Deactivate" => q = [on |-> FALSE, count |-> p.count]
  <1>1. PICK t : t = <<p, x, q>>
    OBVIOUS
  <1>2. t[1] = p /\ t[2] = x /\ t[3] = q
    BY <1>1
  <1>3. t \in FrameStep
    BY <1>1
  <1>4. /\ p \in State /\ x \in AnyFrame /\ q \in State
        /\ \/ x.type \in {"Part", "None", "Disconnect"} /\ q = p
           \/ x.type = "Activate" /\ q = [on |-> TRUE, count |-> p.count]
           \/ x.type = "Deactivate" /\ q = [on |-> FALSE, count |-> p.count]
           \/ /\ x.type = "Bitmap" /\ p.on
              /\ x.n = p.count + 1
              /\ q = [on |-> TRUE, count |-> x.n]
    BY <1>2, <1>3 DEF FrameStep
  <1>5. p.count \in Nat /\ q.count \in Nat
    BY <1>4 DEF State
  <1> QED
    BY <1>4, <1>5

\* and the other way round.
LEMMA IsFrameStep ==
    ASSUME NEW p \in State, NEW x \in AnyFrame, NEW q \in State,
           \/ x.type \in {"Part", "None", "Disconnect"} /\ q = p
           \/ x.type = "Activate" /\ q = [on |-> TRUE, count |-> p.count]
           \/ x.type = "Deactivate" /\ q = [on |-> FALSE, count |-> p.count]
           \/ /\ x.type = "Bitmap" /\ p.on
              /\ x.n = p.count + 1
              /\ q = [on |-> TRUE, count |-> x.n]
    PROVE  <<p, x, q>> \in FrameStep
  <1>1. PICK t : t = <<p, x, q>>
    OBVIOUS
  <1>2. t[1] = p /\ t[2] = x /\ t[3] = q /\ t \in State \X AnyFrame \X State
    BY <1>1
  <1> QED
    BY <1>1, <1>2 DEF FrameStep

\* A record is a chain of frames.
LEMMA RecordSteps ==
    ASSUME NEW p, NEW x, NEW q
    PROVE  <<p, x, q>> \in RecordStep <=>
               /\ p \in State /\ x \in Seq(AnyFrame) /\ q \in State
               /\ Chain(x, FrameStep, p, q)
  <1>1. PICK t : t = <<p, x, q>>
    OBVIOUS
  <1>2. /\ t[1] = p /\ t[2] = x /\ t[3] = q
        /\ t \in State \X Seq(AnyFrame) \X State <=>
               p \in State /\ x \in Seq(AnyFrame) /\ q \in State
    BY <1>1
  <1> QED
    BY <1>1, <1>2 DEF RecordStep

\* A chain leads from a state to a state.
LEMMA ChainEnds ==
    ASSUME NEW S, NEW R, NEW s \in Seq(S), NEW p, NEW q, Chain(s, R, p, q)
    PROVE  p \in State /\ q \in State
  <1>1. PICK g \in [0 .. Len(s) -> State] : g[0] = p /\ g[Len(s)] = q
    BY DEF Chain
  <1>2. 0 \in 0 .. Len(s) /\ Len(s) \in 0 .. Len(s)
    OBVIOUS
  <1> QED
    BY <1>1, <1>2

\* A number between two others.
LEMMA Between ==
    ASSUME NEW a \in Nat, NEW b \in Nat, NEW x \in Nat, a < x, x <= b
    PROVE  x \in a + 1 .. b
  OBVIOUS

\* The bitmaps of a chain of frames: rising, and all those the states tell.
Carries(s, a, b) ==
    /\ a \in Nat /\ b \in Nat /\ a <= b
    /\ \A j \in DOMAIN s : s[j].type = "Bitmap" => s[j].n \in a + 1 .. b
    /\ \A i, j \in DOMAIN s :
          i < j /\ s[i].type = "Bitmap" /\ s[j].type = "Bitmap" => s[i].n < s[j].n
    /\ \A v \in a + 1 .. b : \E j \in DOMAIN s : s[j].type = "Bitmap" /\ s[j].n = v

\* A chain of frames carries the bitmaps between its ends, in order.
LEMMA BitmapsOfFrames ==
    ASSUME NEW s \in Seq(AnyFrame), NEW p, NEW q, Chain(s, FrameStep, p, q)
    PROVE  Carries(s, p.count, q.count)
  <1>1. PICK g \in [0 .. Len(s) -> State] :
            /\ g[0] = p /\ g[Len(s)] = q
            /\ \A i \in 1 .. Len(s) : <<g[i - 1], s[i], g[i]>> \in FrameStep
    BY DEF Chain
  <1>2. PICK n \in Nat : n = Len(s) /\ DOMAIN s = 1 .. n
    OBVIOUS
  <1>3. PICK f : f = [i \in 0 .. n |-> g[i].count]
    OBVIOUS
  <1>4. /\ \A i \in 0 .. n : f[i] \in Nat
        /\ f[0] = p.count /\ f[n] = q.count
    <2>1. \A i \in 0 .. n : g[i] \in State
      BY <1>2
    <2>2. 0 \in 0 .. n /\ n \in 0 .. n
      OBVIOUS
    <2> QED
      BY <1>1, <1>2, <1>3, <2>1, <2>2 DEF State
  <1>5. ASSUME NEW i \in 1 .. n
        PROVE  /\ i \in 0 .. n /\ i - 1 \in 0 .. n
               /\ f[i - 1] <= f[i]
               /\ s[i].type = "Bitmap" => s[i].n = f[i] /\ f[i] = f[i - 1] + 1
               /\ s[i].type # "Bitmap" => f[i] = f[i - 1]
    <2>1. i \in 0 .. n /\ i - 1 \in 0 .. n
      OBVIOUS
    <2>2. <<g[i - 1], s[i], g[i]>> \in FrameStep
      BY <1>1, <1>2
    <2>3. f[i] = g[i].count /\ f[i - 1] = g[i - 1].count
      BY <1>3, <2>1
    <2>4. PICK c, d, x : c = g[i - 1] /\ d = g[i] /\ x = s[i]
      OBVIOUS
    <2>5. <<c, x, d>> \in FrameStep
      BY <2>2, <2>4
    <2>6. /\ c.count \in Nat /\ d.count \in Nat
          /\ x.type # "Bitmap" => d.count = c.count
          /\ x.type = "Bitmap" => x.n = c.count + 1 /\ d.count = c.count + 1
      BY <2>5, FrameSteps
    <2>7. f[i] = d.count /\ f[i - 1] = c.count
      BY <2>3, <2>4
    <2>8. c.count <= d.count
      BY <2>6
    <2> QED
      BY <2>1, <2>4, <2>6, <2>7, <2>8
  <1>6. \A i, j \in 0 .. n : i <= j => f[i] <= f[j]
    BY <1>4, <1>5, Climbs
  <1>7. p.count \in Nat /\ q.count \in Nat /\ p.count <= q.count
    <2>1. 0 \in 0 .. n /\ n \in 0 .. n /\ 0 <= n
      OBVIOUS
    <2> QED
      BY <1>4, <1>6, <2>1
  <1>8. ASSUME NEW j \in 1 .. n, s[j].type = "Bitmap"
        PROVE  s[j].n \in p.count + 1 .. q.count
    <2>1. 0 \in 0 .. n /\ n \in 0 .. n /\ 0 <= j - 1 /\ j <= n
      OBVIOUS
    <2>2. f[0] <= f[j - 1] /\ f[j] <= f[n] /\ f[j] = f[j - 1] + 1 /\ s[j].n = f[j]
      BY <1>5, <1>6, <1>8, <2>1
    <2>3. f[0] \in Nat /\ f[j - 1] \in Nat /\ f[n] \in Nat
      BY <1>4, <1>5, <2>1
    <2> QED
      BY <1>4, <2>2, <2>3
  <1>9. ASSUME NEW i \in 1 .. n, NEW j \in 1 .. n, i < j,
               s[i].type = "Bitmap", s[j].type = "Bitmap"
        PROVE  s[i].n < s[j].n
    <2>1. i \in 0 .. n /\ j - 1 \in 0 .. n /\ i <= j - 1
      BY <1>9
    <2>2. s[i].n = f[i] /\ s[j].n = f[j] /\ f[j] = f[j - 1] + 1
      BY <1>5, <1>9
    <2>3. f[i] <= f[j - 1]
      BY <1>6, <2>1
    <2>4. f[i] \in Nat /\ f[j - 1] \in Nat
      BY <1>4, <2>1
    <2> QED
      BY <2>2, <2>3, <2>4
  <1>10. ASSUME NEW v \in p.count + 1 .. q.count
         PROVE  \E j \in 1 .. n : s[j].type = "Bitmap" /\ s[j].n = v
    <2>1. v \in Nat /\ f[0] < v /\ v <= f[n]
      BY <1>4, <1>7
    <2>2. PICK m \in 1 .. n : f[m - 1] < v /\ v <= f[m]
      BY <1>4, <2>1, Passes
    <2>3. f[m] \in Nat /\ f[m - 1] \in Nat
      BY <1>4, <1>5
    <2>4. s[m].type = "Bitmap"
      BY <1>5, <2>2, <2>3
    <2>5. s[m].n = f[m] /\ f[m] = f[m - 1] + 1
      BY <1>5, <2>4
    <2>6. s[m].n = v
      BY <2>1, <2>2, <2>3, <2>5
    <2> QED
      BY <2>4, <2>6
  <1> QED
    BY <1>2, <1>7, <1>8, <1>9, <1>10 DEF Carries

\* ... and of a chain of records.
LEMMA BitmapsOfRecords ==
    ASSUME NEW L \in Seq(Seq(AnyFrame)), NEW p, NEW q, Chain(L, RecordStep, p, q)
    PROVE  /\ p.count \in Nat /\ q.count \in Nat
           /\ \A i \in DOMAIN L : \A j \in DOMAIN L[i] :
                 L[i][j].type = "Bitmap" => L[i][j].n \in p.count + 1 .. q.count
           /\ \A i, k \in DOMAIN L : \A j \in DOMAIN L[i], l \in DOMAIN L[k] :
                 /\ i < k \/ (i = k /\ j < l)
                 /\ L[i][j].type = "Bitmap" /\ L[k][l].type = "Bitmap"
                 => L[i][j].n < L[k][l].n
           /\ \A v \in p.count + 1 .. q.count :
                 \E i \in DOMAIN L : \E j \in DOMAIN L[i] :
                     L[i][j].type = "Bitmap" /\ L[i][j].n = v
  <1>1. PICK g \in [0 .. Len(L) -> State] :
            /\ g[0] = p /\ g[Len(L)] = q
            /\ \A i \in 1 .. Len(L) : <<g[i - 1], L[i], g[i]>> \in RecordStep
    BY DEF Chain
  <1>2. PICK n \in Nat : n = Len(L) /\ DOMAIN L = 1 .. n
    OBVIOUS
  <1>3. PICK f : f = [i \in 0 .. n |-> g[i].count]
    OBVIOUS
  <1>4. /\ \A i \in 0 .. n : f[i] \in Nat
        /\ f[0] = p.count /\ f[n] = q.count
    <2>1. \A i \in 0 .. n : g[i] \in State
      BY <1>2
    <2>2. 0 \in 0 .. n /\ n \in 0 .. n
      OBVIOUS
    <2> QED
      BY <1>1, <1>2, <1>3, <2>1, <2>2 DEF State
  <1>5. ASSUME NEW i \in 1 .. n
        PROVE  /\ i \in 0 .. n /\ i - 1 \in 0 .. n
               /\ L[i] \in Seq(AnyFrame) /\ f[i - 1] <= f[i]
               /\ Carries(L[i], f[i - 1], f[i])
    <2>1. i \in 0 .. n /\ i - 1 \in 0 .. n
      OBVIOUS
    <2>2. L[i] \in Seq(AnyFrame) /\ Chain(L[i], FrameStep, g[i - 1], g[i])
      BY <1>1, <1>2, RecordSteps
    <2>3. f[i] = g[i].count /\ f[i - 1] = g[i - 1].count
      BY <1>3, <2>1
    <2>4. Carries(L[i], g[i - 1].count, g[i].count)
      BY <2>2, BitmapsOfFrames
    <2>5. Carries(L[i], f[i - 1], f[i])
      BY <2>3, <2>4
    <2> QED
      BY <2>1, <2>2, <2>5 DEF Carries
  <1>6. \A i, j \in 0 .. n : i <= j => f[i] <= f[j]
    BY <1>4, <1>5, Climbs
  <1>7. p.count \in Nat /\ q.count \in Nat
    <2>1. 0 \in 0 .. n /\ n \in 0 .. n
      OBVIOUS
    <2> QED
      BY <1>4, <2>1
  <1>8. ASSUME NEW i \in 1 .. n, NEW j \in DOMAIN L[i], L[i][j].type = "Bitmap"
        PROVE  L[i][j].n \in p.count + 1 .. q.count
    <2>1. 0 \in 0 .. n /\ n \in 0 .. n /\ 0 <= i - 1 /\ i <= n
      OBVIOUS
    <2>2. f[0] <= f[i - 1] /\ f[i] <= f[n]
      BY <1>5, <1>6, <2>1
    <2>3. L[i][j].n \in f[i - 1] + 1 .. f[i]
      BY <1>5, <1>8 DEF Carries
    <2>4. f[0] \in Nat /\ f[i - 1] \in Nat /\ f[i] \in Nat /\ f[n] \in Nat
      BY <1>4, <1>5, <2>1
    <2>5. L[i][j].n \in f[0] + 1 .. f[n]
      <3>1. PICK a \in Nat, b \in Nat, c \in Nat, d \in Nat :
                a = f[0] /\ b = f[i - 1] /\ c = f[i] /\ d = f[n]
        BY <2>3, <2>4
      <3>2. a <= b /\ c <= d
        BY <2>2, <3>1
      <3>3. PICK x \in b + 1 .. c : x = L[i][j].n
        BY <2>3, <3>1
      <3>4. x \in a + 1 .. d
        BY <3>2
      <3> QED
        BY <3>1, <3>3, <3>4
    <2> QED
      BY <1>4, <2>5
  <1>9. ASSUME NEW i \in 1 .. n, NEW k \in 1 .. n, NEW j \in DOMAIN L[i], NEW l \in DOMAIN L[k],
               i < k, L[i][j].type = "Bitmap", L[k][l].type = "Bitmap"
        PROVE  L[i][j].n < L[k][l].n
    <2>1. i \in 0 .. n /\ k - 1 \in 0 .. n /\ i <= k - 1
      BY <1>9
    <2>2. f[i] <= f[k - 1]
      BY <1>6, <2>1
    <2>3. L[i][j].n \in f[i - 1] + 1 .. f[i]
      BY <1>5, <1>9 DEF Carries
    <2>5. L[k][l].n \in f[k - 1] + 1 .. f[k]
      BY <1>5, <1>9 DEF Carries
    <2>4. f[i - 1] \in Nat /\ f[i] \in Nat /\ f[k - 1] \in Nat /\ f[k] \in Nat
      BY <1>4, <1>5
    <2>6. PICK a \in Nat, b \in Nat, c \in Nat, d \in Nat :
              a = f[i - 1] /\ b = f[i] /\ c = f[k - 1] /\ d = f[k]
      BY <2>4
    <2>7. b <= c
      BY <2>2, <2>6
    <2>8. PICK x \in a + 1 .. b, y \in c + 1 .. d : x = L[i][j].n /\ y = L[k][l].n
      BY <2>3, <2>5, <2>6
    <2>9. x < y
      BY <2>7
    <2> QED
      BY <2>8, <2>9
  <1>10. ASSUME NEW v \in p.count + 1 .. q.count
         PROVE  \E i \in 1 .. n : \E j \in DOMAIN L[i] :
                    L[i][j].type = "Bitmap" /\ L[i][j].n = v
    <2>1. v \in Nat /\ f[0] < v /\ v <= f[n]
      BY <1>4, <1>7
    <2>2. PICK m \in 1 .. n : f[m - 1] < v /\ v <= f[m]
      BY <1>4, <2>1, Passes
    <2>3. f[m] \in Nat /\ f[m - 1] \in Nat
      BY <1>4, <1>5
    <2>4. v \in f[m - 1] + 1 .. f[m]
      BY <2>1, <2>2, <2>3, Between
    <2> QED
      BY <1>5, <2>4 DEF Carries
  <1>11. ASSUME NEW i \in 1 .. n, NEW j \in DOMAIN L[i], NEW l \in DOMAIN L[i],
                j < l, L[i][j].type = "Bitmap", L[i][l].type = "Bitmap"
         PROVE  L[i][j].n < L[i][l].n
    BY <1>5, <1>11 DEF Carries
  <1> QED
    BY Zenon, <1>2, <1>7, <1>8, <1>9, <1>10, <1>11
-----------------------------------------------------------------------------
(***************************************************************************)
(* The inductive invariant.  Everything upstream, from the frame in the    *)
(* hand of the rdp thread to the record the server fills, leads from where *)
(* the client is to where the server is.  It says more than the order of   *)
(* the bitmaps: no bitmap meets a client outside of Data, which would not  *)
(* take it.                                                                *)
(***************************************************************************)
Here == [on |-> active, count |-> Len(Delivered)]
There == [on |-> serving, count |-> sent]

Upstream(a, b, c) ==
    /\ <<Here, accepted, a>> \in FrameStep
    /\ Chain(buffer, FrameStep, a, b)
    /\ Chain(socket, RecordStep, b, c)
    /\ Chain(writing, FrameStep, c, There)

Connected == \E a, b, c \in State : Upstream(a, b, c)

Counted == \A i \in DOMAIN Delivered : Delivered[i] = i

Kept == rdp # "panicked" => Connected /\ Counted
IInv == MstscTypeOK /\ Kept

-----------------------------------------------------------------------------
(***************************************************************************)
(* Types.                                                                  *)
(***************************************************************************)
LEMMA FrameTypes ==
    /\ None \in AnyFrame /\ Part \in AnyFrame /\ None \notin Frames
    /\ \A t \in {"Activate", "Deactivate", "Disconnect"} : Frame(t) \in Frames
    /\ \A n \in 1 .. MaxBitmaps : Bitmap(n) \in Frames
    /\ Frames \subseteq AnyFrame /\ Frames \cup {Part} \subseteq AnyFrame
    /\ None.type = "None" /\ Part.type = "Part"
  BY DEF None, Part, AnyFrame, Frames, Frame, Bitmap

\* A sequence over a set is one over a larger set.
LEMMA Widen ==
    ASSUME NEW S, NEW T, S \subseteq T, NEW s \in Seq(S)
    PROVE  s \in Seq(T)
  OBVIOUS

\* The bitmaps are numbers.
LEMMA Numbers ==
    ASSUME NEW s \in Seq(1 .. MaxBitmaps)
    PROVE  s \in Seq(Nat) /\ Len(s) + 1 \in Nat
  BY MstscAssumption

\* The sequences of the state.
LEMMA TypesOfSequences ==
    ASSUME MstscTypeOK
    PROVE  /\ buffer \in Seq(AnyFrame) /\ writing \in Seq(AnyFrame)
           /\ socket \in Seq(Seq(AnyFrame))
           /\ accepted \in AnyFrame
           /\ shown \in Seq(1 .. MaxBitmaps) /\ channel \in Seq(1 .. MaxBitmaps)
           /\ Delivered \in Seq(1 .. MaxBitmaps) /\ Len(Delivered) \in Nat
           /\ Here \in State /\ There \in State /\ sent \in Nat
  <1>1. /\ buffer \in Seq(Frames \cup {Part}) /\ writing \in Seq(Frames)
        /\ socket \in Seq(Seq(Frames \cup {Part}))
        /\ accepted \in Frames \cup {None} /\ sent \in 0 .. MaxBitmaps
        /\ shown \in Seq(1 .. MaxBitmaps) /\ channel \in Seq(1 .. MaxBitmaps)
        /\ active \in BOOLEAN /\ serving \in BOOLEAN
    BY DEF MstscTypeOK
  <1>2. Seq(Frames \cup {Part}) \subseteq Seq(AnyFrame)
    BY FrameTypes
  <1>3. buffer \in Seq(AnyFrame) /\ writing \in Seq(AnyFrame)
    BY <1>1, FrameTypes, Widen
  <1>4. socket \in Seq(Seq(AnyFrame))
    BY <1>1, <1>2, Widen
  <1>5. accepted \in AnyFrame
    BY <1>1, FrameTypes
  <1>6. Delivered \in Seq(1 .. MaxBitmaps) /\ Len(Delivered) \in Nat
    BY <1>1 DEF Delivered
  <1>7. sent \in Nat
    BY <1>1, MstscAssumption
  <1>8. Here \in State /\ There \in State
    BY <1>1, <1>6, <1>7 DEF Here, There, State
  <1> QED
    BY <1>1, <1>3, <1>4, <1>5, <1>6, <1>7, <1>8

\* The types hold at first.
LEMMA TypedInit == Init => MstscTypeOK
  <1> SUFFICES ASSUME Init PROVE MstscTypeOK
    OBVIOUS
  <1>1. 0 \in 0 .. MaxBitmaps /\ 0 \in 0 .. MaxShares
    BY MstscAssumption
  <1>2. /\ gui \in GuiSteps /\ rdp \in RdpSteps /\ accepted \in Frames \cup {None}
        /\ sent \in 0 .. MaxBitmaps /\ shares \in 0 .. MaxShares
    BY <1>1 DEF Init, GuiSteps, RdpSteps
  <1>3. /\ shown \in Seq(1 .. MaxBitmaps) /\ channel \in Seq(1 .. MaxBitmaps)
        /\ buffer \in Seq(Frames \cup {Part}) /\ writing \in Seq(Frames)
        /\ socket \in Seq(Seq(Frames \cup {Part}))
    BY DEF Init
  <1> QED
    BY <1>2, <1>3 DEF Init, MstscTypeOK

\* The first of one queue moves to the end of another.
LEMMA HeadAppended ==
    ASSUME NEW S, NEW s \in Seq(S), NEW c \in Seq(S), c # <<>>
    PROVE  Append(s, Head(c)) \in Seq(S) /\ Tail(c) \in Seq(S)
  <1>1. Head(c) \in S
    OBVIOUS
  <1> QED
    BY <1>1

\* The rdp thread keeps the types.
LEMMA TypedRdp ==
    ASSUME MstscTypeOK, RdpStep
    PROVE  MstscTypeOK'
  <1> USE DEF MstscTypeOK, guiVars, rdpVars, clientVars, srvVars, RdpUnchanged
  <1>1. CASE Select \/ CheckSync \/ Lock \/ ReadEof
    BY <1>1 DEF Select, CheckSync, Lock, ReadEof, RdpSteps
  <1>2. CASE Fill
    <2>1. Head(socket) \in Seq(Frames \cup {Part}) /\ Tail(socket) \in Seq(Seq(Frames \cup {Part}))
      BY <1>2 DEF Fill
    <2> QED
      BY <1>2, <2>1 DEF Fill
  <1>3. CASE Take
    <2>1. Head(buffer) \in Frames \cup {Part} /\ Tail(buffer) \in Seq(Frames \cup {Part})
      BY <1>3 DEF Take
    <2>2. accepted' \in Frames \cup {None}
      BY <1>3, <2>1 DEF Take
    <2> QED
      BY <1>3, <2>1, <2>2 DEF Take
  <1>4. CASE HandleBitmap
    <2>1. accepted \in AnyFrame /\ accepted.type = "Bitmap"
      BY <1>4, FrameTypes DEF HandleBitmap
    <2>2. accepted.n \in 1 .. MaxBitmaps
      BY <2>1, FrameKinds
    <2>3. Append(channel, accepted.n) \in Seq(1 .. MaxBitmaps)
      BY <2>2
    <2>4. channel' \in Seq(1 .. MaxBitmaps) /\ rdp' \in RdpSteps
      BY <1>4, <2>3 DEF HandleBitmap, RdpSteps
    <2> QED
      BY <1>4, <2>4 DEF HandleBitmap
  <1>5. CASE HandleShare \/ HandleDisconnect
    BY <1>5 DEF HandleShare, HandleDisconnect, RdpSteps
  <1> QED
    BY <1>1, <1>2, <1>3, <1>4, <1>5 DEF RdpStep

\* So does the main thread.
LEMMA TypedMain ==
    ASSUME MstscTypeOK, MainThread \/ CloseWindow
    PROVE  MstscTypeOK'
  <1> USE DEF MstscTypeOK, rdpVars, sharedVars, clientVars, srvVars, GuiUnchanged
  <1>1. CASE LoopCheck
    BY <1>1 DEF LoopCheck, GuiSteps
  <1>2. CASE Draw
    <2>1. channel # <<>> => /\ Append(shown, Head(channel)) \in Seq(1 .. MaxBitmaps)
                            /\ Tail(channel) \in Seq(1 .. MaxBitmaps)
      <3>1. shown \in Seq(1 .. MaxBitmaps) /\ channel \in Seq(1 .. MaxBitmaps)
        OBVIOUS
      <3> HIDE DEF MstscTypeOK
      <3> QED
        BY <3>1, HeadAppended
    <2>2. shown' \in Seq(1 .. MaxBitmaps) /\ channel' \in Seq(1 .. MaxBitmaps)
      BY <1>2, <2>1 DEF Draw
    <2>3. gui' \in GuiSteps /\ sync' \in BOOLEAN
      BY <1>2 DEF Draw, GuiSteps, SenderAlive
    <2> QED
      BY <1>2, <2>2, <2>3 DEF Draw
  <1>3. CASE Mouse \/ Keyboard \/ Present \/ DrawFails
    <2>1. /\ gui' \in {"keyboard", "present", "check", "died"}
          /\ GuiUnchanged /\ UNCHANGED <<window, shown, sharedVars>>
      BY <1>3 DEF Mouse, Keyboard, Present, DrawFails, WriteInput
    <2>2. gui' \in GuiSteps /\ UNCHANGED ultimatum
      BY <1>3, <2>1 DEF GuiSteps, Mouse, Keyboard, Present, DrawFails
    <2> QED
      BY <2>1, <2>2
  <1>4. CASE Shutdown \/ Return \/ Join
    <2>1. /\ gui' \in {"return", "join", "done", "died"}
          /\ GuiUnchanged /\ UNCHANGED <<window, shown, sync, channel>>
      BY <1>4 DEF Shutdown, Return, Join
    <2>2. receiver' \in BOOLEAN /\ ultimatum' \in BOOLEAN
      BY <1>4 DEF Shutdown, Return, Join
    <2>3. gui' \in GuiSteps
      BY <2>1 DEF GuiSteps
    <2> QED
      BY <2>1, <2>2, <2>3
  <1>5. CASE CloseWindow
    BY <1>5 DEF CloseWindow
  <1> QED
    BY <1>1, <1>2, <1>3, <1>4, <1>5 DEF MainThread

\* So does the server.
LEMMA TypedServer ==
    ASSUME MstscTypeOK, Server
    PROVE  MstscTypeOK'
  <1> USE DEF MstscTypeOK, guiVars, rdpVars, sharedVars, clientVars
  <1>1. ASSUME NEW f \in Frames, Say(f), serving' \in BOOLEAN,
               sent' \in 0 .. MaxBitmaps, shares' \in 0 .. MaxShares
        PROVE  MstscTypeOK'
    <2>1. writing' \in Seq(Frames)
      BY <1>1 DEF Say
    <2> QED
      BY <1>1, <2>1 DEF Say
  <1>2. CASE SrvActivate
    <2>1. shares < MaxShares \/ shares < 1
      BY <1>2 DEF SrvActivate, Bound
    <2>2. shares' \in 0 .. MaxShares
      BY <1>2, <2>1, MstscAssumption DEF SrvActivate
    <2> QED
      BY <1>1, <1>2, <2>2, FrameTypes DEF SrvActivate
  <1>3. CASE SrvDeactivate \/ SrvDisconnect
    BY <1>1, <1>3, FrameTypes DEF SrvDeactivate, SrvDisconnect
  <1>4. CASE SrvBitmap
    <2>1. sent' \in 1 .. MaxBitmaps /\ sent' \in 0 .. MaxBitmaps
      BY <1>4, MstscAssumption DEF SrvBitmap
    <2> QED
      BY <1>1, <1>4, <2>1, FrameTypes DEF SrvBitmap
  <1>5. ASSUME NEW r \in Seq(Frames \cup {Part}), Transmit(r),
               writing' \in Seq(Frames), midframe' \in BOOLEAN
        PROVE  MstscTypeOK'
    <2>1. socket' \in Seq(Seq(Frames \cup {Part}))
      BY <1>5 DEF Transmit
    <2> QED
      BY <1>5, <2>1 DEF Transmit
  <1>6. CASE SrvSend
    <2>1. writing \in Seq(Frames \cup {Part})
      <3>1. writing \in Seq(Frames) /\ Frames \subseteq Frames \cup {Part}
        OBVIOUS
      <3> HIDE DEF MstscTypeOK
      <3> QED
        BY <3>1, Widen
    <2>2. Transmit(writing) /\ writing' = <<>> /\ midframe' = FALSE
      BY <1>6, Zenon DEF SrvSend
    <2>3. writing' \in Seq(Frames) /\ midframe' \in BOOLEAN
      <3>1. <<>> \in Seq(Frames)
        OBVIOUS
      <3> HIDE DEF MstscTypeOK
      <3> QED
        BY <2>2, <3>1
    <2> QED
      BY <1>5, <2>1, <2>2, <2>3
  <1>7. CASE SrvSplit
    <2>1. Front(writing) \in Seq(Frames) /\ Last(writing) \in Frames
      BY <1>7 DEF SrvSplit, Front, Last
    <2>2. Front(writing) \o <<Part>> \in Seq(Frames \cup {Part})
      <3>1. Front(writing) \in Seq(Frames \cup {Part})
        BY <2>1, Widen
      <3> QED
        BY <3>1
    <2>3. <<Last(writing)>> \in Seq(Frames)
      BY <2>1
    <2> QED
      BY <1>5, <1>7, <2>2, <2>3 DEF SrvSplit
  <1>8. CASE SrvTlsRecord
    <2>1. Transmit(<<>>) /\ writing' \in Seq(Frames) /\ midframe' \in BOOLEAN
      BY <1>8 DEF SrvTlsRecord
    <2>2. <<>> \in Seq(Frames \cup {Part})
      OBVIOUS
    <2> QED
      BY <1>5, <2>1, <2>2
  <1>9. CASE SrvClose
    BY <1>9 DEF SrvClose, srvVars
  <1> QED
    BY <1>2, <1>3, <1>4, <1>6, <1>7, <1>8, <1>9 DEF Server

\* So does every step.
LEMMA TypedStep ==
    ASSUME MstscTypeOK, [Next]_vars
    PROVE  MstscTypeOK'
  <1>1. CASE UNCHANGED vars
    BY <1>1 DEF MstscTypeOK, vars, guiVars, rdpVars, sharedVars, clientVars, srvVars
  <1> QED
    BY <1>1, TypedRdp, TypedMain, TypedServer DEF Next, RdpThread

(***************************************************************************)
(* Every variable of the threads, the client behind the mutex and the      *)
(* network keeps its type: in particular what is drawn are bitmaps of the  *)
(* server, and the record the TLS stream holds is made of frames.          *)
(***************************************************************************)
THEOREM MstscTyped == Spec => []MstscTypeOK
  <1> QED
    BY TypedInit, TypedStep, PTL DEF Spec

-----------------------------------------------------------------------------
(***************************************************************************)
(* What is upstream stays a chain.                                         *)
(***************************************************************************)
LEMMA KeptInit == Init => Kept
  <1> SUFFICES ASSUME Init PROVE Connected /\ Counted
    BY DEF Kept
  <1>1. Delivered = <<>> /\ Len(Delivered) = 0 /\ DOMAIN Delivered = {}
    BY DEF Init, Delivered
  <1>2. Here = There /\ Here \in State
    BY <1>1 DEF Init, Here, There, State
  <1>3. <<Here, None, Here>> \in FrameStep
    BY <1>2, FrameTypes, IsFrameStep
  <1>4. /\ Chain(<<>>, FrameStep, Here, Here) /\ Chain(<<>>, RecordStep, Here, Here)
    BY <1>2, ChainOfNone
  <1>5. Upstream(Here, Here, Here)
    BY <1>2, <1>3, <1>4 DEF Init, Upstream
  <1> QED
    BY <1>1, <1>2, <1>5 DEF Connected, Counted

\* Steps that move no frame.
LEMMA KeptElsewhere ==
    ASSUME Kept, UNCHANGED <<active, accepted, buffer, socket, writing, serving, sent>>,
           Delivered' = Delivered, rdp' # "panicked" => rdp # "panicked"
    PROVE  Kept'
  <1>1. Here' = Here /\ There' = There
    BY DEF Here, There
  <1>2. \A a, b, c : Upstream(a, b, c)' <=> Upstream(a, b, c)
    BY <1>1 DEF Upstream
  <1> QED
    BY <1>2 DEF Kept, Connected, Counted

\* What moves from the channel to the window stays delivered.
LEMMA DrawDelivers ==
    ASSUME NEW S, NEW s \in Seq(S), NEW c \in Seq(S), c # <<>>
    PROVE  Append(s, Head(c)) \o Tail(c) = s \o c
  OBVIOUS

\* The main thread does not touch the chain.
LEMMA KeptMain ==
    ASSUME IInv, MainThread \/ CloseWindow
    PROVE  Kept'
  <1>1. UNCHANGED <<rdpVars, clientVars, socket, open, srvVars>>
    <2>1. LoopCheck \/ Draw \/ Mouse \/ Keyboard \/ Present => GuiUnchanged
      BY Zenon DEF LoopCheck, Draw, Mouse, Keyboard, Present
    <2>2. DrawFails \/ Shutdown \/ Return \/ Join \/ CloseWindow => GuiUnchanged
      BY Zenon DEF DrawFails, Shutdown, Return, Join, CloseWindow
    <2> QED
      BY <2>1, <2>2 DEF MainThread, GuiUnchanged
  <1>2. Delivered' = Delivered
    <2>1. CASE Draw
      <3>1. CASE channel # <<>>
        <4>1. shown' = Append(shown, Head(channel)) /\ channel' = Tail(channel)
          BY <2>1, <3>1 DEF Draw
        <4>2. shown \in Seq(1 .. MaxBitmaps) /\ channel \in Seq(1 .. MaxBitmaps)
          BY DEF IInv, MstscTypeOK
        <4> QED
          BY <3>1, <4>1, <4>2, DrawDelivers DEF Delivered
      <3>2. CASE channel = <<>>
        BY <2>1, <3>2 DEF Draw, Delivered
      <3> QED
        BY <3>1, <3>2
    <2>2. CASE LoopCheck \/ Mouse \/ Keyboard \/ Present \/ DrawFails
      BY <2>2 DEF LoopCheck, Mouse, Keyboard, Present, DrawFails, sharedVars, Delivered
    <2>3. CASE Shutdown \/ Return \/ Join \/ CloseWindow
      BY <2>3 DEF Shutdown, Return, Join, CloseWindow, sharedVars, Delivered
    <2> QED
      BY <2>1, <2>2, <2>3 DEF MainThread
  <1>3. UNCHANGED <<active, accepted, buffer, socket, writing, serving, sent, rdp>>
    BY <1>1 DEF rdpVars, clientVars, srvVars
  <1> QED
    BY <1>2, <1>3, KeptElsewhere DEF IInv

\* What the rdp thread leaves alone.
LEMMA RdpKeeps ==
    ASSUME RdpUnchanged
    PROVE  UNCHANGED <<shown, server, sent, shares, serving, writing, midframe>>
  BY DEF RdpUnchanged, guiVars, srvVars

\* The rdp thread takes the head of the chain.
LEMMA KeptRdp ==
    ASSUME IInv, RdpStep
    PROVE  Kept'
  <1> USE TypesOfSequences DEF IInv
  <1>1. CASE Select \/ CheckSync \/ Lock \/ ReadEof
    <2>1. /\ UNCHANGED <<accepted, channel, clientVars, socket>> /\ RdpUnchanged
          /\ rdp # "panicked"
      BY <1>1 DEF Select, CheckSync, Lock, ReadEof
    <2>2. UNCHANGED <<active, accepted, buffer, socket, writing, serving, sent>>
      BY <2>1, RdpKeeps DEF clientVars
    <2>3. Delivered' = Delivered
      BY <2>1, RdpKeeps DEF Delivered
    <2> QED
      BY <2>1, <2>2, <2>3, KeptElsewhere
  <1>2. CASE Fill
    <2>1. /\ rdp = "read" /\ buffer = <<>> /\ socket # <<>> /\ RdpUnchanged
          /\ buffer' = Head(socket) /\ socket' = Tail(socket)
          /\ UNCHANGED <<rdp, accepted, channel, active>>
      BY <1>2 DEF Fill, rdpVars
    <2>2. UNCHANGED <<Here, There, writing, Delivered>>
      BY <2>1, RdpKeeps DEF Here, There, Delivered
    <2>3. PICK a \in State, b \in State, c \in State : Upstream(a, b, c)
      BY <2>1 DEF Kept, Connected
    <2>4. a = b
      BY <2>1, <2>3, ChainOfNone DEF Upstream
    <2>5. PICK r \in State : <<b, Head(socket), r>> \in RecordStep /\ Chain(Tail(socket), RecordStep, r, c)
      BY <2>1, <2>3, ChainHead DEF Upstream
    <2>6. Chain(Head(socket), FrameStep, b, r)
      BY <2>5, RecordSteps
    <2>7. Upstream(a, r, c)'
      BY <2>1, <2>2, <2>3, <2>4, <2>5, <2>6 DEF Upstream
    <2> QED
      BY <2>1, <2>2, <2>7 DEF Kept, Connected, Counted
  <1>3. CASE Take
    <2>1. /\ rdp = "read" /\ accepted = None /\ buffer # <<>> /\ RdpUnchanged
          /\ buffer' = Tail(buffer)
          /\ accepted' = IF Head(buffer) = Part THEN None ELSE Head(buffer)
          /\ UNCHANGED <<rdp, socket, channel, active>>
      BY <1>3 DEF Take
    <2>2. UNCHANGED <<Here, There, writing, Delivered>>
      BY <2>1, RdpKeeps DEF Here, There, Delivered
    <2>3. PICK a \in State, b \in State, c \in State : Upstream(a, b, c)
      BY <2>1 DEF Kept, Connected
    <2>4. a = Here
      BY <2>1, <2>3, FrameSteps, FrameTypes DEF Upstream
    <2>5. PICK r \in State : <<a, Head(buffer), r>> \in FrameStep /\ Chain(Tail(buffer), FrameStep, r, b)
      BY <2>1, <2>3, ChainHead DEF Upstream
    <2>6. <<Here, accepted', r>> \in FrameStep
      <3>1. CASE Head(buffer) = Part
        <4>1. r = a
          BY <2>5, <3>1, FrameSteps, FrameTypes
        <4>2. <<Here, None, a>> \in FrameStep
          BY <2>1, <2>3 DEF Upstream
        <4> QED
          BY <2>1, <3>1, <4>1, <4>2
      <3>2. CASE Head(buffer) # Part
        BY <2>1, <2>4, <2>5, <3>2
      <3> QED
        BY <3>1, <3>2
    <2>7. Upstream(r, b, c)'
      BY <2>1, <2>2, <2>3, <2>5, <2>6 DEF Upstream
    <2> QED
      BY <2>1, <2>2, <2>7 DEF Kept, Connected, Counted
  \* A frame that is handled takes the client where the chain says.
  <1>4. ASSUME RdpUnchanged, UNCHANGED <<buffer, socket>>, accepted' = None,
               NEW a \in State, NEW b \in State, NEW c \in State, Upstream(a, b, c), Here' = a
        PROVE  Connected'
    <2>1. There' = There /\ writing' = writing
      BY <1>4, RdpKeeps DEF There
    <2>2. <<Here', None, a>> \in FrameStep
      BY <1>4, FrameTypes, IsFrameStep
    <2>3. Upstream(a, b, c)'
      BY <1>4, <2>1, <2>2 DEF Upstream
    <2> QED
      BY <2>3 DEF Connected
  <1>5. CASE HandleBitmap
    <2>1. /\ rdp = "read" /\ accepted.type = "Bitmap" /\ RdpUnchanged
          /\ accepted' = None /\ UNCHANGED <<active, buffer, socket>>
      BY <1>5 DEF HandleBitmap, clientVars
    <2>2. PICK a \in State, b \in State, c \in State : Upstream(a, b, c)
      BY <2>1 DEF Kept, Connected
    <2>3. Here.on /\ accepted.n = Here.count + 1 /\ a.on /\ a.count = Here.count + 1
      BY <2>1, <2>2, FrameSteps DEF Upstream
    <2>4. active = TRUE /\ accepted.n = Len(Delivered) + 1
      BY <2>3 DEF Here, MstscTypeOK
    <2>5. CASE receiver
      <3>1. channel' = Append(channel, accepted.n) /\ shown' = shown
        BY <1>5, <2>1, <2>4, <2>5, RdpKeeps DEF HandleBitmap
      <3>2. Delivered' = Append(Delivered, accepted.n)
        BY <3>1 DEF Delivered
      <3>3. Here' = a
        <4>1. Len(Delivered') = Len(Delivered) + 1
          BY <3>2
        <4>2. a = [on |-> TRUE, count |-> Len(Delivered) + 1]
          BY <2>3 DEF State, Here
        <4> QED
          BY <2>1, <2>4, <4>1, <4>2 DEF Here
      <3>4. Counted'
        <4>1. Counted
          BY <2>1 DEF Kept
        <4>2. Delivered \in Seq(Nat) /\ accepted.n \in Nat
          <5>1. PICK d \in Seq(1 .. MaxBitmaps) : d = Delivered
            OBVIOUS
          <5>2. d \in Seq(Nat) /\ Len(d) + 1 \in Nat
            BY <5>1, Numbers
          <5> QED
            BY <2>4, <5>1, <5>2
        <4>3. PICK n \in Nat, d \in Seq(Nat) : n = accepted.n /\ d = Delivered
          BY <4>2
        <4>4. /\ DOMAIN Append(d, n) = 1 .. Len(d) + 1
              /\ \A i \in 1 .. Len(d) : Append(d, n)[i] = d[i]
              /\ Append(d, n)[Len(d) + 1] = n /\ DOMAIN d = 1 .. Len(d)
          BY <4>3
        <4>5. n = Len(d) + 1 /\ \A i \in 1 .. Len(d) : d[i] = i
          BY <2>4, <4>1, <4>3, <4>4 DEF Counted
        <4>6. \A i \in 1 .. Len(d) + 1 : Append(d, n)[i] = i
          BY <4>4, <4>5
        <4>7. Delivered' = Append(d, n)
          BY <3>2, <4>3
        <4> QED
          BY <4>4, <4>6, <4>7 DEF Counted
      <3> QED
        BY <1>4, <2>1, <2>2, <3>3, <3>4 DEF Kept
    <2>6. CASE ~receiver
      <3>1. rdp' = "panicked"
        BY <1>5, <2>4, <2>6 DEF HandleBitmap
      <3> QED
        BY <3>1 DEF Kept
    <2> QED
      BY <2>5, <2>6
  <1>6. CASE HandleShare \/ HandleDisconnect
    <2>1. /\ rdp = "read" /\ RdpUnchanged /\ accepted' = None
          /\ UNCHANGED <<buffer, socket, channel>>
          /\ \/ accepted.type = "Activate" /\ active' = TRUE
             \/ accepted.type = "Deactivate" /\ active' = FALSE
             \/ accepted.type = "Disconnect" /\ active' = active
      BY <1>6 DEF HandleShare, HandleDisconnect, clientVars
    <2>2. PICK a \in State, b \in State, c \in State : Upstream(a, b, c)
      BY <2>1 DEF Kept, Connected
    <2>3. Delivered' = Delivered
      BY <2>1, RdpKeeps DEF Delivered
    <2>4. Here' = a
      <3>1. /\ accepted.type = "Activate" => a = [on |-> TRUE, count |-> Here.count]
            /\ accepted.type = "Deactivate" => a = [on |-> FALSE, count |-> Here.count]
            /\ accepted.type = "Disconnect" => a = Here
        BY <2>2, FrameSteps DEF Upstream
      <3>2. Here.count = Len(Delivered) /\ Here' = [on |-> active', count |-> Len(Delivered)]
        BY <2>3 DEF Here
      <3>3. active' = active => Here' = Here
        BY <3>2 DEF Here
      <3> QED
        BY <2>1, <3>1, <3>2, <3>3
    <2>5. Counted'
      BY <2>1, <2>3 DEF Kept, Counted
    <2> QED
      BY <1>4, <2>1, <2>2, <2>4, <2>5 DEF Kept
  <1> QED
    BY <1>1, <1>2, <1>3, <1>5, <1>6 DEF RdpStep

\* The server appends to it.
LEMMA KeptServer ==
    ASSUME IInv, Server
    PROVE  Kept'
  <1> USE TypesOfSequences DEF IInv
  <1>1. CASE SrvClose
    <2>1. UNCHANGED <<guiVars, rdpVars, sharedVars, clientVars, socket, srvVars>>
      BY <1>1 DEF SrvClose
    <2>2. UNCHANGED <<active, accepted, buffer, socket, writing, serving, sent, rdp>>
      BY <2>1 DEF rdpVars, clientVars, srvVars
    <2>3. Delivered' = Delivered
      BY <2>1 DEF guiVars, sharedVars, Delivered
    <2> QED
      BY <2>2, <2>3, KeptElsewhere
  <1>2. ASSUME NEW f \in Frames, Say(f), rdp # "panicked",
               \A c \in State : Chain(writing, FrameStep, c, There) => <<There, f, There'>> \in FrameStep
        PROVE  Kept'
    <2>1. /\ writing' = Append(writing, f)
          /\ UNCHANGED <<guiVars, rdpVars, sharedVars, clientVars, socket>>
      BY <1>2 DEF Say
    <2>2. Here' = Here /\ Delivered' = Delivered /\ UNCHANGED <<accepted, buffer, socket>>
      BY <2>1 DEF Here, Delivered, guiVars, rdpVars, sharedVars, clientVars
    <2>3. PICK a \in State, b \in State, c \in State : Upstream(a, b, c)
      BY <1>2 DEF Kept, Connected
    <2>4. <<There, f, There'>> \in FrameStep
      BY <1>2, <2>3 DEF Upstream
    <2>5. There' \in State /\ f \in AnyFrame
      BY <2>4, FrameSteps
    <2>6. Chain(writing', FrameStep, c, There')
      BY <2>1, <2>3, <2>4, <2>5, ChainAppend DEF Upstream
    <2>7. Upstream(a, b, c)'
      BY <2>2, <2>3, <2>6 DEF Upstream
    <2>8. Counted'
      BY <1>2, <2>2 DEF Kept, Counted
    <2> QED
      BY <2>7, <2>8 DEF Kept, Connected
  <1>3. \A f : Say(f) => rdp' = rdp
    BY DEF Say, rdpVars
  <1>4. CASE SrvActivate
    <2>1. /\ Say(Frame("Activate")) /\ Frame("Activate") \in Frames
          /\ Frame("Activate").type = "Activate" /\ There' = [on |-> TRUE, count |-> There.count]
      BY <1>4, FrameTypes DEF SrvActivate, There, Frame
    <2>2. There' \in State
      BY <2>1 DEF State
    <2>3. <<There, Frame("Activate"), There'>> \in FrameStep
      BY <2>1, <2>2, FrameTypes, IsFrameStep
    <2> QED
      BY <1>2, <1>3, <2>1, <2>3 DEF Kept
  <1>5. CASE SrvDeactivate
    <2>1. /\ Say(Frame("Deactivate")) /\ Frame("Deactivate") \in Frames
          /\ Frame("Deactivate").type = "Deactivate" /\ There' = [on |-> FALSE, count |-> There.count]
      BY <1>5, FrameTypes DEF SrvDeactivate, There, Frame
    <2>2. There' \in State
      BY <2>1 DEF State
    <2>3. <<There, Frame("Deactivate"), There'>> \in FrameStep
      BY <2>1, <2>2, FrameTypes, IsFrameStep
    <2> QED
      BY <1>2, <1>3, <2>1, <2>3 DEF Kept
  <1>6. CASE SrvDisconnect
    <2>1. /\ Say(Frame("Disconnect")) /\ Frame("Disconnect") \in Frames
          /\ Frame("Disconnect").type = "Disconnect" /\ There' = There
      BY <1>6, FrameTypes DEF SrvDisconnect, There, Frame
    <2>2. <<There, Frame("Disconnect"), There'>> \in FrameStep
      BY <2>1, FrameTypes, IsFrameStep
    <2> QED
      BY <1>2, <1>3, <2>1, <2>2 DEF Kept
  <1>7. CASE SrvBitmap
    <2>1. PICK n : n = sent + 1
      OBVIOUS
    <2>2. /\ Say(Bitmap(n)) /\ n \in 1 .. MaxBitmaps
          /\ serving = TRUE /\ serving' = serving /\ sent' = n
      BY <1>7, <2>1, MstscAssumption DEF SrvBitmap, MstscTypeOK
    <2>3. Bitmap(n) \in Frames /\ Bitmap(n).type = "Bitmap" /\ Bitmap(n).n = n
      BY <2>2, FrameTypes DEF Bitmap
    <2>4. There.on /\ There.count + 1 = n /\ There' = [on |-> TRUE, count |-> n]
      BY <2>1, <2>2 DEF There
    <2>5. There' \in State
      BY <2>2, <2>4 DEF State
    <2>6. <<There, Bitmap(n), There'>> \in FrameStep
      BY <2>3, <2>4, <2>5, FrameTypes, IsFrameStep
    <2> QED
      BY <1>2, <1>3, <2>2, <2>3, <2>6 DEF Kept
  \* A record that goes out takes the states its frames take.
  <1>8. ASSUME NEW r \in Seq(AnyFrame), Transmit(r), rdp # "panicked",
               NEW a \in State, NEW b \in State, NEW c \in State, NEW d \in State,
               Upstream(a, b, c), Chain(r, FrameStep, c, d),
               Chain(writing', FrameStep, d, There)
        PROVE  Kept'
    <2>1. /\ socket' = Append(socket, r)
          /\ UNCHANGED <<guiVars, rdpVars, sharedVars, clientVars, sent, serving>>
      BY <1>8 DEF Transmit
    <2>2. /\ Here' = Here /\ There' = There /\ Delivered' = Delivered
          /\ UNCHANGED <<accepted, buffer>>
      BY <2>1 DEF Here, There, Delivered, guiVars, rdpVars, sharedVars, clientVars
    <2>3. <<c, r, d>> \in RecordStep
      BY <1>8, RecordSteps
    <2>4. Chain(socket', RecordStep, b, d)
      BY <1>8, <2>1, <2>3, ChainAppend DEF Upstream
    <2>5. Upstream(a, b, d)'
      BY <1>8, <2>2, <2>4 DEF Upstream
    <2>6. Counted'
      BY <1>8, <2>2 DEF Kept, Counted
    <2> QED
      BY <2>5, <2>6 DEF Kept, Connected
  <1>9. \A r : Transmit(r) => rdp' = rdp
    BY DEF Transmit, rdpVars
  <1>10. CASE SrvSend
    <2>1. SUFFICES ASSUME rdp # "panicked" PROVE Kept'
      BY <1>9, <1>10 DEF SrvSend, Kept
    <2>2. PICK a \in State, b \in State, c \in State : Upstream(a, b, c)
      BY <2>1 DEF Kept, Connected
    <2>3. Transmit(writing) /\ writing' = <<>>
      BY <1>10 DEF SrvSend
    <2>4. Chain(writing, FrameStep, c, There) /\ Chain(writing', FrameStep, There, There)
      BY <2>2, <2>3, ChainOfNone DEF Upstream
    <2> QED
      BY <1>8, <2>1, <2>2, <2>3, <2>4
  <1>11. CASE SrvSplit
    <2>1. SUFFICES ASSUME rdp # "panicked" PROVE Kept'
      BY <1>9, <1>11 DEF SrvSplit, Kept
    <2>2. PICK a \in State, b \in State, c \in State : Upstream(a, b, c)
      BY <2>1 DEF Kept, Connected
    <2>3. /\ writing # <<>> /\ Transmit(Front(writing) \o <<Part>>)
          /\ writing' = <<Last(writing)>>
      BY <1>11 DEF SrvSplit
    <2>4. PICK r \in State : Chain(Front(writing), FrameStep, c, r) /\ <<r, Last(writing), There>> \in FrameStep
      BY <2>2, <2>3, ChainLast DEF Upstream
    <2>5. Front(writing) \in Seq(AnyFrame) /\ Last(writing) \in AnyFrame
      BY <2>3 DEF Front, Last
    <2>6. Front(writing) \o <<Part>> = Append(Front(writing), Part)
      BY <2>5
    <2>7. <<r, Part, r>> \in FrameStep
      BY FrameTypes, IsFrameStep
    <2>8. Chain(Front(writing) \o <<Part>>, FrameStep, c, r)
      BY <2>4, <2>5, <2>6, <2>7, FrameTypes, ChainAppend
    <2>9. Front(writing) \o <<Part>> \in Seq(AnyFrame)
      BY <2>5, FrameTypes
    <2>10. Chain(<<Last(writing)>>, FrameStep, r, There)
      <3>1. Chain(<<>>, FrameStep, r, r) /\ <<>> \in Seq(AnyFrame)
        BY ChainOfNone
      <3>2. Append(<<>>, Last(writing)) = <<Last(writing)>>
        OBVIOUS
      <3> QED
        BY <2>4, <2>5, <3>1, <3>2, ChainAppend
    <2> QED
      BY <1>8, <2>1, <2>2, <2>3, <2>8, <2>9, <2>10
  <1>12. CASE SrvTlsRecord
    <2>1. SUFFICES ASSUME rdp # "panicked" PROVE Kept'
      BY <1>9, <1>12 DEF SrvTlsRecord, Kept
    <2>2. PICK a \in State, b \in State, c \in State : Upstream(a, b, c)
      BY <2>1 DEF Kept, Connected
    <2>3. Transmit(<<>>) /\ writing' = writing /\ <<>> \in Seq(AnyFrame)
      BY <1>12 DEF SrvTlsRecord
    <2>4. Chain(<<>>, FrameStep, c, c) /\ Chain(writing', FrameStep, c, There)
      BY <2>2, <2>3, ChainOfNone DEF Upstream
    <2> QED
      BY <1>8, <2>1, <2>2, <2>3, <2>4
  <1> QED
    BY <1>1, <1>4, <1>5, <1>6, <1>7, <1>10, <1>11, <1>12 DEF Server

\* The invariant holds.
LEMMA Invariance == Spec => []IInv
  <1>1. Init => IInv
    BY TypedInit, KeptInit DEF IInv
  <1>2. IInv /\ [Next]_vars => IInv'
    <2>1. ASSUME IInv, UNCHANGED vars
          PROVE  Kept'
      <3>1. /\ UNCHANGED <<active, accepted, buffer, socket, writing, serving, sent, rdp>>
            /\ UNCHANGED <<shown, channel>>
        BY <2>1 DEF vars, guiVars, rdpVars, sharedVars, clientVars, srvVars
      <3>2. Delivered' = Delivered
        BY <3>1 DEF Delivered
      <3> QED
        BY <2>1, <3>1, <3>2, KeptElsewhere DEF IInv
    <2> QED
      BY <2>1, TypedStep, KeptRdp, KeptMain, KeptServer DEF IInv, Next, RdpThread
  <1> QED
    BY <1>1, <1>2, PTL DEF Spec

-----------------------------------------------------------------------------
\* How the parts of the chain are put together.
LEMMA LineUp ==
    ASSUME NEW S, NEW s \in Seq(S), NEW x \in S, NEW y \in S, NEW z \in S
    PROVE  <<x>> \o (<<y>> \o Append(s, z)) = <<x, y>> \o s \o <<z>>
  <1>1. PICK t : t = Append(s, z)
    OBVIOUS
  <1>2. PICK u : u = <<y>> \o t
    OBVIOUS
  <1>3. PICK v : v = <<x, y>> \o s
    OBVIOUS
  <1>4. t \in Seq(S) /\ Len(t) = Len(s) + 1
        /\ t[Len(s) + 1] = z /\ \A i \in 1 .. Len(s) : t[i] = s[i]
    BY <1>1
  <1>5. u \in Seq(S) /\ Len(u) = Len(s) + 2
        /\ u[1] = y /\ \A i \in 2 .. Len(s) + 2 : u[i] = t[i - 1]
    BY <1>2, <1>4
  <1>6. v \in Seq(S) /\ Len(v) = Len(s) + 2
        /\ v[1] = x /\ v[2] = y /\ \A i \in 3 .. Len(s) + 2 : v[i] = s[i - 2]
    BY <1>3
  <1>7. <<x>> \o u \in Seq(S) /\ Len(<<x>> \o u) = Len(s) + 3
    BY <1>5
  <1>8. v \o <<z>> \in Seq(S) /\ Len(v \o <<z>>) = Len(s) + 3
    BY <1>6
  <1>9. ASSUME NEW i \in 1 .. Len(s) + 3
        PROVE  (<<x>> \o u)[i] = (v \o <<z>>)[i]
    <2>1. CASE i = 1
      BY <1>5, <1>6, <2>1
    <2>2. CASE i = 2
      BY <1>5, <1>6, <2>2
    <2>3. CASE i = Len(s) + 3
      <3>1. (<<x>> \o u)[i] = u[Len(s) + 2]
        BY <1>5, <2>3
      <3>2. Len(s) + 2 \in 2 .. Len(s) + 2 /\ Len(s) + 2 - 1 = Len(s) + 1
        OBVIOUS
      <3>3. u[Len(s) + 2] = t[Len(s) + 1]
        BY <1>5, <3>2
      <3>4. (v \o <<z>>)[i] = z
        BY <1>6, <2>3
      <3> QED
        BY <1>4, <3>1, <3>3, <3>4
    <2>4. CASE i \in 3 .. Len(s) + 2
      <3>1. (<<x>> \o u)[i] = u[i - 1] /\ i - 1 \in 2 .. Len(s) + 2
        BY <1>5, <2>4
      <3>2. u[i - 1] = t[i - 1 - 1] /\ i - 1 - 1 = i - 2 /\ i - 2 \in 1 .. Len(s)
        BY <1>5, <2>4, <3>1
      <3>3. (v \o <<z>>)[i] = v[i] /\ v[i] = s[i - 2]
        BY <1>6, <2>4
      <3> QED
        BY <1>4, <3>1, <3>2, <3>3
    <2>5. i = 1 \/ i = 2 \/ i = Len(s) + 3 \/ i \in 3 .. Len(s) + 2
      OBVIOUS
    <2> QED
      BY <2>1, <2>2, <2>3, <2>4, <2>5
  <1>10. <<x>> \o u = v \o <<z>>
    BY <1>7, <1>8, <1>9, SeqEqual
  <1> QED
    BY <1>1, <1>2, <1>3, <1>10

\* The line of the bitmaps is one chain of records.
LEMMA LineIsChain ==
    ASSUME IInv, rdp # "panicked"
    PROVE  Line \in Seq(Seq(AnyFrame)) /\ Chain(Line, RecordStep, Here, There)
  <1> USE TypesOfSequences DEF IInv
  <1>1. PICK a \in State, b \in State, c \in State : Upstream(a, b, c)
    BY DEF Kept, Connected
  <1>2. PICK rest : rest = Append(socket, writing)
    OBVIOUS
  <1>3. rest \in Seq(Seq(AnyFrame)) /\ Chain(rest, RecordStep, b, There)
    <2>1. <<c, writing, There>> \in RecordStep
      BY <1>1, RecordSteps DEF Upstream
    <2> QED
      BY <1>1, <1>2, <2>1, ChainAppend DEF Upstream
  <1>4. PICK more : more = <<buffer>> \o rest
    OBVIOUS
  <1>5. more \in Seq(Seq(AnyFrame)) /\ Chain(more, RecordStep, a, There)
    <2>1. <<a, buffer, b>> \in RecordStep
      BY <1>1, RecordSteps DEF Upstream
    <2> QED
      BY <1>3, <1>4, <2>1, ChainCons
  <1>6. PICK hand : hand = <<accepted>>
    OBVIOUS
  <1>7. <<Here, hand, a>> \in RecordStep /\ hand \in Seq(AnyFrame)
    <2>1. Chain(<<>>, FrameStep, Here, Here) /\ <<>> \in Seq(AnyFrame)
      BY ChainOfNone
    <2>2. hand = Append(<<>>, accepted) /\ hand \in Seq(AnyFrame)
      BY <1>6
    <2>3. Chain(hand, FrameStep, Here, a)
      BY <1>1, <2>1, <2>2, ChainAppend DEF Upstream
    <2> QED
      BY <1>1, <2>2, <2>3, RecordSteps
  <1>8. Chain(<<hand>> \o more, RecordStep, Here, There)
    BY <1>5, <1>7, ChainCons
  <1>9. <<hand>> \o more = Line
    <2>1. Line = <<hand, buffer>> \o socket \o <<writing>>
      BY <1>6 DEF Line
    <2>2. PICK w : w = writing
      OBVIOUS
    <2>3. socket \in Seq(Seq(AnyFrame)) /\ w \in Seq(AnyFrame) /\ buffer \in Seq(AnyFrame)
      BY <2>2
    <2>4. <<hand>> \o (<<buffer>> \o Append(socket, w)) = <<hand, buffer>> \o socket \o <<w>>
      <3>1. PICK S : S = Seq(AnyFrame)
        OBVIOUS
      <3>2. socket \in Seq(S) /\ hand \in S /\ buffer \in S /\ w \in S
        BY <1>7, <2>3, <3>1
      <3>3. PICK line : line = socket
        OBVIOUS
      <3>4. <<hand>> \o (<<buffer>> \o Append(line, w)) = <<hand, buffer>> \o line \o <<w>>
        BY <3>2, <3>3, LineUp
      <3> QED
        BY <3>3, <3>4
    <2>5. Line = <<hand, buffer>> \o socket \o <<w>>
      BY <2>1, <2>2
    <2>6. <<hand>> \o more = <<hand>> \o (<<buffer>> \o Append(socket, w))
      BY <1>2, <1>4, <2>2
    <2> QED
      BY <2>4, <2>5, <2>6
  <1>10. <<hand>> \o more \in Seq(Seq(AnyFrame))
    BY <1>5, <1>7
  <1>11. PICK l : l = <<hand>> \o more
    OBVIOUS
  <1>12. l \in Seq(Seq(AnyFrame)) /\ Chain(l, RecordStep, Here, There) /\ Line = l
    BY <1>8, <1>9, <1>10, <1>11
  <1> QED
    BY Zenon, <1>12

\* The chain gives the order of the bitmaps.
LEMMA InOrder == IInv => BitmapsInOrder
  <1> SUFFICES ASSUME IInv, rdp # "panicked"
               PROVE  /\ Counted
                      /\ {NumberAt(p) : p \in Places} = Len(Delivered) + 1 .. sent
                      /\ \A p, q \in Places : Earlier(p, q) => NumberAt(p) < NumberAt(q)
    BY DEF BitmapsInOrder, Counted
  <1>1. Line \in Seq(Seq(AnyFrame)) /\ Chain(Line, RecordStep, Here, There)
    BY LineIsChain
  <1>2. PICK m, n : m = Here.count /\ n = There.count
    OBVIOUS
  <1>3. m = Len(Delivered) /\ n = sent
    BY <1>2 DEF Here, There
  <1>4. PICK L : L = Line
    OBVIOUS
  <1>5. /\ \A i \in DOMAIN L : \A j \in DOMAIN L[i] :
              L[i][j].type = "Bitmap" => L[i][j].n \in m + 1 .. n
        /\ \A i, k \in DOMAIN L : \A j \in DOMAIN L[i], l \in DOMAIN L[k] :
              /\ i < k \/ (i = k /\ j < l)
              /\ L[i][j].type = "Bitmap" /\ L[k][l].type = "Bitmap"
              => L[i][j].n < L[k][l].n
        /\ \A v \in m + 1 .. n :
              \E i \in DOMAIN L : \E j \in DOMAIN L[i] :
                  L[i][j].type = "Bitmap" /\ L[i][j].n = v
    <2>1. L \in Seq(Seq(AnyFrame)) /\ Chain(L, RecordStep, Here, There)
      BY <1>1, <1>4
    <2> QED
      BY <1>2, <2>1, BitmapsOfRecords
  <1>6. ASSUME NEW p \in Places
        PROVE  /\ p[1] \in DOMAIN L /\ p[2] \in DOMAIN L[p[1]]
               /\ L[p[1]][p[2]].type = "Bitmap" /\ NumberAt(p) = L[p[1]][p[2]].n
    BY <1>4 DEF Places, NumberAt
  <1>7. ASSUME NEW i \in DOMAIN L, NEW j \in DOMAIN L[i], L[i][j].type = "Bitmap"
        PROVE  \E p \in Places : NumberAt(p) = L[i][j].n
    <2>1. PICK p : p = <<i, j>>
      OBVIOUS
    <2>2. p[1] = i /\ p[2] = j /\ p \in {i} \X DOMAIN L[i]
      BY <2>1
    <2>3. p \in UNION {{k} \X DOMAIN L[k] : k \in DOMAIN L}
      BY <2>2
    <2>4. p \in Places
      BY <1>4, <1>7, <2>2, <2>3 DEF Places
    <2> QED
      BY <1>4, <2>2, <2>4 DEF NumberAt
  <1>8. ASSUME NEW p \in Places, NEW q \in Places, Earlier(p, q)
        PROVE  NumberAt(p) < NumberAt(q)
    <2>1. p[1] < q[1] \/ (p[1] = q[1] /\ p[2] < q[2])
      BY <1>8 DEF Earlier
    <2>2. L[p[1]][p[2]].n < L[q[1]][q[2]].n
      BY <1>5, <1>6, <2>1
    <2> QED
      BY <1>6, <2>2
  <1>9. {NumberAt(p) : p \in Places} = m + 1 .. n
    <2>1. \A p \in Places : NumberAt(p) \in m + 1 .. n
      BY <1>5, <1>6
    <2>2. \A v \in m + 1 .. n : \E p \in Places : NumberAt(p) = v
      BY <1>5, <1>7
    <2> QED
      BY <2>1, <2>2
  <1>10. Counted
    BY DEF IInv, Kept
  <1> QED
    BY <1>3, <1>8, <1>9, <1>10

(***************************************************************************)
(* No bitmap the server sent is lost, doubled or overtaken on its way      *)
(* through the socket, the TLS stream, the hand of the rdp thread, the     *)
(* channel and the window, in every interleaving of the two threads of     *)
(* main, as long as the send().unwrap() of launch_rdp_thread does not      *)
(* panic.                                                                  *)
(***************************************************************************)
THEOREM BitmapsKeepOrder == Spec => []BitmapsInOrder
  BY Invariance, InOrder, PTL
=============================================================================
