------------------------- MODULE HeldSessionProofs --------------------------
(***************************************************************************)
(* A local Holder and the pump of the Engine.  Whatever the agent writes,  *)
(* however the log is rotated, and whenever Holder and Engine end and come *)
(* back, the pump shows the log and the exit of the incarnation it watches. *)
(***************************************************************************)
EXTENDS HeldSession, TLAPS, WellFoundedInduction

Limits == HeldSessionAssumption
Phase == {"none", "running", "finished", "drained", "marked", "leaving", "gone"}
Pc == {"down", "launch", "attach", "start", "read", "wait", "look", "exited", "panicked"}
UnitType == [kind : {"out", "head", "end"}, inc : Nat]
FileType == [base : Nat, tail : Nat, bytes : Nat]
HolderType == [phase : Phase, inc : Nat, epoch : Nat, child : BOOLEAN, writes : BOOLEAN]
EngineType == [pc : Pc, inc : Nat, ghost : BOOLEAN, floor : Nat, handle : Nat, opened : Nat,
               watched : Nat, stale : BOOLEAN, offset : Nat, buffer : Buffers,
               replaying : BOOLEAN, dirty : BOOLEAN]
ScreenType == [shown : Seq(Nat), gaps : SUBSET Int, jumps : SUBSET Nat]
ExitType == [how : {"marker", "unknown", "failed"}, inc : Nat]
FedType == [out : Seq(Nat), exit : ExitType \cup {None}, buffer : Buffers]

\* The newest file ends where the log ends, and a file that was rotated into
\* place began with half a capacity.
LogShape ==
  /\ written \in Seq(UnitType) /\ files \in Seq(FileType) /\ Len(files) >= 1
  /\ files[Len(files)].tail = Len(written)
  /\ \A i \in 1..Len(files) :
       /\ files[i].tail <= Len(written)
       /\ files[i].base + files[i].bytes <= files[i].tail
       /\ files[i].base > 0 => files[i].base + DiskCapacity \div 2 <= files[i].tail

HolderShape == holder \in HolderType /\ holder.epoch <= Len(written) /\ pty \in Nat

EngineShape ==
  /\ engine \in EngineType
  /\ engine.floor <= Len(written) /\ engine.offset <= Len(written)
  /\ engine.handle <= Len(files) /\ engine.watched <= Len(files)
  /\ engine.pc \in {"launch", "attach", "start", "panicked"} => engine.handle >= 1
  /\ engine.pc \in {"launch", "attach", "start"} => engine.buffer = "empty"

ScreenShape ==
  /\ screen \in ScreenType /\ exit \in ExitType \cup {None}
  /\ checkpoint # None =>
       /\ checkpoint \in [offset : Nat, screen : ScreenType, buffer : Buffers]
       /\ checkpoint.offset <= Len(written)

\* Nobody wrote, or will write, the second half of a marker at this offset.
NotEndAt(o) == o < Len(written) => written[o + 1].kind # "end"

\* The second half of a marker follows its first half, in one append.
Markers ==
  /\ \A i \in 1..Len(written) : written[i].kind = "end" => i > 1 /\ written[i - 1].kind = "head"
  /\ \A i \in 1..Len(files) : NotEndAt(files[i].tail)
  /\ NotEndAt(holder.epoch) /\ NotEndAt(engine.floor)

Shows(seq, x) == \E i \in 1..Len(seq) : seq[i] = x

\* Torn, of a log.
Tear(log) ==
  \E i \in 1..Len(log) :
    log[i].kind = "head" /\ (i = Len(log) \/ log[i + 1].kind # "end")

\* A screen that shows the log up to an offset, with what is kept back.
Sound(log, offset, buffer, scr) ==
  /\ \A i, j \in 1..Len(scr.shown) : i < j => scr.shown[i] < scr.shown[j]
  /\ \A i \in 1..Len(scr.shown) : scr.shown[i] < offset
  /\ \A o \in 0..(offset - 1) :
       log[o + 1].kind = "out" => Shows(scr.shown, o) \/ o \in scr.gaps \/ Tear(log)
  /\ buffer # "empty" => Tear(log) \/ (offset > 0 /\ log[offset].kind = "head")
  /\ buffer = "junk" => Tear(log)
  /\ offset < Len(log) /\ log[offset + 1].kind = "end" /\ buffer = "empty" =>
       offset \in scr.jumps
Pure(log, scr) ==
  \A i \in 1..Len(scr.shown) :
    /\ scr.shown[i] < Len(log)
    /\ log[scr.shown[i] + 1].kind = "out" \/ scr.shown[i] \in scr.jumps

Screens ==
  /\ Pure(written, screen)
  /\ Watching => Sound(written, engine.offset, engine.buffer, screen)
  /\ checkpoint # None =>
       /\ Pure(written, checkpoint.screen)
       /\ Sound(written, checkpoint.offset, checkpoint.buffer, checkpoint.screen)

Attached == engine.pc = "start" \/ Watching
Stranded == engine.handle \in 1..(Len(files) - 1) /\ engine.floor >= files[engine.handle].tail
Owned ==
  /\ \A i \in 1..Len(written) : i > holder.epoch => written[i].inc = holder.inc
  /\ engine.pc \in {"launch", "attach"} \/ Attached => exit = None
  /\ engine.pc = "launch" => files[engine.handle].tail >= holder.epoch
  /\ engine.pc = "attach" => engine.floor >= holder.epoch \/ Stranded
  /\ engine.pc = "attach" => holder.phase # "none"
  /\ Attached => engine.inc = holder.inc
  /\ Attached =>
       \/ engine.floor >= holder.epoch
       \/ /\ Stranded /\ holder.phase \in {"leaving", "gone"}
          /\ Watching => engine.watched \notin 1..(Len(files) - 1)
  /\ ExitIsOwn

OwnEnd(i) == written[i].kind = "end" /\ written[i].inc = holder.inc
LastMark ==
  /\ \A i \in 1..Len(written) : written[i].inc <= holder.inc
  /\ \A i \in 1..Len(written) : i <= holder.epoch => written[i].inc < holder.inc
  /\ \A i \in 1..Len(written) :
       OwnEnd(i) => i = Len(written) /\ holder.phase \in {"marked", "leaving", "gone"}
  /\ (engine.pc = "attach" \/ Attached) /\ ~engine.ghost =>
       \A i \in 1..Len(written) : OwnEnd(i) => i > engine.floor
  /\ engine.pc \in {"attach", "start"} /\ ~engine.ghost /\ checkpoint # None =>
       \A i \in 1..Len(written) : OwnEnd(i) => i > checkpoint.offset + 1
  /\ Watching /\ ~engine.ghost /\ ~Torn =>
       \A i \in 1..Len(written) :
         OwnEnd(i) => /\ i > engine.offset
                      /\ i = engine.offset + 1 => engine.buffer = "marker"

Outran ==
  engine.pc = "panicked" =>
    files[engine.handle].tail > engine.offset + DiskCapacity \div 2 + ReadSize

HeldInv ==
  /\ LogShape /\ HolderShape /\ EngineShape /\ ScreenShape
  /\ Markers /\ Screens /\ Owned /\ LastMark /\ Outran

-----------------------------------------------------------------------------
\* A set of naturals that is not empty has a least member.
LEMMA Least ==
  ASSUME NEW T \in SUBSET Nat, T # {}
  PROVE  \E m \in T : \A k \in T : m <= k
<1> DEFINE R == {p \in Nat \X Nat : p[1] < p[2]}
<1>1. IsWellFoundedOn(R, Nat)
  BY NatLessThanWellFounded DEF OpToRel
<1> HIDE DEF R
<1>2. \E m \in T : \A k \in T : <<k, m>> \notin R
  BY <1>1, WFMin, Zenon
<1>3. PICK m \in T : \A k \in T : <<k, m>> \notin R
  BY <1>2
<1>4. ASSUME NEW k \in T PROVE m <= k
  <2>1. <<k, m>> \notin R /\ k \in Nat /\ m \in Nat
    BY <1>3
  <2>2. k < m => <<k, m>> \in R
    BY <2>1 DEF R
  <2> QED BY <2>1, <2>2
<1> QED BY <1>4

\* Induction over the naturals, of a set instead of an operator.
LEMMA SetInduction ==
  ASSUME NEW T, 0 \in T, \A n \in Nat : n \in T => n + 1 \in T
  PROVE  \A n \in Nat : n \in T
<1> SUFFICES ASSUME NEW n \in Nat, n \notin T PROVE FALSE
  OBVIOUS
<1> DEFINE B == {k \in Nat : k \notin T}
<1>1. PICK m \in B : \A k \in B : m <= k
  BY Least
<1>2. m \in Nat /\ m \notin T /\ m # 0 /\ m - 1 \in Nat
  BY <1>1
<1>3. m - 1 \in T
  BY <1>1, <1>2
<1>4. (m - 1) + 1 \in T
  BY <1>2, <1>3
<1> QED BY <1>2, <1>4

\* What HolderExitMarker::drain makes of one unit, field by field.
LEMMA FeedIs ==
  ASSUME LogShape, NEW acc \in FedType, NEW o \in Nat, o < Len(written)
  PROVE  LET u == written[o + 1]
             b == IF u.kind = "end" THEN "empty"
                  ELSE IF acc.buffer # "empty" THEN "junk"
                  ELSE IF u.kind = "head" THEN "marker" ELSE acc.buffer
         IN  /\ u \in UnitType
             /\ Feed(acc, o) \in FedType
             /\ Feed(acc, o).out =
                  IF u.kind # "head" /\ acc.buffer = "empty" THEN Append(acc.out, o) ELSE acc.out
             /\ Feed(acc, o).buffer = IF o = engine.floor - 1 THEN "empty" ELSE b
             /\ Feed(acc, o).exit =
                  IF u.kind = "end" /\ acc.buffer = "marker" /\ o >= engine.floor
                  THEN [how |-> "marker", inc |-> u.inc] ELSE acc.exit
<1> DEFINE u == written[o + 1]
<1>1. u \in UnitType
  BY DEF LogShape
<1>2. u.inc \in Nat /\ u.kind \in {"out", "head", "end"}
  BY <1>1 DEF UnitType
<1>3. acc.out \in Seq(Nat) /\ acc.buffer \in Buffers /\ acc.exit \in ExitType \cup {None}
  BY DEF FedType
<1>4. Append(acc.out, o) \in Seq(Nat)
  BY <1>3
<1>5. [how |-> "marker", inc |-> u.inc] \in ExitType
  BY <1>2 DEF ExitType
<1> HIDE DEF u
<1> QED BY <1>1, <1>2, <1>3, <1>4, <1>5 DEF Feed, FedType, Buffers, u

\* Fed is a run of Feed, one unit after another, from start to end.
LEMMA FedRuns ==
  ASSUME NEW s \in Nat, NEW e \in Nat, s <= e
  PROVE  \E g : /\ g = [o \in s..e |->
                          IF o = s
                          THEN [out |-> <<>>, exit |-> None,
                                buffer |-> IF s > engine.offset THEN "empty" ELSE engine.buffer]
                          ELSE Feed(g[o - 1], o - 1)]
                /\ Fed(s, e) = g[e]
<1> DEFINE base == [out |-> <<>>, exit |-> None,
                    buffer |-> IF s > engine.offset THEN "empty" ELSE engine.buffer]
           F(g, m) == g = [o \in s..m |-> IF o = s THEN base ELSE Feed(g[o - 1], o - 1)]
           T == {n \in Nat : \E g : F(g, s + n)}
<1>1. Fed(s, e) = (CHOOSE g : F(g, e))[e]
  BY DEF Fed
<1> HIDE DEF base
<1>2. 0 \in T
  <2> DEFINE g == [o \in s..(s + 0) |-> base]
  <2>1. F(g, s + 0)
    OBVIOUS
  <2>2. \E h : F(h, s + 0)
    BY <2>1
  <2> QED BY <2>2
<1>3. ASSUME NEW n \in Nat, n \in T PROVE n + 1 \in T
  <2>1. PICK g : F(g, s + n)
    BY <1>3
  <2> DEFINE m == s + (n + 1)
             h == [o \in s..m |-> IF o = m THEN Feed(g[s + n], s + n) ELSE g[o]]
  <2>2. ASSUME NEW o \in s..m PROVE h[o] = IF o = s THEN base ELSE Feed(h[o - 1], o - 1)
    <3>1. CASE o = m
      <4>1. m - 1 = s + n /\ m - 1 \in s..m /\ m - 1 # m /\ m # s
        OBVIOUS
      <4> QED BY <3>1, <4>1
    <3>2. CASE o # m
      <4>1. o \in s..(s + n) /\ (o # s => o - 1 \in s..m /\ o - 1 # m)
        BY <3>2
      <4>2. g[o] = IF o = s THEN base ELSE Feed(g[o - 1], o - 1)
        BY <2>1, <4>1
      <4> QED BY <3>2, <4>1, <4>2
    <3> QED BY <3>1, <3>2
  <2>3. F(h, m)
    BY <2>2
  <2>4. \E k : F(k, s + (n + 1))
    BY <2>3
  <2> QED BY <2>4
<1>4. e - s \in T
  <2> HIDE DEF T
  <2>1. \A n \in Nat : n \in T
    BY <1>2, <1>3, SetInduction
  <2>2. e - s \in Nat
    OBVIOUS
  <2> QED BY <2>1, <2>2
<1>5. \E g : F(g, e)
  <2>1. s + (e - s) = e
    OBVIOUS
  <2>2. \E g : F(g, s + (e - s))
    BY <1>4
  <2> QED BY <2>1, <2>2
<1>6. F(CHOOSE g : F(g, e), e)
  BY <1>5
<1> QED BY <1>1, <1>6 DEF base

\* What the pump knows of the units from s to e, when it began with b.
Told(f, s, e, b) ==
  /\ f \in FedType
  /\ \A i, j \in 1..Len(f.out) : i < j => f.out[i] < f.out[j]
  /\ \A i \in 1..Len(f.out) : f.out[i] >= s /\ f.out[i] < e
  /\ \A i \in 1..Len(f.out) :
       \/ written[f.out[i] + 1].kind = "out"
       \/ f.out[i] = s /\ b = "empty" /\ written[s + 1].kind = "end"
  /\ \A x \in s..(e - 1) : written[x + 1].kind = "out" => Shows(f.out, x) \/ Torn
  /\ f.buffer # "empty" => Torn \/ (e > 0 /\ written[e].kind = "head")
  /\ f.buffer = "junk" => Torn
  /\ e = s => f.buffer = b
  /\ e > s /\ e < Len(written) /\ written[e + 1].kind = "end" => f.buffer # "empty"
  /\ f.exit # None =>
       \E x \in s..(e - 1) :
         /\ x >= engine.floor /\ written[x + 1].kind = "end"
         /\ f.exit = [how |-> "marker", inc |-> written[x + 1].inc]
  /\ ~Torn => \A x \in s..(e - 1) :
       /\ written[x + 1].kind = "end" /\ x >= engine.floor /\ (x > s \/ b = "marker")
       => f.exit # None

\* One more unit leaves true what the pump knows of those it has fed.
LEMMA FeedTells ==
  ASSUME Limits, LogShape, EngineShape, Markers,
         NEW s \in Nat, NEW o \in Nat, s <= o, o < Len(written), NEW b, NEW acc,
         Told(acc, s, o, b)
  PROVE  Told(Feed(acc, o), s, o + 1, b)
<1> DEFINE u == written[o + 1]
           f == Feed(acc, o)
           nb == IF u.kind = "end" THEN "empty"
                 ELSE IF acc.buffer # "empty" THEN "junk"
                 ELSE IF u.kind = "head" THEN "marker" ELSE acc.buffer
<1>1. acc \in FedType
  BY DEF Told
<1>2. /\ u \in UnitType /\ f \in FedType
      /\ f.out = IF u.kind # "head" /\ acc.buffer = "empty" THEN Append(acc.out, o) ELSE acc.out
      /\ f.buffer = IF o = engine.floor - 1 THEN "empty" ELSE nb
      /\ f.exit = IF u.kind = "end" /\ acc.buffer = "marker" /\ o >= engine.floor
                  THEN [how |-> "marker", inc |-> u.inc] ELSE acc.exit
  BY <1>1, FeedIs
<1>3. u.kind \in {"out", "head", "end"} /\ u.inc \in Nat
  BY <1>2 DEF UnitType
<1>4. /\ acc.out \in Seq(Nat) /\ acc.buffer \in {"empty", "marker", "junk"}
      /\ Len(acc.out) \in Nat /\ Len(written) \in Nat /\ engine.floor \in Nat
      /\ engine.floor <= Len(written)
  <2>1. acc.out \in Seq(Nat) /\ acc.buffer \in {"empty", "marker", "junk"}
    BY <1>1 DEF FedType, Buffers
  <2>2. written \in Seq(UnitType)
    BY DEF LogShape
  <2>3. engine.floor \in Nat /\ engine.floor <= Len(written)
    BY DEF EngineShape, EngineType
  <2> QED BY <2>1, <2>2, <2>3
<1>5. \/ f.out = acc.out /\ ~(u.kind # "head" /\ acc.buffer = "empty")
      \/ f.out = Append(acc.out, o) /\ u.kind # "head" /\ acc.buffer = "empty"
  BY <1>2
<1> HIDE DEF f, u, nb
<1>50. /\ \A i \in 1..Len(f.out) :
            \/ i \in 1..Len(acc.out) /\ f.out[i] = acc.out[i]
            \/ /\ i = Len(acc.out) + 1 /\ f.out[i] = o
               /\ u.kind # "head" /\ acc.buffer = "empty"
       /\ \A i \in 1..Len(acc.out) : i \in 1..Len(f.out) /\ f.out[i] = acc.out[i]
       /\ u.kind # "head" /\ acc.buffer = "empty" =>
            Len(acc.out) + 1 \in 1..Len(f.out) /\ f.out[Len(acc.out) + 1] = o
       /\ \A i, j \in 1..Len(f.out) : i < j => f.out[i] < f.out[j]
       /\ \A i \in 1..Len(f.out) : f.out[i] >= s /\ f.out[i] < o + 1
  <2>0. PICK q \in Seq(Nat) : q = acc.out
    BY <1>4
  <2>1. PICK r : r = f.out
    OBVIOUS
  <2>2. /\ \A i, j \in 1..Len(q) : i < j => q[i] < q[j]
        /\ \A i \in 1..Len(q) : q[i] >= s /\ q[i] < o
    BY <2>0 DEF Told
  <2>3. CASE f.out = acc.out /\ ~(u.kind # "head" /\ acc.buffer = "empty")
    <3>1. r = q
      BY <2>0, <2>1, <2>3
    <3>2. \A i \in 1..Len(q) : q[i] \in Nat
      BY <2>0
    <3>3. \A i \in 1..Len(r) : r[i] >= s /\ r[i] < o + 1
      BY <2>2, <3>1, <3>2
    <3> QED BY <2>0, <2>1, <2>2, <2>3, <3>1, <3>3
  <2>4. CASE f.out = Append(acc.out, o) /\ u.kind # "head" /\ acc.buffer = "empty"
    <3>1. r = Append(q, o)
      BY <2>0, <2>1, <2>4
    <3>2. /\ \A i \in 1..Len(r) : \/ i \in 1..Len(q) /\ r[i] = q[i]
                                  \/ i = Len(q) + 1 /\ r[i] = o
          /\ \A i \in 1..Len(q) : i \in 1..Len(r) /\ r[i] = q[i]
          /\ Len(q) + 1 \in 1..Len(r) /\ r[Len(q) + 1] = o
      BY <2>0, <3>1
    <3>3. Len(q) \in Nat /\ \A i \in 1..Len(q) : q[i] \in Nat
      BY <2>0
    <3>4. ASSUME NEW i \in 1..Len(r) PROVE r[i] >= s /\ r[i] < o + 1
      <4>1. CASE i \in 1..Len(q) /\ r[i] = q[i]
        <5>1. q[i] \in Nat /\ q[i] >= s /\ q[i] < o
          BY <2>2, <3>3, <4>1
        <5> QED BY <4>1, <5>1
      <4>2. CASE r[i] = o
        BY <4>2
      <4> QED BY <3>2, <4>1, <4>2
    <3>5. ASSUME NEW i \in 1..Len(r), NEW j \in 1..Len(r), i < j PROVE r[i] < r[j]
      <4>1. Len(r) \in Nat /\ i \in 1..Len(q) /\ r[i] = q[i]
        BY <3>1, <3>2, <3>3, <3>5
      <4>2. q[i] \in Nat /\ q[i] < o
        BY <2>2, <3>3, <4>1
      <4>3. CASE j \in 1..Len(q) /\ r[j] = q[j]
        BY <2>2, <3>5, <4>1, <4>3
      <4>4. CASE r[j] = o
        BY <4>1, <4>2, <4>4
      <4> QED BY <3>2, <4>3, <4>4
    <3> QED BY <2>0, <2>1, <2>4, <3>2, <3>4, <3>5
  <2> QED BY <1>5, <2>3, <2>4
<1>51. \A i \in 1..Len(f.out) :
         \/ i \in 1..Len(acc.out) /\ f.out[i] = acc.out[i]
         \/ /\ i = Len(acc.out) + 1 /\ f.out[i] = o
            /\ u.kind # "head" /\ acc.buffer = "empty"
  BY <1>50
<1>52. \A i \in 1..Len(acc.out) : i \in 1..Len(f.out) /\ f.out[i] = acc.out[i]
  BY <1>50
<1>53. u.kind # "head" /\ acc.buffer = "empty" =>
         Len(acc.out) + 1 \in 1..Len(f.out) /\ f.out[Len(acc.out) + 1] = o
  BY <1>50
\* a unit that follows something kept back
<1>6. acc.buffer # "empty" => Torn \/ u.kind = "end"
  <2> SUFFICES ASSUME acc.buffer # "empty", ~Torn PROVE u.kind = "end"
    OBVIOUS
  <2>1. o > 0 /\ written[o].kind = "head"
    BY DEF Told
  <2>2. o \in DOMAIN written /\ o # Len(written)
    BY <1>4, <2>1 DEF LogShape
  <2> QED BY <2>1, <2>2 DEF Torn, u
\* an end that is not the first unit read
<1>7. u.kind = "end" /\ o > s => acc.buffer # "empty"
  BY DEF Told, u
<1>8. u.kind = "end" /\ o = s /\ acc.buffer = "empty" => b = "empty"
  BY DEF Told
<1>a. \A i, j \in 1..Len(f.out) : i < j => f.out[i] < f.out[j]
  BY <1>50
<1>b. \A i \in 1..Len(f.out) : f.out[i] >= s /\ f.out[i] < o + 1
  BY <1>50
<1>c. \A i \in 1..Len(f.out) :
       \/ written[f.out[i] + 1].kind = "out"
       \/ f.out[i] = s /\ b = "empty" /\ written[s + 1].kind = "end"
  <2> SUFFICES ASSUME NEW i \in 1..Len(f.out)
               PROVE \/ written[f.out[i] + 1].kind = "out"
                     \/ f.out[i] = s /\ b = "empty" /\ written[s + 1].kind = "end"
    OBVIOUS
  <2>1. CASE i \in 1..Len(acc.out) /\ f.out[i] = acc.out[i]
    BY <2>1 DEF Told
  <2>2. CASE f.out[i] = o /\ u.kind # "head" /\ acc.buffer = "empty"
    <3>1. CASE u.kind = "out"
      BY <2>2, <3>1 DEF u
    <3>2. CASE u.kind = "end"
      <4>1. o = s /\ b = "empty"
        BY <1>7, <1>8, <2>2, <3>2
      <4> QED BY <2>2, <3>2, <4>1 DEF u
    <3> QED BY <1>3, <2>2, <3>1, <3>2
  <2> QED BY <1>51, <2>1, <2>2
<1>d. \A x \in s..((o + 1) - 1) : written[x + 1].kind = "out" => Shows(f.out, x) \/ Torn
  <2> SUFFICES ASSUME NEW x \in s..o, written[x + 1].kind = "out", ~Torn PROVE Shows(f.out, x)
    BY <1>4
  <2>1. CASE x = o
    <3>1. u.kind = "out" /\ acc.buffer = "empty"
      BY <1>6, <2>1 DEF u
    <3>2. Len(acc.out) + 1 \in 1..Len(f.out) /\ f.out[Len(acc.out) + 1] = o
      BY <1>53, <3>1
    <3> QED BY <2>1, <3>2 DEF Shows
  <2>2. CASE x # o
    <3>1. x \in s..(o - 1)
      BY <2>2
    <3>2. Shows(acc.out, x)
      BY <3>1 DEF Told
    <3>3. PICK i \in 1..Len(acc.out) : acc.out[i] = x
      BY <3>2 DEF Shows
    <3>4. i \in 1..Len(f.out) /\ f.out[i] = x
      BY <1>52, <3>3
    <3> QED BY <3>4 DEF Shows
  <2> QED BY <2>1, <2>2
<1>e. f.buffer # "empty" => Torn \/ (o + 1 > 0 /\ written[o + 1].kind = "head")
  <2> SUFFICES ASSUME f.buffer # "empty", ~Torn PROVE u.kind = "head"
    BY DEF u
  <2> QED BY <1>2, <1>3, <1>6 DEF nb
<1>f. f.buffer = "junk" => Torn
  <2> SUFFICES ASSUME f.buffer = "junk", ~Torn PROVE FALSE
    OBVIOUS
  <2>1. acc.buffer # "junk"
    BY DEF Told
  <2> QED BY <1>2, <1>3, <1>4, <1>6, <2>1 DEF nb
<1>g. o + 1 < Len(written) /\ written[(o + 1) + 1].kind = "end" => f.buffer # "empty"
  <2> SUFFICES ASSUME o + 1 < Len(written), written[(o + 1) + 1].kind = "end" PROVE f.buffer # "empty"
    OBVIOUS
  <2>1. (o + 1) + 1 \in 1..Len(written) /\ ((o + 1) + 1) - 1 = o + 1
    BY <1>4
  <2>2. u.kind = "head"
    BY <2>1 DEF Markers, u
  <2>3. o # engine.floor - 1
    <3> SUFFICES ASSUME o = engine.floor - 1 PROVE FALSE
      OBVIOUS
    <3>1. engine.floor = o + 1
      BY <1>4
    <3> QED BY <3>1 DEF Markers, NotEndAt
  <2> QED BY <1>2, <1>4, <2>2, <2>3 DEF nb
<1>h. f.exit # None =>
       \E x \in s..((o + 1) - 1) :
         /\ x >= engine.floor /\ written[x + 1].kind = "end"
         /\ f.exit = [how |-> "marker", inc |-> written[x + 1].inc]
  <2> SUFFICES ASSUME f.exit # None
               PROVE \E x \in s..((o + 1) - 1) :
                       /\ x >= engine.floor /\ written[x + 1].kind = "end"
                       /\ f.exit = [how |-> "marker", inc |-> written[x + 1].inc]
    OBVIOUS
  <2>1. CASE u.kind = "end" /\ acc.buffer = "marker" /\ o >= engine.floor
    <3>1. o \in s..((o + 1) - 1)
      OBVIOUS
    <3>2. f.exit = [how |-> "marker", inc |-> u.inc]
      BY <1>2, <2>1
    <3> QED BY <2>1, <3>1, <3>2 DEF u
  <2>2. CASE f.exit = acc.exit
    <3>1. PICK x \in s..(o - 1) :
            /\ x >= engine.floor /\ written[x + 1].kind = "end"
            /\ acc.exit = [how |-> "marker", inc |-> written[x + 1].inc]
      BY <2>2 DEF Told
    <3>2. x \in s..((o + 1) - 1)
      BY <3>1
    <3> QED BY <2>2, <3>1, <3>2
  <2> QED BY <1>2, <2>1, <2>2
<1>i. ~Torn => \A x \in s..((o + 1) - 1) :
       /\ written[x + 1].kind = "end" /\ x >= engine.floor /\ (x > s \/ b = "marker")
       => f.exit # None
  <2> SUFFICES ASSUME ~Torn, NEW x \in s..o, written[x + 1].kind = "end", x >= engine.floor,
                      x > s \/ b = "marker"
               PROVE f.exit # None
    BY <1>4
  <2>0. [how |-> "marker", inc |-> u.inc] # None
    BY <1>3 DEF Limits
  <2>1. CASE x = o
    <3>1. u.kind = "end"
      BY <2>1 DEF u
    <3>2. acc.buffer # "junk"
      BY DEF Told
    <3>3. o = s => acc.buffer = b
      BY DEF Told
    <3>4. acc.buffer = "marker"
      BY <1>4, <1>7, <2>1, <3>1, <3>2, <3>3
    <3> QED BY <1>2, <2>0, <2>1, <3>1, <3>4
  <2>2. CASE x # o
    <3>1. x \in s..(o - 1)
      BY <2>2
    <3>2. acc.exit # None
      BY <3>1 DEF Told
    <3> QED BY <1>2, <2>0, <3>2
  <2> QED BY <2>1, <2>2
<1>j. o + 1 # s /\ o + 1 > s
  OBVIOUS
<1>k. f \in FedType
  BY <1>2
<1> QED
  <2>1. Told(f, s, o + 1, b)
    BY <1>a, <1>b, <1>c, <1>d, <1>e, <1>f, <1>g, <1>h, <1>i, <1>j, <1>k DEF Told
  <2> QED BY <2>1 DEF f

\* What the pump knows of a whole read, by induction over its units.
LEMMA FedTells ==
  ASSUME Limits, LogShape, EngineShape, Markers,
         NEW s \in Nat, NEW e \in Nat, s <= e, e <= Len(written),
         NEW b, b = IF s > engine.offset THEN "empty" ELSE engine.buffer,
         b # "empty" => Torn \/ (s > 0 /\ written[s].kind = "head"), b = "junk" => Torn
  PROVE  Told(Fed(s, e), s, e, b)
<1>1. PICK g : /\ g = [o \in s..e |->
                          IF o = s
                          THEN [out |-> <<>>, exit |-> None,
                                buffer |-> IF s > engine.offset THEN "empty" ELSE engine.buffer]
                          ELSE Feed(g[o - 1], o - 1)]
               /\ Fed(s, e) = g[e]
  BY FedRuns
<1> DEFINE T == {n \in Nat : s + n <= e => Told(g[s + n], s, s + n, b)}
<1>2. 0 \in T
  <2>1. b \in Buffers
    BY DEF EngineShape, EngineType, Buffers
  <2>2. g[s] = [out |-> <<>>, exit |-> None, buffer |-> b] /\ s + 0 = s
    BY <1>1
  <2>3. g[s] \in FedType /\ g[s].out = <<>> /\ g[s].exit = None /\ g[s].buffer = b
    BY <2>1, <2>2 DEF FedType
  <2>4. 1..Len(g[s].out) = {} /\ s..(s - 1) = {} /\ ~(s > s)
    BY <2>3
  <2>5. Told(g[s], s, s, b)
    BY <2>3, <2>4 DEF Told
  <2> QED BY <2>2, <2>5
<1>3. ASSUME NEW n \in Nat, n \in T PROVE n + 1 \in T
  <2> SUFFICES ASSUME s + (n + 1) <= e PROVE Told(g[s + (n + 1)], s, s + (n + 1), b)
    OBVIOUS
  <2>0. e \in Nat /\ Len(written) \in Nat
    BY DEF LogShape
  <2>1. s + n \in Nat /\ s <= s + n /\ s + n < Len(written) /\ s + n <= e
        /\ s + (n + 1) = (s + n) + 1 /\ (s + n) + 1 \in s..e /\ (s + n) + 1 # s
        /\ ((s + n) + 1) - 1 = s + n
    BY <2>0
  <2>2. Told(g[s + n], s, s + n, b)
    BY <1>3, <2>1
  <2>3. g[(s + n) + 1] = Feed(g[s + n], s + n)
    BY <1>1, <2>1
  <2>4. Told(Feed(g[s + n], s + n), s, (s + n) + 1, b)
    BY <2>1, <2>2, FeedTells
  <2> QED BY <2>1, <2>3, <2>4
<1>4. \A n \in Nat : n \in T
  <2> HIDE DEF T
  <2> QED BY <1>2, <1>3, SetInduction
<1>5. e - s \in Nat /\ s + (e - s) = e
  OBVIOUS
<1>6. e - s \in T
  BY <1>4, <1>5
<1>7. Told(g[e], s, e, b)
  BY <1>5, <1>6
<1> QED BY <1>1, <1>7

-----------------------------------------------------------------------------
\* A step of the Holder: the log grew, if at all, by whole appends of the
\* Holder's own, and only a running Holder appends.
Grew ==
  /\ Len(written) <= Len(written')
  /\ \A i \in 1..Len(written) : written'[i] = written[i]
  /\ \A i \in 1..Len(written') : i > Len(written) =>
       /\ written'[i].inc = holder.inc
       /\ written'[i].kind = "end" =>
            /\ i > Len(written) + 1 /\ written'[i - 1].kind = "head"
            /\ i = Len(written') /\ holder'.phase = "marked"
  /\ Len(files) <= Len(files')
  /\ \A i \in 1..Len(files) :
       /\ files'[i].tail >= files[i].tail
       /\ i < Len(files) => files'[i].tail = files[i].tail
  /\ \A i \in 1..Len(files') : files'[i].tail = Len(written') \/ i < Len(files)
  /\ holder'.inc = holder.inc /\ holder'.epoch = holder.epoch
  /\ Len(written') > Len(written) => holder.phase \in {"running", "finished", "drained"}
  /\ Len(files') > Len(files) => holder.phase \in {"running", "finished", "drained"}
  /\ holder.phase \in {"marked", "leaving", "gone"} => holder'.phase \in {"marked", "leaving", "gone"}
  /\ holder.phase \in {"leaving", "gone"} => holder'.phase \in {"leaving", "gone"}
  /\ holder.phase # "none" => holder'.phase # "none"

\* The log's sizes are naturals; half a capacity and a replay are two units at least.
LEMMA Halves ==
  ASSUME Limits
  PROVE  /\ DiskCapacity \in Nat /\ ReadSize \in Nat /\ ReadSize >= 1
         /\ DiskCapacity \div 2 \in Nat /\ DiskCapacity \div 2 >= 2
         /\ DiskCapacity \div 2 <= DiskCapacity /\ ReplayBudget \in Nat /\ ReplayBudget >= 2
<1>1. DiskCapacity \in Nat /\ ReadSize \in Nat /\ ReadSize >= 1 /\ DiskCapacity >= 4
      /\ ReplayBudget \in Nat /\ ReplayBudget >= 2
  BY DEF Limits
<1> QED BY <1>1

\* The append as the log sees it.
Written(ext, counted) ==
  /\ ext \in Seq(UnitType) /\ counted \in {0, Len(ext)}
  /\ written' = written \o ext
  /\ LET f == [files[Len(files)] EXCEPT !.tail = @ + Len(ext), !.bytes = @ + counted]
         base == f.base + f.bytes - DiskCapacity \div 2
     IN  \/ files' = [files EXCEPT ![Len(files)] = f]
         \/ /\ f.bytes > DiskCapacity
            /\ files' = Append([files EXCEPT ![Len(files)] = f],
                               [base |-> base, tail |-> f.tail, bytes |-> f.tail - base])

\* An append adds its units to the end of the log and disturbs none.
LEMMA WrittenUnits ==
  ASSUME LogShape, NEW ext, NEW c, Written(ext, c)
  PROVE  /\ written' \in Seq(UnitType) /\ Len(written') = Len(written) + Len(ext)
         /\ Len(ext) \in Nat /\ Len(written) \in Nat
         /\ \A i \in 1..Len(written) : written'[i] = written[i]
         /\ \A i \in 1..Len(written') : i > Len(written) =>
              i - Len(written) \in 1..Len(ext) /\ written'[i] = ext[i - Len(written)]
<1>1. PICK w : w \in Seq(UnitType) /\ w = written
  BY DEF LogShape
<1>2. PICK x : x \in Seq(UnitType) /\ x = ext /\ written' = w \o x
  BY <1>1 DEF Written
<1>3. Len(w) \in Nat /\ Len(x) \in Nat
  BY <1>1, <1>2
<1>4. w \o x \in Seq(UnitType) /\ Len(w \o x) = Len(w) + Len(x)
  BY <1>1, <1>2
<1>5. \A i \in 1..Len(w) : (w \o x)[i] = w[i]
  BY <1>1, <1>2
<1>6. \A i \in 1..(Len(w) + Len(x)) : i > Len(w) =>
        i - Len(w) \in 1..Len(x) /\ (w \o x)[i] = x[i - Len(w)]
  BY <1>1, <1>2, <1>3
<1> QED BY <1>1, <1>2, <1>3, <1>4, <1>5, <1>6

\* An append lengthens the file at the path, and a rotation puts in its place
\* one that holds half a capacity and ends where the log ends.
LEMMA WrittenFiles ==
  ASSUME Limits, LogShape, NEW ext, NEW c, Written(ext, c)
  PROVE  /\ LogShape'
         /\ Len(files) <= Len(files')
         /\ \A i \in 1..Len(files) :
              /\ files'[i].tail >= files[i].tail
              /\ i < Len(files) => files'[i].tail = files[i].tail
         /\ \A i \in 1..Len(files') : files'[i].tail = Len(written') \/ i < Len(files)
<1> DEFINE f == [files[Len(files)] EXCEPT !.tail = @ + Len(ext), !.bytes = @ + c]
           half == DiskCapacity \div 2
           base == f.base + f.bytes - half
           F == [files EXCEPT ![Len(files)] = f]
           rot == [base |-> base, tail |-> f.tail, bytes |-> f.tail - base]
<1>1. /\ written' \in Seq(UnitType) /\ Len(written') = Len(written) + Len(ext)
      /\ Len(ext) \in Nat /\ Len(written) \in Nat
  BY WrittenUnits
<1>2. c \in Nat /\ c <= Len(ext)
  BY <1>1 DEF Written
<1>3. half \in Nat /\ half >= 2 /\ half <= DiskCapacity /\ DiskCapacity \in Nat
  BY Halves
<1>4. /\ files \in Seq(FileType) /\ Len(files) \in Nat /\ Len(files) >= 1
      /\ Len(files) \in 1..Len(files)
  BY DEF LogShape
<1>5. \A i \in 1..Len(files) :
        /\ files[i] \in FileType
        /\ files[i].base \in Nat /\ files[i].tail \in Nat /\ files[i].bytes \in Nat
        /\ files[i].tail <= Len(written) /\ files[i].base + files[i].bytes <= files[i].tail
        /\ files[i].base > 0 => files[i].base + half <= files[i].tail
  <2>1. \A i \in 1..Len(files) : files[i] \in FileType
    BY <1>4
  <2> QED BY <2>1 DEF LogShape, FileType
<1>6. /\ f \in FileType /\ f.base = files[Len(files)].base
      /\ f.tail = files[Len(files)].tail + Len(ext) /\ f.bytes = files[Len(files)].bytes + c
  <2>1. PICK g : g = files[Len(files)] /\ g \in FileType
    BY <1>4, <1>5
  <2>2. f = [g EXCEPT !.tail = g.tail + Len(ext), !.bytes = g.bytes + c]
    BY <2>1
  <2> HIDE DEF f
  <2>3. g.tail \in Nat /\ g.bytes \in Nat /\ g.base \in Nat
    BY <2>1 DEF FileType
  <2>4. g.tail + Len(ext) \in Nat /\ g.bytes + c \in Nat
    BY <1>1, <1>2, <2>3
  <2>5. /\ f \in FileType /\ f.base = g.base
        /\ f.tail = g.tail + Len(ext) /\ f.bytes = g.bytes + c
    BY <2>1, <2>2, <2>4 DEF FileType
  <2> QED BY <2>1, <2>5
<1>7. files[Len(files)].tail = Len(written)
  BY DEF LogShape
<1> HIDE DEF f, half
<1>8. /\ f.base \in Nat /\ f.tail \in Nat /\ f.bytes \in Nat /\ f.tail = Len(written')
      /\ f.base + f.bytes <= f.tail /\ (f.base > 0 => f.base + half <= f.tail)
  <2>1. PICK b, t, n \in Nat :
          /\ b = files[Len(files)].base /\ t = files[Len(files)].tail
          /\ n = files[Len(files)].bytes /\ b + n <= t /\ (b > 0 => b + half <= t)
    BY <1>4, <1>5
  <2>2. f.base = b /\ f.tail = t + Len(ext) /\ f.bytes = n + c /\ t = Len(written)
    BY <1>6, <1>7, <2>1
  <2>3. PICK x \in Nat : x = Len(ext) /\ c \in Nat /\ c <= x /\ Len(written') = t + x
    BY <1>1, <1>2, <2>2
  <2>4. (b + (n + c)) <= t + x /\ (b > 0 => b + half <= t + x) /\ t + x \in Nat /\ n + c \in Nat
    <3>1. b \in Nat /\ t \in Nat /\ n \in Nat /\ x \in Nat /\ c \in Nat /\ half \in Nat
      BY <1>3, <2>1, <2>3
    <3>2. b + n <= t /\ c <= x
      BY <2>1, <2>3
    <3>3. (b + (n + c)) <= t + x
      BY <3>1, <3>2
    <3>4. b > 0 => b + half <= t + x
      <4>1. ASSUME b > 0 PROVE b + half <= t
        BY <2>1, <4>1
      <4> QED BY <3>1, <4>1
    <3> QED BY <3>1, <3>3, <3>4
  <2> QED BY <2>1, <2>2, <2>3, <2>4
<1>9. F \in Seq(FileType) /\ Len(F) = Len(files) /\ F[Len(files)] = f
      /\ \A i \in 1..Len(files) : i # Len(files) => F[i] = files[i]
  BY <1>4, <1>6
<1> HIDE DEF F
<1>10. \A i \in 1..Len(F) :
         /\ F[i].tail <= Len(written') /\ F[i].base + F[i].bytes <= F[i].tail
         /\ F[i].base > 0 => F[i].base + half <= F[i].tail
  <2> SUFFICES ASSUME NEW i \in 1..Len(F)
               PROVE /\ F[i].tail <= Len(written') /\ F[i].base + F[i].bytes <= F[i].tail
                     /\ F[i].base > 0 => F[i].base + half <= F[i].tail
    OBVIOUS
  <2>1. CASE i = Len(files)
    BY <1>1, <1>8, <1>9, <2>1
  <2>2. CASE i # Len(files)
    <3>1. i \in 1..Len(files) /\ F[i] = files[i]
      BY <1>9, <2>2
    <3>2. PICK t \in Nat : t = files[i].tail /\ t <= Len(written)
      BY <1>5, <3>1
    <3>3. t <= Len(written')
      BY <1>1, <3>2
    <3> QED BY <1>5, <3>1, <3>2, <3>3
  <2> QED BY <2>1, <2>2
<1>11. \A i \in 1..Len(files) :
         /\ F[i].tail >= files[i].tail /\ (i < Len(files) => F[i].tail = files[i].tail)
         /\ F[i].tail = Len(written') \/ i < Len(files)
  <2> SUFFICES ASSUME NEW i \in 1..Len(files)
               PROVE /\ F[i].tail >= files[i].tail /\ (i < Len(files) => F[i].tail = files[i].tail)
                     /\ F[i].tail = Len(written') \/ i < Len(files)
    OBVIOUS
  <2>0. files[i].tail \in Nat
    BY <1>5
  <2>1. CASE i = Len(files)
    BY <1>1, <1>6, <1>7, <1>8, <1>9, <2>0, <2>1
  <2>2. CASE i # Len(files)
    <3>1. F[i] = files[i] /\ i < Len(files)
      BY <1>4, <1>9, <2>2
    <3> QED BY <2>0, <3>1
  <2> QED BY <2>1, <2>2
<1>12. CASE files' = F
  <2>1. LogShape'
    BY <1>1, <1>4, <1>8, <1>9, <1>10, <1>12 DEF LogShape, half
  <2> QED BY <1>4, <1>9, <1>11, <1>12, <2>1
<1>13. CASE f.bytes > DiskCapacity /\ files' = Append(F, rot)
  <2>1. /\ base \in Nat /\ rot.base = base /\ rot.tail = f.tail /\ rot.bytes = f.tail - base
        /\ f.tail - base \in Nat /\ base + half <= f.tail
    <3>1. f.base \in Nat /\ f.tail \in Nat /\ f.bytes \in Nat /\ half \in Nat
          /\ f.base + f.bytes <= f.tail /\ half <= f.bytes
      BY <1>3, <1>8, <1>13
    <3>2. base \in Nat /\ f.tail - base \in Nat /\ base + half <= f.tail
      BY <3>1
    <3>3. rot.base = base /\ rot.tail = f.tail /\ rot.bytes = f.tail - base
      OBVIOUS
    <3> QED BY <3>2, <3>3
  <2>2. rot \in FileType
    BY <1>8, <2>1 DEF FileType
  <2> HIDE DEF rot, base
  <2>3. /\ files' \in Seq(FileType) /\ Len(files') = Len(files) + 1
        /\ files'[Len(files) + 1] = rot
        /\ \A i \in 1..Len(files) : files'[i] = F[i]
    BY <1>4, <1>9, <1>13, <2>2
  <2>4. \A i \in 1..Len(files') : i \in 1..Len(files) \/ i = Len(files) + 1
    BY <1>4, <2>3
  <2>5. ASSUME NEW i \in 1..Len(files')
        PROVE  /\ files'[i].tail <= Len(written') /\ files'[i].base + files'[i].bytes <= files'[i].tail
               /\ files'[i].base > 0 => files'[i].base + half <= files'[i].tail
               /\ files'[i].tail = Len(written') \/ i < Len(files)
    <3>1. CASE i \in 1..Len(files)
      BY <1>9, <1>10, <1>11, <2>3, <3>1
    <3>2. CASE i = Len(files) + 1
      <4>1. base + (f.tail - base) = f.tail
        BY <1>8, <2>1
      <4>2. files'[i] = rot
        BY <2>3, <3>2
      <4>3. files'[i].base = base /\ files'[i].tail = f.tail /\ files'[i].bytes = f.tail - base
        BY <2>1, <4>2
      <4> QED BY <1>1, <1>8, <2>1, <4>1, <4>3
    <3> QED BY <2>4, <3>1, <3>2
  <2>6. Len(files') >= 1 /\ files'[Len(files')].tail = Len(written')
    BY <1>4, <1>8, <2>1, <2>3
  <2>7. LogShape'
    BY <1>1, <2>3, <2>5, <2>6 DEF LogShape, half
  <2> QED BY <1>4, <1>11, <2>3, <2>5, <2>7
<1> QED
  <2>1. \/ files' = F
        \/ f.bytes > DiskCapacity /\ files' = Append(F, rot)
    BY DEF Written, F, f, half
  <2> QED BY <1>12, <1>13, <2>1

\* Joining a sequence with none and with one element.
LEMMA Catenated ==
  ASSUME NEW S, NEW F \in Seq(S), NEW r
  PROVE  F \o <<>> = F /\ F \o <<r>> = Append(F, r)
<1>1. F \in Seq(S \cup {r}) /\ <<r>> \in Seq(S \cup {r})
  OBVIOUS
<1> QED BY <1>1

\* What an append may carry: one Holder's units, a marker at its end.
Proper(units, h) ==
  /\ units \in Seq(UnitType)
  /\ \A i \in 1..Len(units) :
       /\ units[i].inc = holder.inc
       /\ units[i].kind = "end" =>
            i > 1 /\ units[i - 1].kind = "head" /\ i = Len(units) /\ h.phase = "marked"
  /\ h \in HolderType /\ h.inc = holder.inc /\ h.epoch = holder.epoch /\ h.phase # "none"

\* append, in each of its outcomes, writes a prefix of its units.
LEMMA AppendWrites ==
  ASSUME Limits, LogShape, NEW units, NEW h, Proper(units, h), AppendLog(units, h)
  PROVE  /\ holder' \in HolderType /\ holder'.inc = h.inc /\ holder'.epoch = h.epoch
         /\ holder'.phase = h.phase
         /\ \/ written' = written /\ files' = files
            \/ \E ext, c : Written(ext, c) /\ Proper(ext, h)
<1> DEFINE fl(n, c) == [files[Len(files)] EXCEPT !.tail = @ + n, !.bytes = @ + c]
           F(n, c) == [files EXCEPT ![Len(files)] = fl(n, c)]
           rot(n, c) == [base |-> fl(n, c).base + fl(n, c).bytes - DiskCapacity \div 2,
                         tail |-> fl(n, c).tail,
                         bytes |-> fl(n, c).tail
                                     - (fl(n, c).base + fl(n, c).bytes - DiskCapacity \div 2)]
<1>0. h \in HolderType /\ units \in Seq(UnitType) /\ Len(units) \in Nat
  BY DEF Proper
<1>1. [h EXCEPT !.writes = FALSE] \in HolderType
      /\ [h EXCEPT !.writes = FALSE].inc = h.inc /\ [h EXCEPT !.writes = FALSE].epoch = h.epoch
      /\ [h EXCEPT !.writes = FALSE].phase = h.phase
  BY <1>0 DEF HolderType
<1>2. \A n, c : Lengthened(n, c) = fl(n, c)
  BY DEF Lengthened, Current
<1>3. ASSUME NEW n \in Nat, NEW c \in Nat PROVE F(n, c) \in Seq(FileType)
  <2>1. PICK L \in Nat : L = Len(files) /\ L >= 1 /\ files[L] \in FileType /\ files \in Seq(FileType)
    BY DEF LogShape
  <2>2. files[L].tail + n \in Nat /\ files[L].bytes + c \in Nat
    BY <2>1 DEF FileType
  <2>3. fl(n, c) \in FileType
    BY <2>1, <2>2 DEF FileType
  <2> HIDE DEF fl
  <2> QED BY <2>1, <2>3
<1>4. Grown(Len(units)) = IF fl(Len(units), Len(units)).bytes > DiskCapacity
                          THEN Append(F(Len(units), Len(units)), rot(Len(units), Len(units)))
                          ELSE F(Len(units), Len(units))
  <2>1. F(Len(units), Len(units)) \in Seq(FileType)
    BY <1>0, <1>3
  <2>2. Grown(Len(units)) =
          F(Len(units), Len(units))
            \o (IF fl(Len(units), Len(units)).bytes > DiskCapacity
                THEN <<rot(Len(units), Len(units))>> ELSE <<>>)
    BY DEF Grown, Lengthened, Current
  <2> HIDE DEF F, fl, rot
  <2> QED BY <2>1, <2>2, Catenated
<1>5. CASE holder' = h /\ UNCHANGED <<written, files>>
  BY <1>0, <1>5
<1>6. CASE /\ written' = written \o units /\ files' = Grown(Len(units))
           /\ holder' = h
  <2>1. Written(units, Len(units))
    BY <1>0, <1>4, <1>6 DEF Written
  <2> QED BY <1>0, <1>6, <2>1
<1>7. ASSUME NEW n \in 0..Len(units),
             written' = written \o SubSeq(units, 1, n),
             files' = [files EXCEPT ![Current] = Lengthened(n, IF n < Len(units) THEN 0 ELSE n)],
             holder' = h
      PROVE  \E ext, c : Written(ext, c) /\ Proper(ext, h)
  <2> DEFINE ext == SubSeq(units, 1, n)
             c == IF n < Len(units) THEN 0 ELSE n
  <2>1. ext \in Seq(UnitType) /\ Len(ext) = n /\ \A i \in 1..n : ext[i] = units[i]
    BY <1>0
  <2>2. c \in {0, Len(ext)}
    BY <2>1
  <2> HIDE DEF ext, c
  <2>3. Written(ext, c)
    <3>1. Lengthened(n, c) = fl(Len(ext), c)
      BY <1>2, <2>1
    <3>2. files' = [files EXCEPT ![Len(files)] = fl(Len(ext), c)]
      BY <1>7, <3>1 DEF Current, c
    <3>3. written' = written \o ext
      BY <1>7 DEF ext
    <3> QED BY <2>1, <2>2, <3>2, <3>3 DEF Written
  <2>4. Proper(ext, h)
    <3> SUFFICES ASSUME NEW i \in 1..Len(ext)
                 PROVE /\ ext[i].inc = holder.inc
                       /\ ext[i].kind = "end" =>
                            i > 1 /\ ext[i - 1].kind = "head" /\ i = Len(ext) /\ h.phase = "marked"
      BY <2>1 DEF Proper
    <3>1. i \in 1..Len(units) /\ ext[i] = units[i] /\ (i > 1 => ext[i - 1] = units[i - 1])
          /\ i <= n /\ n <= Len(units)
      BY <1>0, <2>1
    <3>2. i = Len(units) => i = Len(ext)
      BY <1>0, <2>1, <3>1
    <3> QED BY <3>1, <3>2 DEF Proper
  <2> QED BY <2>3, <2>4
<1>8. CASE /\ written' = written \o units
           /\ files' \in {Grown(Len(units)),
                         [files EXCEPT ![Current] = Lengthened(Len(units), Len(units))]}
           /\ holder' = [h EXCEPT !.writes = FALSE]
  <2>1. CASE files' = Grown(Len(units))
    <3>1. Written(units, Len(units))
      BY <1>0, <1>4, <1>8, <2>1 DEF Written
    <3> QED BY <1>0, <1>1, <1>8, <3>1
  <2>2. CASE files' = [files EXCEPT ![Current] = Lengthened(Len(units), Len(units))]
    <3>1. Written(units, Len(units))
      BY <1>0, <1>2, <1>8, <2>2 DEF Written, Current
    <3> QED BY <1>1, <1>8, <3>1
  <2> QED BY <1>8, <2>1, <2>2
<1> QED BY <1>0, <1>5, <1>6, <1>7, <1>8 DEF AppendLog

\* The two together.
LEMMA AppendGrows ==
  ASSUME Limits, LogShape, HolderShape, NEW units, NEW h, Proper(units, h),
         AppendLog(units, h), holder.phase \in {"running", "finished", "drained"}
  PROVE  LogShape' /\ Grew /\ holder' \in HolderType /\ holder'.phase = h.phase
         /\ Len(written) <= Len(written')
<1>1. /\ holder' \in HolderType /\ holder'.inc = h.inc /\ holder'.epoch = h.epoch
      /\ holder'.phase = h.phase
      /\ \/ written' = written /\ files' = files
         \/ \E ext, c : Written(ext, c) /\ Proper(ext, h)
  BY AppendWrites
<1>2. h.inc = holder.inc /\ h.epoch = holder.epoch /\ h.phase # "none"
  BY DEF Proper
<1>3. CASE written' = written /\ files' = files
  <2>1. LogShape'
    BY <1>3 DEF LogShape
  <2>2. Len(written) \in Nat /\ Len(files) \in Nat
    BY DEF LogShape
  <2>3. \A i \in 1..Len(files) : files[i].tail \in Nat
    <3>1. \A i \in 1..Len(files) : files[i] \in FileType
      BY DEF LogShape
    <3> QED BY <3>1 DEF FileType
  <2>4. \A i \in 1..Len(files) : files[i].tail = Len(written) \/ i < Len(files)
    BY <2>2 DEF LogShape
  <2> QED BY <1>1, <1>2, <1>3, <2>1, <2>2, <2>3, <2>4 DEF Grew
<1>4. ASSUME NEW ext, NEW c, Written(ext, c), Proper(ext, h)
      PROVE LogShape' /\ Grew /\ Len(written) <= Len(written')
  <2>1. /\ LogShape'
        /\ Len(files) <= Len(files')
        /\ \A i \in 1..Len(files) :
             /\ files'[i].tail >= files[i].tail
             /\ i < Len(files) => files'[i].tail = files[i].tail
        /\ \A i \in 1..Len(files') : files'[i].tail = Len(written') \/ i < Len(files)
    BY <1>4, WrittenFiles
  <2>2. /\ Len(written') = Len(written) + Len(ext)
        /\ Len(ext) \in Nat /\ Len(written) \in Nat
        /\ \A i \in 1..Len(written) : written'[i] = written[i]
        /\ \A i \in 1..Len(written') : i > Len(written) =>
             i - Len(written) \in 1..Len(ext) /\ written'[i] = ext[i - Len(written)]
    BY <1>4, WrittenUnits
  <2>3. ASSUME NEW i \in 1..Len(written'), i > Len(written)
        PROVE  /\ written'[i].inc = holder.inc
               /\ written'[i].kind = "end" =>
                    /\ i > Len(written) + 1 /\ written'[i - 1].kind = "head"
                    /\ i = Len(written') /\ holder'.phase = "marked"
    <3>1. PICK k : k = i - Len(written) /\ k \in 1..Len(ext) /\ written'[i] = ext[k]
      BY <2>2, <2>3
    <3>2. ext[k].inc = holder.inc
      BY <1>4, <3>1 DEF Proper
    <3>3. ASSUME ext[k].kind = "end" PROVE k > 1 /\ ext[k - 1].kind = "head" /\ k = Len(ext) /\ h.phase = "marked"
      BY <1>4, <3>1, <3>3 DEF Proper
    <3>4. ASSUME k > 1 PROVE i > Len(written) + 1 /\ written'[i - 1] = ext[k - 1]
      <4>1. i \in Nat /\ k \in Nat /\ i - 1 \in 1..Len(written') /\ i - 1 > Len(written)
            /\ (i - 1) - Len(written) = k - 1 /\ i > Len(written) + 1
        BY <2>2, <2>3, <3>1, <3>4
      <4> QED BY <2>2, <4>1
    <3>5. k = Len(ext) => i = Len(written')
      BY <2>2, <3>1
    <3> QED BY <1>1, <3>1, <3>2, <3>3, <3>4, <3>5
  <2>4. Len(written) <= Len(written')
    BY <2>2
  <2> QED BY <1>1, <1>2, <2>1, <2>2, <2>3, <2>4 DEF Grew
<1> QED BY <1>1, <1>3, <1>4 DEF Grew

\* A step that leaves the log alone.
LEMMA StillGrew ==
  ASSUME LogShape, holder \in HolderType, UNCHANGED <<written, files>>,
         holder'.inc = holder.inc, holder'.epoch = holder.epoch,
         holder.phase \in {"marked", "leaving", "gone"} =>
           holder'.phase \in {"marked", "leaving", "gone"},
         holder.phase \in {"leaving", "gone"} => holder'.phase \in {"leaving", "gone"},
         holder.phase # "none" => holder'.phase # "none"
  PROVE  LogShape' /\ Grew
<1>1. LogShape'
  BY DEF LogShape
<1>2. Len(written) \in Nat /\ Len(files) \in Nat
  BY DEF LogShape
<1>3. \A i \in 1..Len(files) : files[i].tail \in Nat
  <2>1. \A i \in 1..Len(files) : files[i] \in FileType
    BY DEF LogShape
  <2> QED BY <2>1 DEF FileType
<1>4. \A i \in 1..Len(files) : files[i].tail = Len(written) \/ i < Len(files)
  BY <1>2 DEF LogShape
<1> QED BY <1>1, <1>2, <1>3, <1>4 DEF Grew

HolderAction ==
  ChildWrites \/ ChildExits \/ PumpPty \/ WatchExit \/ FinalDrain \/ WriteMarker \/ Cleanup
    \/ HolderDies

\* What the terminal held carries the Holder's own incarnation.
LEMMA DrainProper ==
  ASSUME HolderShape, NEW h \in HolderType, h.inc = holder.inc, h.epoch = holder.epoch,
         h.phase # "none"
  PROVE  Proper([i \in 1..pty |-> Unit("out")], h)
<1> DEFINE units == [i \in 1..pty |-> Unit("out")]
<1>1. Unit("out") \in UnitType /\ Unit("out").inc = holder.inc /\ Unit("out").kind = "out"
  BY DEF Unit, UnitType, HolderShape, HolderType
<1>2. pty \in Nat
  BY DEF HolderShape
<1>3. units \in Seq(UnitType) /\ Len(units) = pty /\ \A i \in 1..pty : units[i] = Unit("out")
  BY <1>1, <1>2
<1> HIDE DEF units
<1>4. Proper(units, h)
  BY <1>1, <1>3 DEF Proper
<1> QED BY <1>4 DEF units

\* The exit marker is two units, the second one its end.
LEMMA MarkerProper ==
  ASSUME HolderShape, NEW h \in HolderType, h.inc = holder.inc, h.epoch = holder.epoch,
         h.phase = "marked"
  PROVE  Proper(Marker, h)
<1>1. /\ Unit("head") \in UnitType /\ Unit("head").inc = holder.inc /\ Unit("head").kind = "head"
      /\ Unit("end") \in UnitType /\ Unit("end").inc = holder.inc /\ Unit("end").kind = "end"
  BY DEF Unit, UnitType, HolderShape, HolderType
<1>2. /\ Marker \in Seq(UnitType) /\ Len(Marker) = 2
      /\ Marker[1] = Unit("head") /\ Marker[2] = Unit("end")
  BY <1>1 DEF Marker
<1>3. \A i \in 1..2 : i = 1 \/ (i = 2 /\ i - 1 = 1 /\ i > 1)
  OBVIOUS
<1> QED BY <1>1, <1>2, <1>3 DEF Proper

\* Every step of the Holder lets the log grow so, or stay.
LEMMA HolderGrows ==
  ASSUME Limits, LogShape, HolderShape, HolderAction
  PROVE  LogShape' /\ HolderShape' /\ Grew /\ UNCHANGED engineVars
<1>0. /\ holder \in HolderType /\ holder.epoch <= Len(written) /\ pty \in Nat
      /\ holder.phase \in Phase /\ holder.epoch \in Nat /\ Len(written) \in Nat
  BY DEF HolderShape, HolderType, LogShape
<1>1. ASSUME NEW units, NEW h, Proper(units, h), AppendLog(units, h), pty' \in Nat,
             holder.phase \in {"running", "finished", "drained"}
      PROVE  LogShape' /\ HolderShape' /\ Grew
  <2>1. LogShape' /\ Grew /\ holder' \in HolderType /\ Len(written) <= Len(written')
    BY <1>1, AppendGrows
  <2>2. holder'.epoch = holder.epoch
    BY <2>1 DEF Grew
  <2>3. Len(written') \in Nat
    BY <2>1 DEF LogShape
  <2> QED BY <1>0, <1>1, <2>1, <2>2, <2>3 DEF HolderShape
<1>2. ASSUME UNCHANGED <<written, files>>, holder' \in HolderType, pty' \in Nat,
             holder'.inc = holder.inc, holder'.epoch = holder.epoch,
             holder.phase \in {"marked", "leaving", "gone"} =>
               holder'.phase \in {"marked", "leaving", "gone"},
             holder.phase \in {"leaving", "gone"} => holder'.phase \in {"leaving", "gone"},
             holder.phase # "none" => holder'.phase # "none"
      PROVE  LogShape' /\ HolderShape' /\ Grew
  <2>1. LogShape' /\ Grew
    BY <1>0, <1>2, StillGrew
  <2> QED BY <1>0, <1>2, <2>1 DEF HolderShape
<1>3. CASE ChildWrites
  <2>1. UNCHANGED <<written, files, holder, engineVars>> /\ pty' \in Nat
    BY <1>0, <1>3 DEF ChildWrites
  <2> QED BY <1>0, <1>2, <2>1
<1>4. CASE ChildExits \/ WatchExit \/ HolderDies \/ Cleanup
  <2>1. UNCHANGED <<written, files, engineVars>> /\ pty' \in Nat
    BY <1>0, <1>4 DEF ChildExits, WatchExit, HolderDies, Cleanup
  <2>2. holder' \in HolderType /\ holder'.inc = holder.inc /\ holder'.epoch = holder.epoch
    BY <1>0, <1>4 DEF ChildExits, WatchExit, HolderDies, Cleanup, HolderType, Phase
  <2>3. /\ holder.phase \in {"marked", "leaving", "gone"} =>
             holder'.phase \in {"marked", "leaving", "gone"}
        /\ holder.phase \in {"leaving", "gone"} => holder'.phase \in {"leaving", "gone"}
        /\ holder.phase # "none" => holder'.phase # "none"
    BY <1>0, <1>4 DEF ChildExits, WatchExit, HolderDies, Cleanup, HolderType
  <2> QED BY <1>2, <2>1, <2>2, <2>3
<1>5. CASE PumpPty
  <2>1. /\ AppendLog([i \in 1..pty |-> Unit("out")], holder)
        /\ holder.phase \in {"running", "finished", "drained"} /\ pty' \in Nat
        /\ UNCHANGED engineVars
    BY <1>5 DEF PumpPty, Drained
  <2>2. Proper([i \in 1..pty |-> Unit("out")], holder)
    BY <1>0, <2>1, DrainProper
  <2> QED BY <1>1, <2>1, <2>2
<1>6. CASE FinalDrain
  <2> DEFINE h == [holder EXCEPT !.phase = "drained"]
  <2>1. h \in HolderType /\ h.inc = holder.inc /\ h.epoch = holder.epoch /\ h.phase = "drained"
    BY <1>0 DEF HolderType, Phase
  <2>2. holder.phase = "finished" /\ pty' \in Nat /\ UNCHANGED engineVars
    BY <1>6 DEF FinalDrain
  <2>3. CASE pty > 0
    <3>1. AppendLog([i \in 1..pty |-> Unit("out")], h)
      BY <1>6, <2>3 DEF FinalDrain, Drained
    <3>2. Proper([i \in 1..pty |-> Unit("out")], h)
      BY <2>1, DrainProper
    <3> HIDE DEF h
    <3> QED BY <1>1, <2>2, <3>1, <3>2
  <2>4. CASE ~(pty > 0)
    <3>1. holder' = h /\ UNCHANGED <<written, files>>
      BY <1>6, <2>4 DEF FinalDrain
    <3> HIDE DEF h
    <3> QED BY <1>2, <2>1, <2>2, <3>1
  <2> QED BY <2>3, <2>4
<1>7. CASE WriteMarker
  <2> DEFINE h == [holder EXCEPT !.phase = "marked"]
  <2>1. h \in HolderType /\ h.inc = holder.inc /\ h.epoch = holder.epoch /\ h.phase = "marked"
    BY <1>0 DEF HolderType, Phase
  <2>2. holder.phase = "drained" /\ pty' \in Nat /\ UNCHANGED engineVars /\ AppendLog(Marker, h)
    BY <1>0, <1>7 DEF WriteMarker
  <2> HIDE DEF h
  <2>3. Proper(Marker, h)
    BY <2>1, MarkerProper
  <2> QED BY <1>1, <2>2, <2>3
<1> QED BY <1>3, <1>4, <1>5, <1>6, <1>7 DEF HolderAction

-----------------------------------------------------------------------------
\* What the growth of the log leaves standing.

\* A marker that is torn stays torn: nothing completes it.
LEMMA TornStays ==
  ASSUME LogShape, LogShape', Grew, Torn
  PROVE  Torn'
<1>0. DOMAIN written = 1..Len(written) /\ DOMAIN written' = 1..Len(written')
  BY DEF LogShape
<1>1. PICK m, n \in Nat : m = Len(written) /\ n = Len(written')
  BY DEF LogShape
<1>2. m <= n /\ \A i \in 1..m : written'[i] = written[i]
  BY <1>1 DEF Grew
<1>3. ASSUME m + 1 <= n PROVE written'[m + 1].kind # "end"
  <2>1. m + 1 \in 1..Len(written') /\ m + 1 > Len(written) /\ ~(m + 1 > Len(written) + 1)
    BY <1>1, <1>3
  <2> QED BY <2>1 DEF Grew
<1>4. PICK i \in 1..m :
        written[i].kind = "head" /\ (i = m \/ written[i + 1].kind # "end")
  BY <1>0, <1>1 DEF Torn
<1>5. i \in Nat /\ 1 <= i /\ i <= m /\ m \in Nat /\ n \in Nat
  BY <1>1, <1>4
<1>6. written'[i].kind = "head"
  BY <1>2, <1>4
<1>7. i \in DOMAIN written'
  BY <1>0, <1>1, <1>2, <1>5
<1>8. CASE i = n
  BY <1>1, <1>6, <1>7, <1>8 DEF Torn
<1>9. CASE i # n
  <2>1. written'[i + 1].kind # "end"
    <3>1. CASE i = m
      <4>1. m + 1 <= n
        BY <1>2, <1>5, <1>9, <3>1
      <4> QED BY <1>3, <3>1, <4>1
    <3>2. CASE i # m
      <4>1. i + 1 \in 1..m
        BY <1>5, <3>2
      <4> QED BY <1>2, <1>4, <3>2, <4>1
    <3> QED BY <3>1, <3>2
  <2> QED BY <1>6, <1>7, <2>1 DEF Torn
<1> QED BY <1>8, <1>9

\* An offset that is no place for the second half of a marker stays so.
LEMMA NotEndStays ==
  ASSUME LogShape, LogShape', Grew, NEW o \in Nat, o <= Len(written), NotEndAt(o)
  PROVE  o < Len(written') => written'[o + 1].kind # "end"
<1> SUFFICES ASSUME o < Len(written') PROVE written'[o + 1].kind # "end"
  OBVIOUS
<1>1. Len(written) \in Nat /\ Len(written') \in Nat
  BY DEF LogShape
<1>2. CASE o < Len(written)
  <2>1. o + 1 \in 1..Len(written)
    BY <1>1, <1>2
  <2> QED BY <1>2, <2>1 DEF Grew, NotEndAt
<1>3. CASE o = Len(written)
  <2>1. o + 1 \in 1..Len(written') /\ o + 1 > Len(written) /\ ~(o + 1 > Len(written) + 1)
    BY <1>1, <1>3
  <2> QED BY <2>1 DEF Grew
<1> QED BY <1>1, <1>2, <1>3

\* Torn is a property of the log alone.
LEMMA TornIs ==
  ASSUME LogShape
  PROVE  Torn <=> Tear(written)
<1>1. DOMAIN written = 1..Len(written)
  BY DEF LogShape
<1> QED BY <1>1 DEF Torn, Tear

\* ... in the next state too.
LEMMA TornWillBe ==
  ASSUME LogShape'
  PROVE  Torn' <=> Tear(written')
<1>1. DOMAIN written' = 1..Len(written')
  BY DEF LogShape
<1> QED BY <1>1 DEF Torn, Tear

\* TornStays, of the log alone.
LEMMA TearStays ==
  ASSUME LogShape, LogShape', Grew, Tear(written)
  PROVE  Tear(written')
<1>1. Torn
  BY TornIs
<1>2. Torn'
  BY <1>1, TornStays
<1> QED BY <1>2, TornWillBe

\* What a screen shows is in the log that grew.
LEMMA PureStays ==
  ASSUME LogShape, LogShape', Grew, NEW scr \in ScreenType, Pure(written, scr)
  PROVE  Pure(written', scr)
<1>1. PICK m, n \in Nat : m = Len(written) /\ n = Len(written')
  BY DEF LogShape
<1>2. m <= n /\ \A i \in 1..m : written'[i] = written[i]
  BY <1>1 DEF Grew
<1>3. PICK q : q \in Seq(Nat) /\ q = scr.shown
  BY DEF ScreenType
<1>4. ASSUME NEW i \in 1..Len(q)
      PROVE q[i] < n /\ (written'[q[i] + 1].kind = "out" \/ q[i] \in scr.jumps)
  <2>1. PICK x \in Nat : x = q[i] /\ x < m /\ (written[x + 1].kind = "out" \/ x \in scr.jumps)
    <3>1. q[i] \in Nat
      BY <1>3
    <3>2. q[i] < m /\ (written[q[i] + 1].kind = "out" \/ q[i] \in scr.jumps)
      BY <1>1, <1>3 DEF Pure
    <3> QED BY <3>1, <3>2
  <2>2. x + 1 \in 1..m /\ x < n
    BY <1>1, <1>2, <2>1
  <2> QED BY <1>2, <2>1, <2>2
<1> QED BY <1>1, <1>3, <1>4 DEF Pure

\* A screen that shows the log up to an offset does so when the log grows.
LEMMA SoundStays ==
  ASSUME LogShape, LogShape', Grew, NEW scr \in ScreenType, NEW off \in Nat,
         off <= Len(written), NEW b, Sound(written, off, b, scr)
  PROVE  Sound(written', off, b, scr)
<1>1. PICK m, n \in Nat : m = Len(written) /\ n = Len(written')
  BY DEF LogShape
<1>2. m <= n /\ \A i \in 1..m : written'[i] = written[i]
  BY <1>1 DEF Grew
<1>3. Tear(written) => Tear(written')
  BY TearStays
<1>4. ASSUME NEW o \in 0..(off - 1), written'[o + 1].kind = "out"
      PROVE  Shows(scr.shown, o) \/ o \in scr.gaps \/ Tear(written')
  <2>1. o + 1 \in 1..m
    BY <1>1
  <2>2. written[o + 1].kind = "out"
    BY <1>2, <1>4, <2>1
  <2> QED BY <1>3, <2>2 DEF Sound
<1>5. b # "empty" => Tear(written') \/ (off > 0 /\ written'[off].kind = "head")
  <2>1. ASSUME off > 0 PROVE off \in 1..m
    BY <1>1, <2>1
  <2> QED BY <1>2, <1>3, <2>1 DEF Sound
<1>6. ASSUME off < n, written'[off + 1].kind = "end", b = "empty" PROVE off \in scr.jumps
  <2>1. CASE off < m
    <3>1. off + 1 \in 1..m
      BY <1>1, <2>1
    <3>2. written[off + 1].kind = "end"
      BY <1>2, <1>6, <3>1
    <3> QED BY <1>1, <1>6, <2>1, <3>2 DEF Sound
  <2>2. CASE off = m
    <3>1. off + 1 \in 1..Len(written') /\ off + 1 > Len(written) /\ ~(off + 1 > Len(written) + 1)
      BY <1>1, <1>6, <2>2
    <3>2. written'[off + 1].kind # "end"
      BY <3>1 DEF Grew
    <3> QED BY <1>6, <3>2
  <2> QED BY <1>1, <2>1, <2>2
<1>7. b = "junk" => Tear(written')
  BY <1>3 DEF Sound
<1>8. /\ \A i, j \in 1..Len(scr.shown) : i < j => scr.shown[i] < scr.shown[j]
      /\ \A i \in 1..Len(scr.shown) : scr.shown[i] < off
  BY DEF Sound
<1> QED BY <1>1, <1>4, <1>5, <1>6, <1>7, <1>8 DEF Sound

\* A step of the Holder keeps the screen and the checkpoint sound.
LEMMA HolderKeepsScreens ==
  ASSUME LogShape, LogShape', EngineShape, ScreenShape, Screens, Grew, UNCHANGED engineVars
  PROVE  Screens'
<1>1. UNCHANGED <<engine, screen, checkpoint>>
  BY DEF engineVars
<1>2. screen \in ScreenType /\ engine.offset \in Nat /\ engine.offset <= Len(written)
  BY DEF ScreenShape, EngineShape, EngineType
<1>3. Pure(written', screen)
  BY <1>2, PureStays DEF Screens
<1>4. ASSUME Watching PROVE Sound(written', engine.offset, engine.buffer, screen)
  <2>1. Sound(written, engine.offset, engine.buffer, screen)
    BY <1>4 DEF Screens
  <2> QED BY <1>2, <2>1, SoundStays
<1>5. ASSUME checkpoint # None
      PROVE  /\ Pure(written', checkpoint.screen)
             /\ Sound(written', checkpoint.offset, checkpoint.buffer, checkpoint.screen)
  <2>1. /\ checkpoint.screen \in ScreenType /\ checkpoint.offset \in Nat
        /\ checkpoint.offset <= Len(written)
    BY <1>5 DEF ScreenShape
  <2>2. /\ Pure(written, checkpoint.screen)
        /\ Sound(written, checkpoint.offset, checkpoint.buffer, checkpoint.screen)
    BY <1>5 DEF Screens
  <2>3. Pure(written', checkpoint.screen)
    BY <2>1, <2>2, PureStays
  <2>4. Sound(written', checkpoint.offset, checkpoint.buffer, checkpoint.screen)
    BY <2>1, <2>2, SoundStays
  <2> QED BY <2>3, <2>4
<1> QED BY <1>1, <1>3, <1>4, <1>5 DEF Screens, Watching

\* ... the order of the halves of markers,
LEMMA HolderKeepsMarkers ==
  ASSUME LogShape, LogShape', HolderShape, EngineShape, Markers, Grew, UNCHANGED engineVars
  PROVE  Markers'
<1>1. PICK m, n \in Nat : m = Len(written) /\ n = Len(written')
  BY DEF LogShape
<1>2. m <= n /\ \A i \in 1..m : written'[i] = written[i]
  BY <1>1 DEF Grew
<1>3. ASSUME NEW i \in 1..n, written'[i].kind = "end" PROVE i > 1 /\ written'[i - 1].kind = "head"
  <2>1. CASE i > m
    <3>1. i > m + 1 /\ written'[i - 1].kind = "head"
      BY <1>1, <1>3, <2>1 DEF Grew
    <3> QED BY <1>1, <3>1
  <2>2. CASE i <= m
    <3>1. i \in 1..m
      BY <1>1, <2>2
    <3>2. i > 1 /\ written[i - 1].kind = "head"
      BY <1>1, <1>2, <1>3, <3>1 DEF Markers
    <3>3. i - 1 \in 1..m
      BY <1>1, <3>1, <3>2
    <3> QED BY <1>2, <3>2, <3>3
  <2> QED BY <1>1, <2>1, <2>2
<1>4. ASSUME NEW o \in Nat, o <= Len(written), NotEndAt(o)
      PROVE o < Len(written') => written'[o + 1].kind # "end"
  BY <1>4, NotEndStays
<1>5. /\ engine.floor \in Nat /\ engine.floor <= Len(written) /\ engine' = engine
      /\ holder.epoch \in Nat /\ holder.epoch <= Len(written) /\ holder'.epoch = holder.epoch
  BY DEF EngineShape, EngineType, HolderShape, HolderType, engineVars, Grew
<1>6. NotEndAt(holder.epoch)' /\ NotEndAt(engine.floor)'
  BY <1>4, <1>5 DEF NotEndAt, Markers
<1>7. ASSUME NEW i \in 1..Len(files') PROVE NotEndAt(files[i].tail)'
  <2>1. CASE files'[i].tail = Len(written')
    <3>1. ~(Len(written') < Len(written'))
      BY <1>1
    <3> QED BY <2>1, <3>1 DEF NotEndAt
  <2>2. CASE i < Len(files)
    <3>1. PICK p, q \in Nat : p = Len(files) /\ q = Len(files')
      BY DEF LogShape
    <3>2. i \in 1..Len(files)
      BY <2>2, <3>1
    <3>3. files'[i].tail = files[i].tail
      BY <2>2, <3>2 DEF Grew
    <3>4. files[i] \in FileType /\ files[i].tail <= Len(written)
      BY <3>2 DEF LogShape
    <3>5. files[i].tail \in Nat /\ NotEndAt(files[i].tail)
      BY <3>2, <3>4 DEF FileType, Markers
    <3> QED BY <1>4, <3>3, <3>4, <3>5 DEF NotEndAt
  <2> QED BY <2>1, <2>2 DEF Grew
<1> QED BY <1>1, <1>3, <1>6, <1>7 DEF Markers

\* ... the shapes,
LEMMA HolderKeepsShapes ==
  ASSUME LogShape, LogShape', EngineShape, ScreenShape, Grew, UNCHANGED engineVars
  PROVE  EngineShape' /\ ScreenShape'
<1>1. PICK m, n, p, q \in Nat : m = Len(written) /\ n = Len(written') /\ p = Len(files) /\ q = Len(files')
  BY DEF LogShape
<1>2. m <= n /\ p <= q
  BY <1>1 DEF Grew
<1>3. engine' = engine /\ screen' = screen /\ checkpoint' = checkpoint /\ exit' = exit
  BY DEF engineVars
<1>4. /\ engine.floor \in Nat /\ engine.offset \in Nat /\ engine.handle \in Nat /\ engine.watched \in Nat
      /\ engine.floor <= m /\ engine.offset <= m /\ engine.handle <= p /\ engine.watched <= p
  BY <1>1 DEF EngineShape, EngineType
<1>5. engine.floor <= n /\ engine.offset <= n /\ engine.handle <= q /\ engine.watched <= q
  BY <1>1, <1>2, <1>4
<1>6. checkpoint # None => checkpoint.offset <= n
  <2> SUFFICES ASSUME checkpoint # None PROVE checkpoint.offset <= n
    OBVIOUS
  <2>1. checkpoint.offset \in Nat /\ checkpoint.offset <= m
    BY <1>1 DEF ScreenShape
  <2> QED BY <1>1, <1>2, <2>1
<1>7. EngineShape'
  BY <1>1, <1>3, <1>5 DEF EngineShape
<1>8. ScreenShape'
  BY <1>1, <1>3, <1>6 DEF ScreenShape
<1> QED BY <1>7, <1>8

\* ... what is known of a pump that panicked,
LEMMA HolderKeepsOutran ==
  ASSUME Limits, LogShape, LogShape', EngineShape, Outran, Grew, UNCHANGED engineVars
  PROVE  Outran'
<1> SUFFICES ASSUME engine'.pc = "panicked"
             PROVE files'[engine'.handle].tail > engine'.offset + DiskCapacity \div 2 + ReadSize
  BY DEF Outran
<1>1. engine' = engine
  BY DEF engineVars
<1>2. PICK h \in Nat : h = engine.handle /\ h >= 1 /\ h <= Len(files) /\ Len(files) \in Nat
  BY <1>1 DEF EngineShape, EngineType, LogShape
<1>3. h \in 1..Len(files)
  BY <1>2
<1>4. files[h] \in FileType /\ files'[h] \in FileType
  <2>1. Len(files) <= Len(files') /\ Len(files') \in Nat
    BY DEF Grew, LogShape
  <2>2. h \in 1..Len(files')
    BY <1>2, <2>1
  <2> QED BY <1>3, <2>2 DEF LogShape
<1>5. PICK t, u \in Nat : t = files[h].tail /\ u = files'[h].tail
  BY <1>4 DEF FileType
<1>6. u >= t
  BY <1>3, <1>5 DEF Grew
<1>7. PICK k \in Nat : k = engine.offset + DiskCapacity \div 2 + ReadSize
  <2>1. engine.offset \in Nat
    BY DEF EngineShape, EngineType
  <2>2. PICK o, c, r \in Nat : o = engine.offset /\ c = DiskCapacity \div 2 /\ r = ReadSize
    BY <2>1, Halves
  <2>3. o + c + r \in Nat
    OBVIOUS
  <2> QED BY <2>2, <2>3
<1>8. t > k
  BY <1>1, <1>2, <1>5, <1>7 DEF Outran
<1>9. u > k
  BY <1>5, <1>6, <1>7, <1>8
<1> QED BY <1>1, <1>2, <1>5, <1>7, <1>9

\* ... that the exit is the watched incarnation's own,
LEMMA HolderKeepsOwned ==
  ASSUME LogShape, LogShape', HolderShape, EngineShape, Owned, Grew, UNCHANGED engineVars
  PROVE  Owned'
<1>1. PICK m, n, p, q \in Nat : m = Len(written) /\ n = Len(written') /\ p = Len(files) /\ q = Len(files')
  BY DEF LogShape
<1>2. m <= n /\ p <= q /\ (\A i \in 1..m : written'[i] = written[i])
      /\ holder'.inc = holder.inc /\ holder'.epoch = holder.epoch
      /\ (\A i \in 1..n : i > m => written'[i].inc = holder.inc)
  BY <1>1 DEF Grew
<1>3. engine' = engine /\ exit' = exit
  BY DEF engineVars
<1>4. /\ engine.floor \in Nat /\ engine.handle \in Nat /\ engine.watched \in Nat
      /\ engine.handle <= p /\ engine.watched <= p
      /\ engine.pc \in {"launch", "attach", "start"} => engine.handle >= 1
  BY <1>1 DEF EngineShape, EngineType
<1>5. ASSUME NEW i \in 1..n, i > holder.epoch PROVE written'[i].inc = holder.inc
  <2>1. CASE i > m
    BY <1>2, <2>1
  <2>2. CASE i <= m
    <3>1. i \in 1..m
      BY <1>1, <2>2
    <3> QED BY <1>1, <1>2, <1>5, <3>1 DEF Owned
  <2> QED BY <1>1, <2>1, <2>2
<1>6. \A i \in 1..p : /\ files[i].tail \in Nat /\ files'[i].tail \in Nat
                      /\ files'[i].tail >= files[i].tail
                      /\ i < p => files'[i].tail = files[i].tail
  <2>1. \A i \in 1..p : files[i] \in FileType
    BY <1>1 DEF LogShape
  <2>2. \A i \in 1..p : files'[i] \in FileType
    BY <1>1, <1>2 DEF LogShape
  <2> QED BY <1>1, <2>1, <2>2 DEF Grew, FileType
<1>7. ASSUME Stranded PROVE Stranded'
  <2>1. engine.handle \in 1..p /\ engine.handle < p /\ engine.handle \in 1..(q - 1)
    BY <1>1, <1>2, <1>7 DEF Stranded
  <2>2. files'[engine.handle].tail = files[engine.handle].tail
    BY <1>6, <2>1
  <2> QED BY <1>1, <1>3, <1>7, <2>1, <2>2 DEF Stranded
<1>8. engine'.pc = "launch" => files'[engine'.handle].tail >= holder'.epoch
  <2> SUFFICES ASSUME engine.pc = "launch" PROVE files'[engine.handle].tail >= holder.epoch
    BY <1>2, <1>3
  <2>1. engine.handle \in 1..p
    BY <1>1, <1>4
  <2>2. files[engine.handle].tail >= holder.epoch
    BY DEF Owned
  <2>3. PICK t, u \in Nat : t = files[engine.handle].tail /\ u = files'[engine.handle].tail /\ u >= t
    BY <1>6, <2>1
  <2>4. holder.epoch \in Nat
    BY DEF HolderShape, HolderType
  <2>5. u >= holder.epoch
    BY <2>2, <2>3, <2>4
  <2> QED BY <2>3, <2>5
<1>9. ASSUME holder.phase \in {"leaving", "gone"}
      PROVE  q = p /\ holder'.phase \in {"leaving", "gone"}
  <2>1. holder.phase \notin {"running", "finished", "drained"}
    BY <1>9
  <2>2. ~(Len(files') > Len(files)) /\ holder'.phase \in {"leaving", "gone"}
    BY <1>9, <2>1 DEF Grew
  <2> QED BY <1>1, <1>2, <2>2
<1>10. Attached' = Attached /\ Watching' = Watching
  BY <1>3 DEF Attached, Watching
<1>11. ExitIsOwn'
  BY <1>3 DEF Owned, ExitIsOwn
<1>12. ASSUME Attached
       PROVE  \/ engine'.floor >= holder'.epoch
              \/ /\ Stranded' /\ holder'.phase \in {"leaving", "gone"}
                 /\ Watching => engine'.watched \notin 1..(Len(files') - 1)
  <2>1. CASE engine.floor >= holder.epoch
    BY <1>2, <1>3, <2>1
  <2>2. CASE /\ Stranded /\ holder.phase \in {"leaving", "gone"}
             /\ Watching => engine.watched \notin 1..(Len(files) - 1)
    BY <1>1, <1>3, <1>7, <1>9, <2>2
  <2> QED BY <1>12, <2>1, <2>2 DEF Owned
<1>13. engine.pc = "attach" =>
         (engine'.floor >= holder'.epoch \/ Stranded') /\ holder'.phase # "none"
  <2>1. holder.phase # "none" => holder'.phase # "none"
    BY DEF Grew
  <2> QED BY <1>2, <1>3, <1>7, <2>1 DEF Owned
<1>14. Attached => engine'.inc = holder'.inc
  BY <1>2, <1>3 DEF Owned
<1>15. engine.pc \in {"launch", "attach"} \/ Attached => exit' = None
  BY <1>3 DEF Owned
<1> QED BY <1>1, <1>2, <1>3, <1>5, <1>8, <1>10, <1>11, <1>12, <1>13, <1>14, <1>15 DEF Owned

\* ... and that its marker is ahead of the pump.
LEMMA HolderKeepsLastMark ==
  ASSUME LogShape, LogShape', HolderShape, EngineShape, ScreenShape, LastMark, Grew,
         UNCHANGED engineVars
  PROVE  LastMark'
<1>1. PICK m, n \in Nat : m = Len(written) /\ n = Len(written')
  BY DEF LogShape
<1>2. m <= n /\ (\A i \in 1..m : written'[i] = written[i])
      /\ holder'.inc = holder.inc /\ holder'.epoch = holder.epoch
      /\ (\A i \in 1..n : i > m => written'[i].inc = holder.inc)
  BY <1>1 DEF Grew
<1>3. engine' = engine /\ exit' = exit /\ checkpoint' = checkpoint
  BY DEF engineVars
<1>4. /\ engine.floor \in Nat /\ engine.offset \in Nat
      /\ engine.floor <= m /\ engine.offset <= m
      /\ holder.inc \in Nat /\ holder.epoch \in Nat /\ holder.epoch <= m
  BY <1>1 DEF EngineShape, EngineType, HolderShape, HolderType
<1>5. ASSUME NEW i \in 1..n PROVE i > m \/ (i \in 1..m /\ written'[i] = written[i])
  <2>1. CASE i > m
    BY <2>1
  <2>2. CASE i <= m
    <3>1. i \in 1..m
      BY <1>1, <2>2
    <3> QED BY <1>2, <3>1
  <2> QED BY <1>1, <2>1, <2>2
\* an end of the Holder's own is an old one or the log's last unit
<1>6. ASSUME NEW i \in 1..n, OwnEnd(i)'
      PROVE  /\ i = n /\ holder'.phase \in {"marked", "leaving", "gone"}
             /\ (i \in 1..m /\ OwnEnd(i)) \/ i > m + 1
  <2>1. written'[i].kind = "end" /\ written'[i].inc = holder.inc
    BY <1>2, <1>6 DEF OwnEnd
  <2>2. CASE i > m
    <3>1. i > m + 1 /\ i = n /\ holder'.phase = "marked"
      BY <1>1, <2>1, <2>2 DEF Grew
    <3> QED BY <3>1
  <2>3. CASE i \in 1..m /\ written'[i] = written[i]
    <3>1. OwnEnd(i)
      BY <2>1, <2>3 DEF OwnEnd
    <3>2. i = m /\ holder.phase \in {"marked", "leaving", "gone"}
      BY <1>1, <2>3, <3>1 DEF LastMark
    <3>3. ~(Len(written') > Len(written)) /\ holder'.phase \in {"marked", "leaving", "gone"}
      BY <3>2 DEF Grew
    <3>4. n = m
      BY <1>1, <1>2, <3>3
    <3> QED BY <2>3, <3>1, <3>2, <3>3, <3>4
  <2> QED BY <1>5, <2>2, <2>3
<1>7. \A i \in 1..n : written'[i].inc <= holder'.inc
  <2> SUFFICES ASSUME NEW i \in 1..n PROVE written'[i].inc <= holder.inc
    BY <1>2
  <2>1. CASE i > m
    BY <1>2, <1>4, <2>1
  <2>2. CASE i \in 1..m /\ written'[i] = written[i]
    BY <1>1, <2>2 DEF LastMark
  <2> QED BY <1>5, <2>1, <2>2
<1>8. \A i \in 1..n : i <= holder'.epoch => written'[i].inc < holder'.inc
  <2> SUFFICES ASSUME NEW i \in 1..n, i <= holder.epoch PROVE written'[i].inc < holder.inc
    BY <1>2
  <2>1. i \in 1..m
    BY <1>1, <1>4
  <2> QED BY <1>1, <1>2, <2>1 DEF LastMark
<1>9. Attached' = Attached /\ Watching' = Watching
  BY <1>3 DEF Attached, Watching
<1>10. ASSUME engine.pc = "attach" \/ Attached, ~engine.ghost, NEW i \in 1..n, OwnEnd(i)'
       PROVE  i > engine.floor
  <2>1. CASE i \in 1..m /\ OwnEnd(i)
    BY <1>1, <1>10, <2>1 DEF LastMark
  <2>2. CASE i > m + 1
    BY <1>1, <1>4, <2>2
  <2> QED BY <1>6, <1>10, <2>1, <2>2
<1>11. ASSUME engine.pc \in {"attach", "start"}, ~engine.ghost, checkpoint # None,
              NEW i \in 1..n, OwnEnd(i)'
       PROVE  i > checkpoint.offset + 1
  <2>0. checkpoint.offset \in Nat /\ checkpoint.offset <= m
    BY <1>1, <1>11 DEF ScreenShape
  <2>1. CASE i \in 1..m /\ OwnEnd(i)
    BY <1>1, <1>11, <2>1 DEF LastMark
  <2>2. CASE i > m + 1
    BY <1>1, <2>0, <2>2
  <2> QED BY <1>6, <1>11, <2>1, <2>2
<1>12. ASSUME Watching, ~engine.ghost, ~Torn', NEW i \in 1..n, OwnEnd(i)'
       PROVE  i > engine.offset /\ (i = engine.offset + 1 => engine.buffer = "marker")
  <2>0. ~Torn
    BY <1>12, TornStays
  <2>1. CASE i \in 1..m /\ OwnEnd(i)
    BY <1>1, <1>12, <2>0, <2>1 DEF LastMark
  <2>2. CASE i > m + 1
    BY <1>1, <1>4, <2>2
  <2> QED BY <1>6, <1>12, <2>1, <2>2
<1>13. \A i \in 1..n : OwnEnd(i)' => i = n /\ holder'.phase \in {"marked", "leaving", "gone"}
  BY <1>6
<1>14. /\ (engine'.pc = "attach" \/ Attached') /\ ~engine'.ghost =>
            \A i \in 1..Len(written') : OwnEnd(i)' => i > engine'.floor
       /\ engine'.pc \in {"attach", "start"} /\ ~engine'.ghost /\ checkpoint' # None =>
            \A i \in 1..Len(written') : OwnEnd(i)' => i > checkpoint'.offset + 1
       /\ Watching' /\ ~engine'.ghost /\ ~Torn' =>
            \A i \in 1..Len(written') :
              OwnEnd(i)' => /\ i > engine'.offset
                            /\ i = engine'.offset + 1 => engine'.buffer = "marker"
  BY <1>1, <1>3, <1>9, <1>10, <1>11, <1>12
<1> QED BY <1>1, <1>7, <1>8, <1>13, <1>14 DEF LastMark

\* A step of the Holder preserves the invariant.
LEMMA HolderKeepsInv ==
  ASSUME Limits, HeldInv, HolderAction
  PROVE  HeldInv'
<1>1. LogShape /\ HolderShape /\ EngineShape /\ ScreenShape /\ Markers /\ Screens /\ Owned
      /\ LastMark /\ Outran
  BY DEF HeldInv
<1>2. LogShape' /\ HolderShape' /\ Grew /\ UNCHANGED engineVars
  BY <1>1, HolderGrows
<1>3. EngineShape' /\ ScreenShape'
  BY <1>1, <1>2, HolderKeepsShapes
<1>4. Markers'
  BY <1>1, <1>2, HolderKeepsMarkers
<1>5. Screens'
  BY <1>1, <1>2, HolderKeepsScreens
<1>6. Owned'
  BY <1>1, <1>2, HolderKeepsOwned
<1>7. LastMark'
  BY <1>1, <1>2, HolderKeepsLastMark
<1>8. Outran'
  BY <1>1, <1>2, HolderKeepsOutran
<1> QED BY <1>2, <1>3, <1>4, <1>5, <1>6, <1>7, <1>8 DEF HeldInv

-----------------------------------------------------------------------------
\* The steps of the Engine.

\* A step of the Engine leaves the log and the Holder alone.
LEMMA LogStill ==
  ASSUME HeldInv, UNCHANGED holderVars
  PROVE  /\ written' = written /\ files' = files /\ holder' = holder /\ pty' = pty
         /\ LogShape' /\ HolderShape' /\ (Torn' <=> Torn)
<1>1. written' = written /\ files' = files /\ holder' = holder /\ pty' = pty
  BY DEF holderVars
<1>2. LogShape' /\ HolderShape'
  BY <1>1 DEF HeldInv, LogShape, HolderShape
<1>3. Torn' <=> Torn
  BY <1>1 DEF Torn
<1> QED BY <1>1, <1>2, <1>3

\* The numbers of a state, and how they are ordered.
LEMMA Facts ==
  ASSUME HeldInv
  PROVE  /\ Len(written) \in Nat /\ Len(files) \in Nat /\ Len(files) >= 1
         /\ Len(files) \in 1..Len(files) /\ files[Len(files)].tail = Len(written)
         /\ \A i \in 1..Len(files) :
              /\ files[i].base \in Nat /\ files[i].tail \in Nat
              /\ files[i].tail <= Len(written) /\ files[i].base <= files[i].tail
              /\ files[i].base > 0 => files[i].base + DiskCapacity \div 2 <= files[i].tail
         /\ holder.epoch \in Nat /\ holder.epoch <= Len(written) /\ holder.inc \in Nat
         /\ holder.phase \in Phase /\ engine \in EngineType
         /\ engine.pc \in Pc /\ engine.inc \in Nat /\ engine.ghost \in BOOLEAN
         /\ engine.floor \in Nat /\ engine.floor <= Len(written)
         /\ engine.handle \in Nat /\ engine.handle <= Len(files)
         /\ engine.watched \in Nat /\ engine.watched <= Len(files) /\ engine.opened \in Nat
         /\ engine.offset \in Nat /\ engine.offset <= Len(written) /\ engine.buffer \in Buffers
<1>1. LogShape /\ HolderShape /\ EngineShape
  BY DEF HeldInv
<1>2. /\ Len(written) \in Nat /\ Len(files) \in Nat /\ Len(files) >= 1
      /\ Len(files) \in 1..Len(files) /\ files[Len(files)].tail = Len(written)
  BY <1>1 DEF LogShape
<1>3. ASSUME NEW i \in 1..Len(files)
      PROVE  /\ files[i].base \in Nat /\ files[i].tail \in Nat
             /\ files[i].tail <= Len(written) /\ files[i].base <= files[i].tail
             /\ files[i].base > 0 => files[i].base + DiskCapacity \div 2 <= files[i].tail
  <2>1. files[i] \in FileType
    BY <1>1 DEF LogShape
  <2>2. files[i].base \in Nat /\ files[i].tail \in Nat /\ files[i].bytes \in Nat
    BY <2>1 DEF FileType
  <2>3. /\ files[i].tail <= Len(written) /\ files[i].base + files[i].bytes <= files[i].tail
        /\ files[i].base > 0 => files[i].base + DiskCapacity \div 2 <= files[i].tail
    BY <1>1 DEF LogShape
  <2>4. files[i].base <= files[i].tail
    <3>1. PICK x, y, z \in Nat : x = files[i].base /\ y = files[i].bytes /\ z = files[i].tail /\ x + y <= z
      BY <2>2, <2>3
    <3>2. x <= z
      BY <3>1
    <3> QED BY <3>1, <3>2
  <2> QED BY <2>2, <2>3, <2>4
<1>4. /\ holder.epoch \in Nat /\ holder.epoch <= Len(written) /\ holder.inc \in Nat
      /\ holder.phase \in Phase
  BY <1>1 DEF HolderShape, HolderType
<1>5. /\ engine \in EngineType
      /\ engine.pc \in Pc /\ engine.inc \in Nat /\ engine.ghost \in BOOLEAN
      /\ engine.floor \in Nat /\ engine.floor <= Len(written)
      /\ engine.handle \in Nat /\ engine.handle <= Len(files)
      /\ engine.watched \in Nat /\ engine.watched <= Len(files) /\ engine.opened \in Nat
      /\ engine.offset \in Nat /\ engine.offset <= Len(written) /\ engine.buffer \in Buffers
  BY <1>1 DEF EngineShape, EngineType
<1> QED BY <1>2, <1>3, <1>4, <1>5

\* A blank screen shows nothing.
LEMMA BlankIs ==
  Blank \in ScreenType /\ \A log : Pure(log, Blank)
<1>1. Blank.shown = <<>> /\ Blank \in ScreenType
  BY DEF Blank, ScreenType
<1>2. 1..Len(Blank.shown) = {}
  BY <1>1
<1> QED BY <1>1, <1>2 DEF Pure

\* A log opened anew, for a launch or to adopt a Holder.
LEMMA OpenKeepsInv ==
  ASSUME Limits, HeldInv, UNCHANGED <<holderVars, checkpoint, counters>>, screen' = Blank, exit' = None,
         \/ engine' = Opened("launch")
         \/ /\ engine' = [Opened("start") EXCEPT !.inc = holder.inc, !.floor = holder.epoch]
            /\ holder.phase = "running"
  PROVE  HeldInv'
<1>1. /\ written' = written /\ files' = files /\ holder' = holder /\ pty' = pty
      /\ LogShape' /\ HolderShape' /\ (Torn' <=> Torn)
  BY LogStill
<1>2. /\ Len(written) \in Nat /\ Len(files) \in Nat /\ Len(files) >= 1
      /\ files[Len(files)].tail = Len(written)
      /\ holder.epoch \in Nat /\ holder.epoch <= Len(written) /\ holder.inc \in Nat
  BY Facts
<1>3. Opened("launch") \in EngineType /\ Opened("start") \in EngineType
  BY <1>2 DEF Opened, Current, FileTail, EngineType, Pc, Buffers
<1>4. /\ engine' \in EngineType /\ engine'.handle = Len(files) /\ engine'.watched = 0
      /\ engine'.offset = 0 /\ engine'.buffer = "empty"
      /\ \/ engine'.pc = "launch" /\ engine'.floor = 0
         \/ /\ engine'.pc = "start" /\ engine'.floor = holder.epoch /\ engine'.inc = holder.inc
            /\ holder.phase = "running"
  <2>1. CASE engine' = Opened("launch")
    BY <1>2, <1>3, <2>1 DEF Opened, Current
  <2>2. CASE /\ engine' = [Opened("start") EXCEPT !.inc = holder.inc, !.floor = holder.epoch]
             /\ holder.phase = "running"
    <3>1. PICK e : e = Opened("start") /\ e \in EngineType
      BY <1>3
    <3>2. e.handle = Len(files) /\ e.watched = 0 /\ e.offset = 0 /\ e.buffer = "empty" /\ e.pc = "start"
      BY <3>1 DEF Opened, Current
    <3>3. engine' = [e EXCEPT !.inc = holder.inc, !.floor = holder.epoch]
      BY <2>2, <3>1
    <3> QED BY <1>2, <2>2, <3>1, <3>2, <3>3 DEF EngineType
  <2> QED BY <2>1, <2>2
<1>5. EngineShape'
  BY <1>1, <1>2, <1>4 DEF EngineShape
<1>6. ScreenShape'
  BY <1>1, BlankIs DEF ScreenShape, HeldInv
<1>7. Markers'
  <2>1. NotEndAt(0)
    <3> SUFFICES ASSUME 0 < Len(written) PROVE written[0 + 1].kind # "end"
      BY DEF NotEndAt
    <3>1. 1 \in 1..Len(written) /\ ~(1 > 1) /\ 0 + 1 = 1
      BY <1>2
    <3> QED BY <3>1 DEF HeldInv, Markers
  <2>2. NotEndAt(holder.epoch)
    BY DEF HeldInv, Markers
  <2>3. NotEndAt(engine'.floor)
    BY <1>4, <2>1, <2>2
  <2>4. NotEndAt(engine.floor)'
    BY <1>1, <2>3 DEF NotEndAt
  <2> QED BY <1>1, <2>4 DEF HeldInv, Markers, NotEndAt
<1>8. ~Watching'
  BY <1>4 DEF Watching
<1>9. Screens'
  BY <1>1, <1>8, BlankIs DEF Screens, HeldInv
<1>10. Owned'
  <2>1. \A i \in 1..Len(written) : i > holder.epoch => written[i].inc = holder.inc
    BY DEF HeldInv, Owned
  <2>2. ExitIsOwn'
    BY DEF ExitIsOwn
  <2>3. CASE engine'.pc = "launch"
    BY <1>1, <1>2, <1>4, <1>8, <2>1, <2>2, <2>3 DEF Owned, Attached
  <2>4. CASE engine'.pc = "start" /\ engine'.floor = holder.epoch /\ engine'.inc = holder.inc
    <3>1. engine'.floor >= holder'.epoch
      BY <1>1, <1>2, <2>4
    <3> QED BY <1>1, <1>8, <2>1, <2>2, <2>4, <3>1 DEF Owned, Attached
  <2> QED BY <1>4, <2>3, <2>4
<1>11. LastMark'
  <2>1. /\ \A i \in 1..Len(written) : written[i].inc <= holder.inc
        /\ \A i \in 1..Len(written) : i <= holder.epoch => written[i].inc < holder.inc
        /\ \A i \in 1..Len(written) :
             OwnEnd(i) => i = Len(written) /\ holder.phase \in {"marked", "leaving", "gone"}
    BY DEF HeldInv, LastMark
  <2>2. \A i : OwnEnd(i)' <=> OwnEnd(i)
    BY <1>1 DEF OwnEnd
  <2>3. CASE engine'.pc = "launch"
    BY <1>1, <1>8, <2>1, <2>2, <2>3 DEF LastMark, Attached
  <2>4. CASE engine'.pc = "start" /\ holder.phase = "running"
    <3>1. \A i \in 1..Len(written) : ~OwnEnd(i)
      BY <2>1, <2>4
    <3> QED BY <1>1, <1>8, <2>1, <2>2, <3>1 DEF LastMark
  <2> QED BY <1>4, <2>3, <2>4
<1>12. Outran'
  BY <1>4 DEF Outran
<1> QED BY <1>1, <1>5, <1>6, <1>7, <1>9, <1>10, <1>11, <1>12 DEF HeldInv

\* A session is created again under its id.
LEMMA ResumeKeepsInv ==
  ASSUME Limits, HeldInv, Resume
  PROVE  HeldInv'
  BY OpenKeepsInv DEF Resume

\* A restarted Engine adopts a Holder.
LEMMA AdoptKeepsInv ==
  ASSUME Limits, HeldInv, Adopt
  PROVE  HeldInv'
  BY OpenKeepsInv DEF Adopt, Alive

\* A checkpoint that is written holds what the screen shows.
LEMMA CheckpointKeeps ==
  ASSUME HeldInv, UNCHANGED holderVars, NEW e, NEW scr, scr \in ScreenType,
         e.offset \in Nat, e.offset <= Len(written), e.buffer \in Buffers,
         Pure(written, scr), Sound(written, e.offset, e.buffer, scr),
         checkpoint' \in {checkpoint, Saved(e, scr)}
  PROVE  checkpoint' # None =>
           /\ checkpoint' \in [offset : Nat, screen : ScreenType, buffer : Buffers]
           /\ checkpoint'.offset <= Len(written')
           /\ Pure(written', checkpoint'.screen)
           /\ Sound(written', checkpoint'.offset, checkpoint'.buffer, checkpoint'.screen)
<1>1. written' = written
  BY LogStill
<1>2. CASE checkpoint' = checkpoint
  BY <1>1, <1>2 DEF HeldInv, ScreenShape, Screens
<1>3. CASE checkpoint' = Saved(e, scr)
  <2>1. checkpoint' = [offset |-> e.offset, screen |-> scr, buffer |-> e.buffer]
    BY <1>3 DEF Saved
  <2>2. /\ checkpoint' \in [offset : Nat, screen : ScreenType, buffer : Buffers]
        /\ checkpoint'.offset = e.offset /\ checkpoint'.screen = scr /\ checkpoint'.buffer = e.buffer
    BY <2>1
  <2> QED BY <1>1, <2>2
<1> QED BY <1>2, <1>3

\* A step of the pump that reads nothing.
LEMMA PumpKeepsInv ==
  ASSUME Limits, HeldInv, UNCHANGED holderVars, Watching, screen' = screen,
         engine' \in EngineType, engine'.inc = engine.inc, engine'.floor = engine.floor,
         engine'.offset = engine.offset, engine'.buffer = engine.buffer,
         engine'.ghost = engine.ghost, engine'.handle <= Len(files),
         engine'.watched <= Len(files),
         checkpoint' \in {checkpoint, Saved(engine, screen)},
         \/ /\ Watching' /\ exit' = exit
            /\ /\ engine.handle \in 1..(Len(files) - 1)
               /\ engine.watched \notin 1..(Len(files) - 1)
               => engine'.handle = engine.handle /\ engine'.watched = engine.watched
         \/ engine'.pc \in {"exited", "down"} /\ exit' \in {exit, Without("unknown")}
         \/ /\ engine'.pc = "panicked" /\ exit' = exit /\ engine'.handle >= 1
            /\ files[engine'.handle].tail > engine'.offset + DiskCapacity \div 2 + ReadSize
  PROVE  HeldInv'
<1>1. /\ written' = written /\ files' = files /\ holder' = holder /\ pty' = pty
      /\ LogShape' /\ HolderShape' /\ (Torn' <=> Torn)
  BY LogStill
<1>2. /\ Len(written) \in Nat /\ Len(files) \in Nat
      /\ engine.offset \in Nat /\ engine.offset <= Len(written) /\ engine.buffer \in Buffers
      /\ engine.floor <= Len(written)
  BY Facts
<1>3. Watching' \/ engine'.pc \in {"exited", "down", "panicked"}
  OBVIOUS
<1>4. engine'.pc \notin {"launch", "attach", "start"} /\ (Attached' <=> Watching')
      /\ engine.pc \notin {"attach", "start", "launch"} /\ Attached
  BY <1>3 DEF Watching, Attached
<1>5. EngineShape'
  <2>1. engine'.pc = "panicked" => engine'.handle >= 1
    BY DEF Watching
  <2> QED BY <1>1, <1>2, <1>4, <2>1 DEF EngineShape
<1>6. screen \in ScreenType /\ Pure(written, screen)
      /\ Sound(written, engine.offset, engine.buffer, screen)
  BY DEF HeldInv, ScreenShape, Screens
<1>7. checkpoint' # None =>
           /\ checkpoint' \in [offset : Nat, screen : ScreenType, buffer : Buffers]
           /\ checkpoint'.offset <= Len(written')
           /\ Pure(written', checkpoint'.screen)
           /\ Sound(written', checkpoint'.offset, checkpoint'.buffer, checkpoint'.screen)
  BY <1>2, <1>6, CheckpointKeeps
<1>8. Without("unknown") \in ExitType /\ Without("unknown").how # "marker"
  BY DEF Without, ExitType
<1>9. exit' \in {exit, Without("unknown")}
  OBVIOUS
<1>10. ScreenShape'
  BY <1>1, <1>7, <1>8, <1>9 DEF HeldInv, ScreenShape
<1>11. Screens'
  BY <1>1, <1>6, <1>7 DEF Screens
<1>12. Markers'
  BY <1>1 DEF HeldInv, Markers, NotEndAt
<1>13. Outran'
  BY <1>1, <1>3 DEF Outran, Watching
<1>14. ExitIsOwn'
  <2>1. ExitIsOwn
    BY DEF HeldInv, Owned
  <2> QED BY <1>8, <1>9, <2>1 DEF ExitIsOwn
<1>15. ASSUME Watching'
       PROVE  /\ exit' = None /\ engine'.inc = holder'.inc
              /\ \/ engine'.floor >= holder'.epoch
                 \/ /\ Stranded' /\ holder'.phase \in {"leaving", "gone"}
                    /\ engine'.watched \notin 1..(Len(files') - 1)
  <2>1. engine'.pc \notin {"exited", "down", "panicked"}
    BY <1>15 DEF Watching
  <2>2. /\ exit' = exit
        /\ /\ engine.handle \in 1..(Len(files) - 1)
           /\ engine.watched \notin 1..(Len(files) - 1)
           => engine'.handle = engine.handle /\ engine'.watched = engine.watched
    BY <2>1
  <2>3. exit = None /\ engine.inc = holder.inc
    BY <1>4 DEF HeldInv, Owned
  <2>4. CASE engine.floor >= holder.epoch
    BY <1>1, <2>2, <2>3, <2>4
  <2>5. CASE /\ Stranded /\ holder.phase \in {"leaving", "gone"}
             /\ engine.watched \notin 1..(Len(files) - 1)
    <3>1. engine'.handle = engine.handle /\ engine'.watched = engine.watched
      BY <2>2, <2>5 DEF Stranded
    <3>2. Stranded'
      BY <1>1, <2>5, <3>1 DEF Stranded
    <3> QED BY <1>1, <2>2, <2>3, <2>5, <3>1, <3>2
  <2> QED BY <1>4, <2>4, <2>5 DEF HeldInv, Owned
<1>16. Owned'
  <2>1. \A i \in 1..Len(written') : i > holder'.epoch => written'[i].inc = holder'.inc
    BY <1>1 DEF HeldInv, Owned
  <2> QED BY <1>4, <1>14, <1>15, <2>1 DEF Owned
<1>17. LastMark'
  <2>1. /\ \A i \in 1..Len(written) : written[i].inc <= holder.inc
        /\ \A i \in 1..Len(written) : i <= holder.epoch => written[i].inc < holder.inc
        /\ \A i \in 1..Len(written) :
             OwnEnd(i) => i = Len(written) /\ holder.phase \in {"marked", "leaving", "gone"}
        /\ ~engine.ghost => \A i \in 1..Len(written) : OwnEnd(i) => i > engine.floor
        /\ ~engine.ghost /\ ~Torn =>
             \A i \in 1..Len(written) :
               OwnEnd(i) => /\ i > engine.offset
                            /\ i = engine.offset + 1 => engine.buffer = "marker"
    BY <1>4 DEF HeldInv, LastMark
  <2>2. \A i : OwnEnd(i)' <=> OwnEnd(i)
    BY <1>1 DEF OwnEnd
  <2> QED BY <1>1, <1>4, <2>1, <2>2 DEF LastMark
<1> QED BY <1>1, <1>5, <1>10, <1>11, <1>12, <1>13, <1>16, <1>17 DEF HeldInv

\* What the watcher's wait does to the pump.
LEMMA WaitedIs ==
  ASSUME HeldInv, NEW pc \in {"read", "look"}, Watching, engine' = Waited(pc)
  PROVE  /\ engine' \in EngineType /\ engine'.inc = engine.inc /\ engine'.floor = engine.floor
         /\ engine'.offset = engine.offset /\ engine'.buffer = engine.buffer
         /\ engine'.ghost = engine.ghost /\ engine'.handle <= Len(files)
         /\ engine'.watched <= Len(files) /\ Watching'
         /\ /\ engine.handle \in 1..(Len(files) - 1)
            /\ engine.watched \notin 1..(Len(files) - 1)
            => engine'.handle = engine.handle /\ engine'.watched = engine.watched
<1>1. /\ engine \in EngineType /\ Len(files) \in Nat /\ engine.handle <= Len(files)
      /\ engine.watched <= Len(files) /\ engine.handle \in Nat /\ engine.watched \in Nat
      /\ engine.stale \in BOOLEAN
  BY Facts DEF EngineType
<1>2. CASE engine.watched \in 1..(Len(files) - 1)
  <2>1. engine' = [engine EXCEPT !.pc = pc, !.watched = Len(files), !.handle = 0, !.stale = FALSE]
    <3>1. (engine.stale /\ ~(engine.watched \in 1..(Len(files) - 1))) = FALSE
      BY <1>2
    <3> QED BY <1>2, <3>1 DEF Waited, Current
  <2>2. /\ engine' \in EngineType /\ engine'.inc = engine.inc /\ engine'.floor = engine.floor
        /\ engine'.offset = engine.offset /\ engine'.buffer = engine.buffer
        /\ engine'.ghost = engine.ghost /\ engine'.pc = pc
        /\ engine'.handle = 0 /\ engine'.watched = Len(files)
    <3>1. PICK n, z \in Nat : n = Len(files) /\ z = 0
      BY <1>1
    <3>2. PICK b \in BOOLEAN : b = FALSE
      OBVIOUS
    <3>3. engine' = [engine EXCEPT !.pc = pc, !.watched = n, !.handle = z, !.stale = b]
      BY <2>1, <3>1, <3>2
    <3>4. pc \in Pc /\ engine \in EngineType
      BY <1>1 DEF Pc
    <3>5. engine' \in EngineType
      BY <3>3, <3>4 DEF EngineType
    <3>6. /\ engine'.inc = engine.inc /\ engine'.floor = engine.floor
          /\ engine'.offset = engine.offset /\ engine'.buffer = engine.buffer
          /\ engine'.ghost = engine.ghost /\ engine'.pc = pc
          /\ engine'.handle = z /\ engine'.watched = n
      BY <3>3, <3>4 DEF EngineType
    <3> QED BY <3>1, <3>5, <3>6
  <2>3. 0 <= Len(files) /\ Len(files) <= Len(files)
    BY <1>1
  <2> QED BY <1>2, <2>2, <2>3 DEF Watching
<1>3. CASE engine.watched \notin 1..(Len(files) - 1)
  <2>1. engine' = [engine EXCEPT !.pc = pc, !.watched = engine.watched, !.handle = engine.handle,
                                 !.stale = engine.stale]
    <3>1. (engine.stale /\ ~(engine.watched \in 1..(Len(files) - 1))) = engine.stale
      BY <1>1, <1>3
    <3> QED BY <1>3, <3>1 DEF Waited, Current
  <2> QED BY <1>1, <1>3, <2>1 DEF EngineType, Pc, Watching
<1> QED BY <1>2, <1>3

\* The pump waits, with or without the liveness probe.
LEMMA WaitKeepsInv ==
  ASSUME Limits, HeldInv, Wait \/ Probe
  PROVE  HeldInv'
<1>1. PICK pc \in {"read", "look"} :
        /\ engine' = Waited(pc) /\ Watching
        /\ UNCHANGED <<holderVars, screen, checkpoint, exit>>
  BY DEF Wait, Probe, Watching
<1>2. /\ engine' \in EngineType /\ engine'.inc = engine.inc /\ engine'.floor = engine.floor
      /\ engine'.offset = engine.offset /\ engine'.buffer = engine.buffer
      /\ engine'.ghost = engine.ghost /\ engine'.handle <= Len(files)
      /\ engine'.watched <= Len(files) /\ Watching'
      /\ /\ engine.handle \in 1..(Len(files) - 1)
         /\ engine.watched \notin 1..(Len(files) - 1)
         => engine'.handle = engine.handle /\ engine'.watched = engine.watched
  BY <1>1, WaitedIs
<1> QED BY <1>1, <1>2, PumpKeepsInv

\* The file the pump reads is one of the log's.
LEMMA HandleIs ==
  ASSUME HeldInv
  PROVE  /\ Handle \in Nat /\ Handle \in 1..Len(files)
         /\ engine.handle \in 1..(Len(files) - 1) => Handle = engine.handle
<1>1. engine.handle \in Nat /\ engine.handle <= Len(files) /\ Len(files) \in Nat /\ Len(files) >= 1
  BY Facts
<1> QED BY <1>1 DEF Handle, Current

\* What a read makes of the file and of the pump's place in it.
Extent(s, e, b, t, from) ==
  /\ Reading.start = s /\ Reading.end = e
  /\ b = files[Handle].base /\ t = files[Handle].tail
  /\ Reading.none <=> from >= t
  /\ engine.offset <= from /\ from <= s /\ e <= t /\ t <= Len(written)
  /\ s > engine.offset => s <= b
  /\ from > engine.offset => from <= b
  /\ e = t \/ e = from + ReadSize
  /\ s = b \/ (s = from /\ from >= b)
  /\ b > 0 => b + DiskCapacity \div 2 <= t
  /\ b <= t

\* The extent of a read, in every state.
LEMMA ReadingIs ==
  ASSUME Limits, HeldInv
  PROVE  \E s, e, b, t, from \in Nat : Extent(s, e, b, t, from)
<1>1. PICK b, t \in Nat :
        /\ b = files[Handle].base /\ t = files[Handle].tail /\ t <= Len(written) /\ b <= t
        /\ b > 0 => b + DiskCapacity \div 2 <= t
  BY Facts, HandleIs
<1>2. /\ engine.offset \in Nat /\ engine.opened \in Nat /\ ReadSize \in Nat /\ ReadSize >= 1
      /\ Len(written) \in Nat
  BY Facts, Halves
<1>3. PICK old \in Nat : old = (IF engine.opened < b THEN engine.opened ELSE b) /\ old <= b
  BY <1>1, <1>2
<1>4. PICK from \in Nat : /\ from = (IF engine.offset < old THEN old ELSE engine.offset)
                          /\ engine.offset <= from /\ (from > engine.offset => from <= b)
  BY <1>1, <1>2, <1>3
<1>5. PICK s \in Nat : /\ s = (IF from < b THEN b ELSE from) /\ from <= s
                       /\ (s > engine.offset => s <= b) /\ (s = b \/ (s = from /\ from >= b))
  BY <1>1, <1>2, <1>4
<1>6. PICK e \in Nat : /\ e = (IF t < from + ReadSize THEN t ELSE from + ReadSize) /\ e <= t
                       /\ (e = t \/ e = from + ReadSize)
  BY <1>1, <1>2, <1>4
<1>7. /\ Reading.start = (IF from < b THEN b ELSE from)
      /\ Reading.end = (IF t < from + ReadSize THEN t ELSE from + ReadSize)
      /\ Reading.none <=> from >= t
  BY <1>1, <1>3, <1>4 DEF Reading
<1>8. /\ Reading.start = s /\ Reading.end = e
      /\ b = files[Handle].base /\ t = files[Handle].tail
      /\ Reading.none <=> from >= t
  BY <1>1, <1>5, <1>6, <1>7
<1>9. /\ engine.offset <= from /\ from <= s /\ e <= t /\ t <= Len(written)
      /\ s > engine.offset => s <= b
      /\ from > engine.offset => from <= b
      /\ e = t \/ e = from + ReadSize
      /\ s = b \/ (s = from /\ from >= b)
      /\ b > 0 => b + DiskCapacity \div 2 <= t
      /\ b <= t
  BY <1>1, <1>4, <1>5, <1>6
<1>10. s \in Nat /\ e \in Nat /\ b \in Nat /\ t \in Nat /\ from \in Nat
  BY <1>1, <1>4, <1>5, <1>6
<1>11. Extent(s, e, b, t, from)
  BY <1>8, <1>9 DEF Extent
<1> QED BY <1>10, <1>11

\* The pump panics only when the file begins more than a read beyond it.
LEMMA PanicKeepsInv ==
  ASSUME Limits, HeldInv, Panic
  PROVE  HeldInv'
<1>0. PICK s, e, b, t, from \in Nat : Extent(s, e, b, t, from)
  BY ReadingIs
<1>1. /\ Reading.start = s /\ Reading.end = e
      /\ b = files[Handle].base /\ t = files[Handle].tail
      /\ Reading.none <=> from >= t
      /\ engine.offset <= from /\ from <= s /\ e <= t /\ t <= Len(written)
      /\ s > engine.offset => s <= b
      /\ from > engine.offset => from <= b
      /\ e = t \/ e = from + ReadSize
      /\ s = b \/ (s = from /\ from >= b)
      /\ b > 0 => b + DiskCapacity \div 2 <= t
      /\ b <= t
  BY <1>0 DEF Extent
<1>2. /\ Watching /\ ~(from >= t) /\ e < s
      /\ engine' = [engine EXCEPT !.pc = "panicked", !.handle = Handle]
      /\ UNCHANGED <<holderVars, screen, checkpoint, exit, counters>>
  BY <1>1 DEF Panic, Underflows, Watching
<1>3. PICK half, n, o \in Nat : half = DiskCapacity \div 2 /\ n = ReadSize /\ o = engine.offset /\ n >= 1
  BY Halves, Facts
<1>4. from \in Nat /\ t \in Nat /\ b \in Nat /\ s \in Nat /\ e \in Nat
  BY <1>0
<1>5. s = b
  <2>1. ASSUME s = from PROVE FALSE
    <3>1. e = t \/ e = from + n
      BY <1>1, <1>3
    <3> QED BY <1>2, <1>3, <1>4, <2>1, <3>1
  <2> QED BY <1>1, <2>1
<1>6. e = from + n
  <2>1. e # t
    BY <1>1, <1>2, <1>4, <1>5
  <2> QED BY <1>1, <1>3, <2>1
<1>7. b > 0 /\ b > from + n /\ b + half <= t
  <2>1. b > from + n /\ b > 0
    BY <1>2, <1>3, <1>4, <1>5, <1>6
  <2> QED BY <1>1, <1>3, <2>1
<1>8. t > o + half + n
  <2>1. o <= from
    BY <1>1, <1>3
  <2> QED BY <1>3, <1>4, <1>7, <2>1
<1>9. /\ engine \in EngineType /\ Handle \in Nat /\ Handle <= Len(files) /\ Handle >= 1
      /\ engine.watched <= Len(files)
  <2>1. Handle \in 1..Len(files) /\ Handle \in Nat /\ Len(files) \in Nat
    BY HandleIs, Facts
  <2> QED BY <2>1, Facts
<1>10. /\ engine' \in EngineType /\ engine'.inc = engine.inc /\ engine'.floor = engine.floor
       /\ engine'.offset = engine.offset /\ engine'.buffer = engine.buffer
       /\ engine'.ghost = engine.ghost /\ engine'.handle = Handle
       /\ engine'.watched = engine.watched /\ engine'.pc = "panicked"
  BY <1>2, <1>9 DEF EngineType, Pc
<1>11. files[engine'.handle].tail > engine'.offset + DiskCapacity \div 2 + ReadSize
  BY <1>1, <1>3, <1>8, <1>10
<1> QED BY <1>2, <1>9, <1>10, <1>11, PumpKeepsInv

\* A round of the pump that finds nothing.
LEMMA QuietKeepsInv ==
  ASSUME Limits, HeldInv, Quiet
  PROVE  HeldInv'
<1>1. PICK settled \in BOOLEAN :
        LET saves == engine.dirty /\ (engine.replaying \/ settled)
        IN  /\ engine' = [engine EXCEPT !.pc = "wait", !.handle = Handle,
                          !.replaying = FALSE, !.dirty = engine.dirty /\ ~saves]
            /\ IF saves THEN PersistCheckpoint(engine, screen) ELSE UNCHANGED checkpoint
  BY DEF Quiet
<1>2. Watching /\ UNCHANGED <<holderVars, screen, exit, counters>>
  BY DEF Quiet, Watching
<1>3. PICK d \in BOOLEAN : d = (engine.dirty /\ ~(engine.dirty /\ (engine.replaying \/ settled)))
  BY Zenon
<1>4. engine' = [engine EXCEPT !.pc = "wait", !.handle = Handle, !.replaying = FALSE, !.dirty = d]
  BY <1>1, <1>3
<1>5. /\ engine \in EngineType /\ Handle \in Nat /\ Handle <= Len(files)
      /\ engine.watched <= Len(files)
      /\ engine.handle \in 1..(Len(files) - 1) => Handle = engine.handle
  <2>1. /\ Handle \in 1..Len(files) /\ Handle \in Nat /\ Len(files) \in Nat
        /\ engine.handle \in 1..(Len(files) - 1) => Handle = engine.handle
    BY HandleIs, Facts
  <2> QED BY <2>1, Facts
<1>6. /\ engine' \in EngineType /\ engine'.inc = engine.inc /\ engine'.floor = engine.floor
      /\ engine'.offset = engine.offset /\ engine'.buffer = engine.buffer
      /\ engine'.ghost = engine.ghost /\ engine'.handle = Handle
      /\ engine'.watched = engine.watched /\ engine'.pc = "wait"
  BY <1>3, <1>4, <1>5 DEF EngineType, Pc
<1>7. checkpoint' \in {checkpoint, Saved(engine, screen)}
  BY <1>1 DEF PersistCheckpoint
<1>8. Watching'
  BY <1>6 DEF Watching
<1> QED BY <1>2, <1>5, <1>6, <1>7, <1>8, PumpKeepsInv

\* The last look for a marker.
LEMMA LookKeepsInv ==
  ASSUME Limits, HeldInv, Look
  PROVE  HeldInv'
<1>1. /\ Watching /\ UNCHANGED <<holderVars, screen, counters>>
      /\ checkpoint' \in {checkpoint, Saved(engine, screen)}
      /\ \/ engine' = [engine EXCEPT !.pc = "exited"] /\ exit' = Without("unknown")
         \/ engine' = [engine EXCEPT !.pc = "read", !.handle = Handle] /\ exit' = exit
  BY DEF Look, Watching, PersistCheckpoint
<1>2. /\ engine \in EngineType /\ Handle \in Nat /\ Handle <= Len(files)
      /\ engine.watched <= Len(files) /\ engine.handle <= Len(files)
      /\ engine.handle \in 1..(Len(files) - 1) => Handle = engine.handle
  <2>1. /\ Handle \in 1..Len(files) /\ Handle \in Nat /\ Len(files) \in Nat
        /\ engine.handle \in 1..(Len(files) - 1) => Handle = engine.handle
    BY HandleIs, Facts
  <2> QED BY <2>1, Facts
<1>3. CASE engine' = [engine EXCEPT !.pc = "exited"] /\ exit' = Without("unknown")
  <2>1. /\ engine' \in EngineType /\ engine'.inc = engine.inc /\ engine'.floor = engine.floor
        /\ engine'.offset = engine.offset /\ engine'.buffer = engine.buffer
        /\ engine'.ghost = engine.ghost /\ engine'.handle = engine.handle
        /\ engine'.watched = engine.watched /\ engine'.pc = "exited"
    BY <1>2, <1>3 DEF EngineType, Pc
  <2> QED BY <1>1, <1>2, <1>3, <2>1, PumpKeepsInv
<1>4. CASE engine' = [engine EXCEPT !.pc = "read", !.handle = Handle] /\ exit' = exit
  <2>1. /\ engine' \in EngineType /\ engine'.inc = engine.inc /\ engine'.floor = engine.floor
        /\ engine'.offset = engine.offset /\ engine'.buffer = engine.buffer
        /\ engine'.ghost = engine.ghost /\ engine'.handle = Handle
        /\ engine'.watched = engine.watched /\ engine'.pc = "read"
    BY <1>2, <1>4 DEF EngineType, Pc
  <2>2. Watching'
    BY <2>1 DEF Watching
  <2> QED BY <1>1, <1>2, <1>4, <2>1, <2>2, PumpKeepsInv
<1> QED BY <1>1, <1>3, <1>4

\* The session is dropped or the Engine ends.
LEMMA StopKeepsInv ==
  ASSUME Limits, HeldInv, Stop
  PROVE  HeldInv'
<1>1. /\ engine' = [engine EXCEPT !.pc = "down"] /\ UNCHANGED <<holderVars, screen, exit>>
      /\ checkpoint' \in {checkpoint, Saved(engine, screen)}
      /\ ~Watching => checkpoint' = checkpoint
  BY DEF Stop, PersistCheckpoint, Watching
<1>2. /\ engine \in EngineType /\ engine.watched <= Len(files) /\ engine.handle <= Len(files)
      /\ engine.floor <= Len(written) /\ engine.offset <= Len(written)
  BY Facts
<1>3. /\ engine' \in EngineType /\ engine'.inc = engine.inc /\ engine'.floor = engine.floor
      /\ engine'.offset = engine.offset /\ engine'.buffer = engine.buffer
      /\ engine'.ghost = engine.ghost /\ engine'.handle = engine.handle
      /\ engine'.watched = engine.watched /\ engine'.pc = "down"
  BY <1>1, <1>2 DEF EngineType, Pc
<1>4. CASE Watching
  BY <1>1, <1>2, <1>3, <1>4, PumpKeepsInv
<1>5. CASE ~Watching
  <2>1. /\ written' = written /\ files' = files /\ holder' = holder /\ pty' = pty
        /\ LogShape' /\ HolderShape' /\ (Torn' <=> Torn)
    BY <1>1, LogStill
  <2>2. checkpoint' = checkpoint /\ screen' = screen /\ exit' = exit
    BY <1>1, <1>5
  <2>3. ~Watching' /\ ~Attached'
    BY <1>3 DEF Watching, Attached
  <2>4. EngineShape' /\ ScreenShape' /\ Markers'
    BY <1>2, <1>3, <2>1, <2>2 DEF HeldInv, EngineShape, ScreenShape, Markers, NotEndAt
  <2>5. Screens' /\ Outran'
    BY <1>3, <2>1, <2>2, <2>3 DEF HeldInv, Screens, Outran
  <2>6. Owned'
    <3>1. ExitIsOwn'
      BY <1>3, <2>2 DEF HeldInv, Owned, ExitIsOwn
    <3>2. \A i \in 1..Len(written') : i > holder'.epoch => written'[i].inc = holder'.inc
      BY <2>1 DEF HeldInv, Owned
    <3> QED BY <1>3, <2>3, <3>1, <3>2 DEF Owned
  <2>7. LastMark'
    <3>1. /\ \A i \in 1..Len(written) : written[i].inc <= holder.inc
          /\ \A i \in 1..Len(written) : i <= holder.epoch => written[i].inc < holder.inc
          /\ \A i \in 1..Len(written) :
               OwnEnd(i) => i = Len(written) /\ holder.phase \in {"marked", "leaving", "gone"}
      BY DEF HeldInv, LastMark
    <3>2. \A i : OwnEnd(i)' <=> OwnEnd(i)
      BY <2>1 DEF OwnEnd
    <3> QED BY <1>3, <2>1, <2>3, <3>1, <3>2 DEF LastMark
  <2> QED BY <2>1, <2>4, <2>5, <2>6, <2>7 DEF HeldInv
<1> QED BY <1>4, <1>5

\* A launch: a new Holder, or the one that is still there.
LEMMA LaunchKeepsInv ==
  ASSUME Limits, HeldInv, Launch
  PROVE  HeldInv'
<1>1. /\ engine.pc = "launch" /\ written' = written /\ pty' = pty /\ screen' = screen
      /\ checkpoint' = checkpoint /\ exit' = exit
      /\ engine' = [engine EXCEPT !.pc = "attach", !.floor = files[engine.handle].tail,
                                  !.ghost = holder.phase \notin {"none", "running", "gone"}]
  BY DEF Launch
<1>2. PICK h, m, k \in Nat : h = engine.handle /\ m = Len(written) /\ k = Len(files)
  BY Facts
<1>3. h \in 1..k /\ k \in 1..k /\ engine.buffer = "empty"
  BY <1>1, <1>2, Facts DEF HeldInv, EngineShape
<1>4. PICK t \in Nat : t = files[h].tail /\ t <= m
  BY <1>2, <1>3, Facts
<1>5. /\ engine' \in EngineType /\ engine'.pc = "attach" /\ engine'.floor = t
      /\ engine'.handle = h /\ engine'.watched = engine.watched /\ engine'.offset = engine.offset
      /\ engine'.buffer = "empty"
      /\ ~engine'.ghost => holder.phase \in {"none", "running", "gone"}
  <2>1. PICK g \in BOOLEAN : g = (holder.phase \notin {"none", "running", "gone"})
    OBVIOUS
  <2>2. engine' = [engine EXCEPT !.pc = "attach", !.floor = t, !.ghost = g]
    BY <1>1, <1>2, <1>4, <2>1
  <2>3. /\ engine' \in EngineType /\ engine'.pc = "attach" /\ engine'.floor = t
        /\ engine'.handle = h /\ engine'.watched = engine.watched
        /\ engine'.offset = engine.offset /\ engine'.buffer = "empty" /\ engine'.ghost = g
    BY <1>2, <1>3, <2>2, Facts DEF EngineType, Pc
  <2> QED BY <2>1, <2>3
<1>6. ~Watching' /\ ~Attached'
  BY <1>5 DEF Watching, Attached
<1>7. \/ /\ holder' = holder /\ holder.phase \notin {"none", "gone"} /\ files' = files
      \/ /\ holder' = [phase |-> "running", inc |-> holder.inc + 1, epoch |-> m,
                       child |-> TRUE, writes |-> TRUE]
         /\ files' = [files EXCEPT ![k].bytes = m - files[k].base]
  <2>1. holder.inc \in Nat /\ files[k].tail = m
    BY <1>2, Facts
  <2>2. CASE holder.phase \notin {"none", "gone"}
    BY <2>2 DEF Launch
  <2>3. CASE holder.phase \in {"none", "gone"}
    <3>1. holder' = [phase |-> "running", inc |-> holder.inc + 1, epoch |-> m,
                     child |-> TRUE, writes |-> TRUE]
      BY <1>2, <2>1, <2>3 DEF Launch, FileTail, Current
    <3>2. holder'.inc # holder.inc
      BY <2>1, <3>1
    <3> QED BY <1>2, <2>1, <3>1, <3>2 DEF Launch, FileTail, Current
  <2> QED BY <2>2, <2>3
<1>8. /\ LogShape' /\ Len(files') = k
      /\ \A i \in 1..k : files'[i].tail = files[i].tail
  <2>1. CASE files' = files
    BY <1>1, <1>2, <2>1 DEF HeldInv, LogShape
  <2>2. CASE files' = [files EXCEPT ![k].bytes = m - files[k].base]
    <3>1. PICK b \in Nat : b = files[k].base /\ b <= m /\ files[k].tail = m
      BY <1>2, <1>3, Facts
    <3>2. PICK c \in Nat : c = m - b /\ b + c = m
      BY <3>1
    <3>3. files' = [files EXCEPT ![k].bytes = c]
      BY <2>2, <3>1, <3>2
    <3>4. files \in Seq(FileType)
      BY DEF HeldInv, LogShape
    <3>5. PICK f \in FileType : f = files[k] /\ f.base = b /\ f.tail = m
      BY <1>2, <1>3, <3>1, <3>4
    <3>6. PICK g : g = [f EXCEPT !.bytes = c]
      OBVIOUS
    <3>7. g \in FileType /\ g.base = b /\ g.tail = m /\ g.bytes = c
      BY <3>5, <3>6 DEF FileType
    <3>8. files' = [files EXCEPT ![k] = g]
      BY <3>3, <3>5, <3>6
    <3>9. /\ files' \in Seq(FileType) /\ Len(files') = k /\ files'[k] = g
          /\ \A i \in 1..k : i # k => files'[i] = files[i]
      BY <1>2, <1>3, <3>4, <3>7, <3>8
    <3>10. ASSUME NEW i \in 1..k
           PROVE  /\ files'[i].tail = files[i].tail /\ files'[i].tail <= m
                  /\ files'[i].base + files'[i].bytes <= files'[i].tail
                  /\ files'[i].base > 0 => files'[i].base + DiskCapacity \div 2 <= files'[i].tail
      <4>0. /\ files[i].tail <= m /\ files[i].base + files[i].bytes <= files[i].tail
            /\ files[i].base > 0 => files[i].base + DiskCapacity \div 2 <= files[i].tail
        BY <1>2 DEF HeldInv, LogShape
      <4>1. CASE i = k
        BY <1>2, <3>1, <3>2, <3>5, <3>7, <3>9, <4>0, <4>1
      <4>2. CASE i # k
        BY <3>9, <4>0, <4>2
      <4> QED BY <4>1, <4>2
    <3>11. files'[k].tail = m /\ k >= 1
      BY <1>3, <3>7, <3>9
    <3> QED BY <1>1, <1>2, <3>9, <3>10, <3>11 DEF HeldInv, LogShape
  <2> QED BY <1>7, <2>1, <2>2
<1>9. /\ HolderShape' /\ holder'.epoch \in Nat /\ holder'.phase # "none"
      /\ \/ holder' = holder /\ holder.phase \notin {"none", "gone"}
         \/ holder'.inc = holder.inc + 1 /\ holder'.epoch = m
  <2>1. holder.inc \in Nat /\ pty \in Nat /\ HolderShape /\ holder.epoch \in Nat
    BY Facts DEF HeldInv, HolderShape
  <2>2. CASE holder' = holder /\ holder.phase \notin {"none", "gone"}
    BY <1>1, <2>1, <2>2 DEF HolderShape
  <2>3. CASE holder' = [phase |-> "running", inc |-> holder.inc + 1, epoch |-> m,
                        child |-> TRUE, writes |-> TRUE]
    <3>1. PICK x \in Nat : x = holder.inc + 1
      BY <2>1
    <3>2. /\ holder' \in HolderType /\ holder'.epoch = m /\ holder'.inc = x
          /\ holder'.phase = "running"
      BY <1>2, <2>3, <3>1 DEF HolderType, Phase
    <3> QED BY <1>1, <1>2, <2>1, <3>1, <3>2 DEF HolderShape
  <2> QED BY <1>7, <2>2, <2>3
<1>10. EngineShape'
  <2>1. engine.watched <= k /\ engine.offset <= m
    BY <1>2, Facts
  <2>2. h <= k /\ h >= 1
    BY <1>2, <1>3
  <2> QED BY <1>1, <1>2, <1>4, <1>5, <1>8, <2>1, <2>2 DEF EngineShape
<1>11. ScreenShape'
  BY <1>1 DEF HeldInv, ScreenShape
<1>12. Markers'
  <2>1. NotEndAt(t) /\ NotEndAt(holder.epoch) /\ \A i \in 1..k : NotEndAt(files[i].tail)
    BY <1>2, <1>3, <1>4 DEF HeldInv, Markers
  <2>2. NotEndAt(m)
    BY <1>2 DEF NotEndAt
  <2>3. NotEndAt(holder'.epoch) /\ NotEndAt(engine'.floor)
    BY <1>5, <1>9, <2>1, <2>2
  <2>4. \A i \in 1..k : NotEndAt(files'[i].tail)
    BY <1>8, <2>1
  <2>5. \A i \in 1..Len(written) : written[i].kind = "end" => i > 1 /\ written[i - 1].kind = "head"
    BY DEF HeldInv, Markers
  <2> QED BY <1>1, <1>8, <2>3, <2>4, <2>5 DEF Markers, NotEndAt
<1>13. Screens'
  BY <1>1, <1>6 DEF HeldInv, Screens
<1>14. Owned'
  <2>1. \A i \in 1..Len(written) : i > holder.epoch => written[i].inc = holder.inc
    BY DEF HeldInv, Owned
  <2>2. \A i \in 1..Len(written') : i > holder'.epoch => written'[i].inc = holder'.inc
    BY <1>1, <1>2, <1>9, <2>1
  <2>3. exit' = None /\ ExitIsOwn'
    BY <1>1 DEF HeldInv, Owned, ExitIsOwn
  <2>4. engine'.floor >= holder'.epoch \/ Stranded'
    <3>1. CASE holder' = holder
      BY <1>1, <1>2, <1>4, <1>5, <3>1 DEF HeldInv, Owned
    <3>2. CASE holder'.epoch = m
      <4>1. CASE h = k
        <5>1. t = m
          BY <1>2, <1>4, <4>1, Facts
        <5> QED BY <1>5, <3>2, <5>1
      <4>2. CASE h # k
        <5>1. h \in 1..(k - 1)
          BY <1>3, <4>2
        <5>2. files'[h].tail = t
          BY <1>3, <1>4, <1>8
        <5> QED BY <1>5, <1>8, <5>1, <5>2 DEF Stranded
      <4> QED BY <4>1, <4>2
    <3> QED BY <1>9, <3>1, <3>2
  <2> QED BY <1>5, <1>6, <1>9, <2>2, <2>3, <2>4 DEF Owned
<1>15. LastMark'
  <2>1. /\ \A i \in 1..m : written[i].inc <= holder.inc
        /\ \A i \in 1..m : i <= holder.epoch => written[i].inc < holder.inc
        /\ \A i \in 1..m :
             OwnEnd(i) => i = m /\ holder.phase \in {"marked", "leaving", "gone"}
    BY <1>2 DEF HeldInv, LastMark
  <2>2. CASE holder' = holder /\ holder.phase \notin {"none", "gone"}
    <3>1. \A i : OwnEnd(i)' <=> OwnEnd(i)
      BY <1>1, <2>2 DEF OwnEnd
    <3>2. ~engine'.ghost => \A i \in 1..m : ~OwnEnd(i)
      BY <1>5, <2>1, <2>2
    <3> QED BY <1>1, <1>2, <1>6, <2>1, <2>2, <3>1, <3>2 DEF LastMark
  <2>3. CASE holder'.inc = holder.inc + 1 /\ holder'.epoch = m
    <3>1. ASSUME NEW i \in 1..m PROVE written[i].inc < holder.inc + 1
      <4>1. written[i] \in UnitType /\ holder.inc \in Nat
        BY <1>2, Facts DEF HeldInv, LogShape
      <4>2. written[i].inc \in Nat
        BY <4>1 DEF UnitType
      <4> QED BY <2>1, <4>1, <4>2
    <3>2. holder.inc + 1 \in Nat
      BY Facts
    <3>3. ASSUME NEW i \in 1..m PROVE ~OwnEnd(i)' /\ written[i].inc <= holder.inc + 1
      <4>1. written[i] \in UnitType
        BY <1>2, Facts DEF HeldInv, LogShape
      <4>2. written[i].inc \in Nat
        BY <4>1 DEF UnitType
      <4>3. written[i].inc # holder.inc + 1 /\ written[i].inc <= holder.inc + 1
        BY <3>1, <3>2, <4>2
      <4> QED BY <1>1, <2>3, <4>3 DEF OwnEnd
    <3> QED BY <1>1, <1>2, <1>6, <2>3, <3>1, <3>3 DEF LastMark
  <2> QED BY <1>9, <2>2, <2>3
<1>16. Outran'
  BY <1>5 DEF Outran
<1> QED BY <1>8, <1>9, <1>10, <1>11, <1>12, <1>13, <1>14, <1>15, <1>16 DEF HeldInv

\* The Engine attaches to a Holder, or gives up.
LEMMA AttachKeepsInv ==
  ASSUME Limits, HeldInv, Attach
  PROVE  HeldInv'
<1>1. /\ engine.pc = "attach" /\ UNCHANGED holderVars /\ screen' = screen
      /\ checkpoint' = checkpoint
  BY DEF Attach
<1>2. /\ written' = written /\ files' = files /\ holder' = holder /\ pty' = pty
      /\ LogShape' /\ HolderShape' /\ (Torn' <=> Torn)
  BY <1>1, LogStill
<1>3. PICK h, m, k \in Nat : h = engine.handle /\ m = Len(written) /\ k = Len(files)
  BY Facts
<1>4. PICK ep, fl \in Nat : ep = holder.epoch /\ fl = engine.floor /\ ep <= m /\ fl <= m
  BY <1>3, Facts
<1>5. /\ h \in 1..k /\ k \in 1..k /\ engine.buffer = "empty" /\ exit = None
      /\ fl >= ep \/ Stranded
  BY <1>1, <1>3, <1>4, Facts DEF HeldInv, EngineShape, Owned
<1>6. \A i : OwnEnd(i)' <=> OwnEnd(i)
  BY <1>2 DEF OwnEnd
<1>7. \/ /\ engine' = [engine EXCEPT !.pc = "start", !.inc = holder.inc, !.floor = ep]
         /\ Answers /\ exit' = exit
      \/ /\ engine' = [engine EXCEPT !.pc = "start", !.inc = holder.inc]
         /\ ~Answers /\ exit' = exit
      \/ engine' = [engine EXCEPT !.pc = "exited"] /\ exit' = Without("failed")
  BY <1>1, <1>4 DEF Attach
<1>8. PICK w, off \in Nat : w = engine.watched /\ off = engine.offset /\ w <= k /\ off <= m
  BY <1>3, Facts
<1>9. PICK n \in Nat : n = holder.inc
  BY Facts
<1>10. PICK nf \in Nat, npc \in {"start", "exited"}, ninc \in Nat :
         /\ engine' = [engine EXCEPT !.pc = npc, !.inc = ninc, !.floor = nf]
         /\ npc = "start" => ninc = n /\ exit' = exit
         /\ npc = "exited" => exit' = Without("failed")
         /\ \/ nf = ep /\ Answers
            \/ nf = fl /\ (npc = "start" => ~Answers)
  <2>0. engine \in EngineType /\ engine.inc \in Nat /\ engine.pc \in Pc
    BY Facts
  <2>1. CASE /\ engine' = [engine EXCEPT !.pc = "start", !.inc = holder.inc, !.floor = ep]
             /\ Answers /\ exit' = exit
    <3>1. engine' = [engine EXCEPT !.pc = "start", !.inc = n, !.floor = ep]
      BY <1>9, <2>1
    <3>2. n \in Nat /\ ep \in Nat
      BY <1>4, <1>9
    <3> QED BY <2>1, <3>1, <3>2
  <2>2. CASE /\ engine' = [engine EXCEPT !.pc = "start", !.inc = holder.inc]
             /\ ~Answers /\ exit' = exit
    <3>1. engine' = [engine EXCEPT !.pc = "start", !.inc = n, !.floor = fl]
      BY <1>4, <1>9, <2>0, <2>2 DEF EngineType
    <3>2. n \in Nat /\ fl \in Nat
      BY <1>4, <1>9
    <3> QED BY <2>2, <3>1, <3>2
  <2>3. CASE engine' = [engine EXCEPT !.pc = "exited"] /\ exit' = Without("failed")
    <3>1. engine' = [engine EXCEPT !.pc = "exited", !.inc = engine.inc, !.floor = fl]
      BY <1>4, <2>0, <2>3 DEF EngineType
    <3>2. engine.inc \in Nat /\ fl \in Nat
      BY <1>4, <2>0
    <3> QED BY <2>3, <3>1, <3>2
  <2> QED BY <1>7, <2>1, <2>2, <2>3
<1>11. /\ engine' \in EngineType /\ engine'.pc = npc /\ engine'.inc = ninc /\ engine'.floor = nf
       /\ engine'.handle = h /\ engine'.watched = w /\ engine'.offset = off
       /\ engine'.buffer = "empty" /\ engine'.ghost = engine.ghost
  <2>1. npc \in Pc /\ nf \in Nat /\ ninc \in Nat
    BY <1>10 DEF Pc
  <2>2. engine \in EngineType
    BY Facts
  <2>3. engine' = [engine EXCEPT !.pc = npc, !.inc = ninc, !.floor = nf]
    BY <1>10
  <2>4. engine' \in EngineType /\ engine'.pc = npc /\ engine'.inc = ninc /\ engine'.floor = nf
        /\ engine'.handle = engine.handle /\ engine'.watched = engine.watched
        /\ engine'.offset = engine.offset
        /\ engine'.buffer = engine.buffer /\ engine'.ghost = engine.ghost
    BY <2>1, <2>2, <2>3 DEF EngineType
  <2> QED BY <1>3, <1>5, <1>8, <2>4
<1>12. nf \in {ep, fl} /\ nf <= m
  BY <1>4, <1>10
<1>13. EngineShape'
  <2>1. h >= 1 /\ h <= k
    BY <1>3, <1>5
  <2> QED BY <1>2, <1>3, <1>8, <1>11, <1>12, <2>1 DEF EngineShape
<1>14. Markers'
  <2>1. NotEndAt(nf)
    BY <1>4, <1>12 DEF HeldInv, Markers
  <2> QED BY <1>2, <1>11, <2>1 DEF HeldInv, Markers, NotEndAt
<1>15. ~Watching' /\ engine'.pc \notin {"launch", "attach"}
       /\ (Attached' <=> npc = "start")
  BY <1>10, <1>11 DEF Watching, Attached
<1>20. Screens'
  BY <1>1, <1>2, <1>15 DEF HeldInv, Screens
<1>21. ScreenShape'
  <2>1. exit' \in {exit, Without("failed")}
    BY <1>10
  <2>2. Without("failed") \in ExitType
    BY DEF Without, ExitType
  <2> QED BY <1>1, <1>2, <2>1, <2>2 DEF HeldInv, ScreenShape
<1>16. ASSUME npc = "start"
       PROVE  nf >= ep \/ (Stranded' /\ holder.phase \in {"leaving", "gone"})
  <2>1. CASE nf = ep
    BY <1>4, <2>1
  <2>2. CASE nf = fl /\ ~Answers
    <3>1. holder.phase # "none" /\ holder.phase \in Phase
      BY <1>1, Facts DEF HeldInv, Owned
    <3>2. holder.phase \in {"leaving", "gone"}
      BY <2>2, <3>1 DEF Answers, Phase
    <3>3. Stranded => Stranded'
      BY <1>2, <1>3, <1>4, <1>11, <2>2 DEF Stranded
    <3> QED BY <1>5, <2>2, <3>2, <3>3
  <2> QED BY <1>10, <1>16, <2>1, <2>2
<1>17. Owned'
  <2>1. \A i \in 1..Len(written') : i > holder'.epoch => written'[i].inc = holder'.inc
    BY <1>2 DEF HeldInv, Owned
  <2>2. ExitIsOwn'
    <3>1. exit' \in {None, Without("failed")}
      BY <1>5, <1>10
    <3> QED BY <3>1 DEF ExitIsOwn, Without
  <2>3. npc = "start" => exit' = None /\ ninc = holder'.inc
    BY <1>2, <1>5, <1>9, <1>10
  <2>4. holder'.epoch = ep /\ engine'.floor = nf
    BY <1>2, <1>4, <1>11
  <2> QED BY <1>2, <1>11, <1>15, <1>16, <2>1, <2>2, <2>3, <2>4 DEF Owned
<1>18. LastMark'
  <2>1. /\ \A i \in 1..Len(written) : written[i].inc <= holder.inc
        /\ \A i \in 1..Len(written) : i <= holder.epoch => written[i].inc < holder.inc
        /\ \A i \in 1..Len(written) :
             OwnEnd(i) => i = Len(written) /\ holder.phase \in {"marked", "leaving", "gone"}
        /\ ~engine.ghost => \A i \in 1..Len(written) : OwnEnd(i) => i > engine.floor
        /\ ~engine.ghost /\ checkpoint # None =>
             \A i \in 1..Len(written) : OwnEnd(i) => i > checkpoint.offset + 1
    BY <1>1 DEF HeldInv, LastMark
  <2>2. ASSUME ~engine.ghost, NEW i \in 1..Len(written), OwnEnd(i) PROVE i > nf
    <3>1. CASE nf = fl
      BY <1>4, <2>1, <2>2, <3>1
    <3>2. CASE nf = ep
      <4>1. written[i].inc = n
        BY <1>9, <2>2 DEF OwnEnd
      <4>2. ~(i <= ep)
        BY <1>4, <1>9, <2>1, <4>1
      <4> QED BY <1>4, <3>2, <4>2
    <3> QED BY <1>12, <3>1, <3>2
  <2>3. npc = "start" \/ npc = "exited"
    BY <1>10
  <2>4. engine'.pc # "attach"
    BY <1>11, <2>3
  <2> QED BY <1>1, <1>2, <1>6, <1>11, <1>15, <2>1, <2>2, <2>4 DEF LastMark
<1>19. Outran'
  BY <1>10, <1>11 DEF Outran
<1> QED BY <1>2, <1>13, <1>14, <1>17, <1>18, <1>19, <1>20, <1>21 DEF HeldInv

\* The greatest of two integers and 0.
LEMMA MaxIs ==
  ASSUME NEW a \in Int, NEW b \in Int
  PROVE  \E x \in Nat : x = Max({a, b, 0}) /\ x \in {a, b, 0} /\ x >= a /\ x >= b
<1>1. \E x \in {a, b, 0} : \A y \in {a, b, 0} : x >= y
  <2>1. CASE a >= b /\ a >= 0
    BY <2>1
  <2>2. CASE b >= a /\ b >= 0
    BY <2>2
  <2>3. CASE 0 >= a /\ 0 >= b
    BY <2>3
  <2> QED BY <2>1, <2>2, <2>3
<1>2. Max({a, b, 0}) \in {a, b, 0} /\ \A y \in {a, b, 0} : Max({a, b, 0}) >= y
  <2>1. Max({a, b, 0}) = CHOOSE x \in {a, b, 0} : \A y \in {a, b, 0} : x >= y
    BY DEF Max
  <2> QED BY <1>1, <2>1, Zenon
<1>3. PICK x \in Int : x = Max({a, b, 0})
  BY <1>2
<1>4. x \in {a, b, 0} /\ x >= a /\ x >= b /\ x >= 0
  BY <1>2, <1>3
<1> QED BY <1>3, <1>4

\* A new pump's place when no checkpoint is near.
LEMMA FreshIs ==
  ASSUME NEW start \in Nat
  PROVE  LET scr == [Blank EXCEPT !.jumps = {start}, !.gaps = 0..(start - 1)]
         IN  scr \in ScreenType /\ \A log : Pure(log, scr) /\ Sound(log, start, "empty", scr)
<1> DEFINE scr == [Blank EXCEPT !.jumps = {start}, !.gaps = 0..(start - 1)]
<1>1. PICK bl \in ScreenType : bl = Blank /\ bl.shown = <<>>
  BY BlankIs DEF Blank
<1>2. PICK g \in SUBSET Int, j \in SUBSET Nat : g = 0..(start - 1) /\ j = {start}
  <2>1. 0..(start - 1) \in SUBSET Int
    OBVIOUS
  <2>2. {start} \in SUBSET Nat
    OBVIOUS
  <2> QED BY <2>1, <2>2
<1>3. /\ scr \in ScreenType /\ scr.shown = <<>> /\ scr.gaps = 0..(start - 1)
      /\ scr.jumps = {start}
  <2>1. scr = [bl EXCEPT !.jumps = j, !.gaps = g]
    BY <1>1, <1>2
  <2>2. /\ scr \in ScreenType /\ scr.shown = bl.shown /\ scr.gaps = g /\ scr.jumps = j
    BY <1>1, <1>2, <2>1 DEF ScreenType
  <2> QED BY <1>1, <1>2, <2>2
<1>4. 1..Len(<<>>) = {}
  OBVIOUS
<1> HIDE DEF scr
<1>5. ASSUME NEW log PROVE Pure(log, scr) /\ Sound(log, start, "empty", scr)
  <2>1. Pure(log, scr)
    BY <1>3, <1>4 DEF Pure
  <2>2. Sound(log, start, "empty", scr)
    BY <1>3, <1>4 DEF Sound
  <2> QED BY <2>1, <2>2
<1> QED BY <1>3, <1>5 DEF scr

\* The pump starts from the checkpoint or afresh.
LEMMA StartPumpKeepsInv ==
  ASSUME Limits, HeldInv, StartPump
  PROVE  HeldInv'
<1>1. engine.pc = "start" /\ UNCHANGED holderVars /\ checkpoint' = checkpoint /\ exit' = exit
  BY DEF StartPump
<1>2. /\ written' = written /\ files' = files /\ holder' = holder /\ pty' = pty
      /\ LogShape' /\ HolderShape' /\ (Torn' <=> Torn)
  BY <1>1, LogStill
<1>3. PICK h, m, k \in Nat : h = engine.handle /\ m = Len(written) /\ k = Len(files)
  BY Facts
<1>4. h \in 1..k /\ k \in 1..k /\ engine.buffer = "empty" /\ exit = None
  BY <1>1, <1>3, Facts DEF HeldInv, EngineShape, Owned, Attached
<1>5. PICK b, t \in Nat : /\ b = files[h].base /\ t = files[h].tail /\ t <= m /\ b <= t
                          /\ b > 0 => b + DiskCapacity \div 2 <= t
  BY <1>3, <1>4, Facts
<1>6. PICK half, budget \in Nat : /\ half = DiskCapacity \div 2 /\ budget = ReplayBudget
                                  /\ half >= 2 /\ budget >= 2
  BY Halves
<1>7. PICK start \in Nat : /\ start = Max({files[h].tail - ReplayBudget, files[h].base, 0})
                           /\ start \in {t - budget, b, 0}
  <2>1. t - budget \in Int /\ b \in Int
    BY <1>5, <1>6
  <2> QED BY <1>5, <1>6, <2>1, MaxIs
<1>8. start <= t /\ start <= m /\ (start > 0 => start + 2 <= m)
  BY <1>5, <1>6, <1>7
<1>9. PICK w \in {0, k}, st \in BOOLEAN :
        LET e == [engine EXCEPT !.pc = "read", !.watched = w, !.stale = st]
        IN  \/ /\ Usable(t)
               /\ engine' = [e EXCEPT !.offset = checkpoint.offset, !.buffer = checkpoint.buffer]
               /\ screen' = checkpoint.screen
            \/ /\ engine' = [e EXCEPT !.offset = start]
               /\ screen' = [Blank EXCEPT !.jumps = {start}, !.gaps = 0..(start - 1)]
  <2>1. PICK w \in {0, k} : w = IF Watcher THEN Current ELSE 0
    BY <1>3 DEF Current
  <2>2. PICK st \in BOOLEAN : st = (engine.handle # Current)
    OBVIOUS
  <2> QED BY <1>3, <1>5, <1>7, <2>1, <2>2 DEF StartPump
<1>10. \E o \in Nat, u \in Buffers :
         /\ engine' = [engine EXCEPT !.pc = "read", !.watched = w, !.stale = st, !.offset = o,
                                     !.buffer = u]
         /\ o <= m /\ screen' \in ScreenType
         /\ Pure(written, screen') /\ Sound(written, o, u, screen')
         /\ \/ checkpoint # None /\ o = checkpoint.offset
            \/ o = start
  <2>1. CASE /\ Usable(t)
             /\ engine' = [[engine EXCEPT !.pc = "read", !.watched = w, !.stale = st]
                             EXCEPT !.offset = checkpoint.offset, !.buffer = checkpoint.buffer]
             /\ screen' = checkpoint.screen
    <3>1. /\ checkpoint # None /\ checkpoint.offset \in Nat /\ checkpoint.buffer \in Buffers
          /\ checkpoint.screen \in ScreenType /\ checkpoint.offset <= m
      BY <1>3, <2>1 DEF HeldInv, ScreenShape, Usable
    <3>2. /\ Pure(written, checkpoint.screen)
          /\ Sound(written, checkpoint.offset, checkpoint.buffer, checkpoint.screen)
      BY <3>1 DEF HeldInv, Screens
    <3>3. engine' = [engine EXCEPT !.pc = "read", !.watched = w, !.stale = st,
                       !.offset = checkpoint.offset, !.buffer = checkpoint.buffer]
      BY <2>1
    <3> QED BY <2>1, <3>1, <3>2, <3>3
  <2>2. CASE /\ engine' = [[engine EXCEPT !.pc = "read", !.watched = w, !.stale = st]
                             EXCEPT !.offset = start]
             /\ screen' = [Blank EXCEPT !.jumps = {start}, !.gaps = 0..(start - 1)]
    <3>1. engine \in EngineType
      BY Facts
    <3>2. engine' = [engine EXCEPT !.pc = "read", !.watched = w, !.stale = st,
                       !.offset = start, !.buffer = "empty"]
      BY <1>4, <2>2, <3>1 DEF EngineType
    <3>3. screen' \in ScreenType /\ Pure(written, screen') /\ Sound(written, start, "empty", screen')
      BY <1>7, <2>2, FreshIs
    <3>4. "empty" \in Buffers
      BY DEF Buffers
    <3> QED BY <1>7, <1>8, <3>2, <3>3, <3>4
  <2> QED BY <1>9, <2>1, <2>2
<1>11. PICK o \in Nat, u \in Buffers :
         /\ engine' = [engine EXCEPT !.pc = "read", !.watched = w, !.stale = st, !.offset = o,
                                     !.buffer = u]
         /\ o <= m /\ screen' \in ScreenType
         /\ Pure(written, screen') /\ Sound(written, o, u, screen')
         /\ \/ checkpoint # None /\ o = checkpoint.offset
            \/ o = start
  BY <1>10
<1>12. /\ engine' \in EngineType /\ engine'.pc = "read" /\ engine'.inc = engine.inc
       /\ engine'.floor = engine.floor /\ engine'.handle = h /\ engine'.watched = w
       /\ engine'.offset = o /\ engine'.buffer = u /\ engine'.ghost = engine.ghost
  <2>1. w \in Nat /\ st \in BOOLEAN /\ engine \in EngineType /\ o \in Nat /\ u \in Buffers
    <3>1. w \in Nat
      BY <1>3, <1>9
    <3>2. st \in BOOLEAN /\ o \in Nat /\ u \in Buffers
      BY <1>9, <1>11
    <3>3. engine \in EngineType
      BY Facts
    <3> QED BY <3>1, <3>2, <3>3
  <2>2. engine' = [engine EXCEPT !.pc = "read", !.watched = w, !.stale = st, !.offset = o,
                                 !.buffer = u]
    BY <1>11
  <2> QED BY <1>3, <2>1, <2>2 DEF EngineType, Pc
<1>13. Watching' /\ Attached' /\ engine.pc \notin {"launch", "attach"} /\ Attached
  BY <1>1, <1>12 DEF Watching, Attached
<1>14. EngineShape'
  <2>1. engine.floor <= m /\ h <= k /\ w <= k
    <3>1. engine.floor <= m
      BY <1>3, Facts
    <3>2. h <= k
      BY <1>3, <1>4
    <3>3. w <= k
      BY <1>3, <1>9
    <3> QED BY <3>1, <3>2, <3>3
  <2> QED BY <1>2, <1>3, <1>11, <1>12, <2>1 DEF EngineShape
<1>15. ScreenShape'
  BY <1>1, <1>2, <1>11 DEF HeldInv, ScreenShape
<1>16. Markers'
  BY <1>2, <1>12 DEF HeldInv, Markers, NotEndAt
<1>17. Screens'
  BY <1>1, <1>2, <1>11, <1>12 DEF HeldInv, Screens
<1>18. Owned'
  <2>1. \A i \in 1..Len(written') : i > holder'.epoch => written'[i].inc = holder'.inc
    BY <1>2 DEF HeldInv, Owned
  <2>2. exit' = None /\ ExitIsOwn'
    BY <1>1, <1>4 DEF ExitIsOwn
  <2>3. engine'.inc = holder'.inc
    BY <1>2, <1>12, <1>13 DEF HeldInv, Owned
  <2>4. engine'.watched \notin 1..(Len(files') - 1)
    BY <1>2, <1>3, <1>9, <1>12
  <2>5. engine.floor >= holder.epoch \/ (Stranded /\ holder.phase \in {"leaving", "gone"})
    BY <1>13 DEF HeldInv, Owned
  <2>6. Stranded => Stranded'
    BY <1>2, <1>3, <1>12 DEF Stranded
  <2> QED BY <1>2, <1>12, <2>1, <2>2, <2>3, <2>4, <2>5, <2>6 DEF Owned
<1>19. LastMark'
  <2>1. /\ \A i \in 1..Len(written) : written[i].inc <= holder.inc
        /\ \A i \in 1..Len(written) : i <= holder.epoch => written[i].inc < holder.inc
        /\ \A i \in 1..Len(written) :
             OwnEnd(i) => i = Len(written) /\ holder.phase \in {"marked", "leaving", "gone"}
        /\ ~engine.ghost => \A i \in 1..Len(written) : OwnEnd(i) => i > engine.floor
        /\ ~engine.ghost /\ checkpoint # None =>
             \A i \in 1..Len(written) : OwnEnd(i) => i > checkpoint.offset + 1
    BY <1>1, <1>13 DEF HeldInv, LastMark
  <2>2. ASSUME ~engine.ghost, NEW i \in 1..Len(written), OwnEnd(i) PROVE i > o + 1
    <3>1. CASE checkpoint # None /\ o = checkpoint.offset
      BY <2>1, <2>2, <3>1
    <3>2. CASE o = start
      <4>1. i = m /\ i > 1
        BY <1>3, <2>1, <2>2 DEF HeldInv, Markers, OwnEnd
      <4> QED BY <1>3, <1>7, <1>8, <3>2, <4>1
    <3> QED BY <1>11, <3>1, <3>2
  <2>3. \A i : OwnEnd(i)' <=> OwnEnd(i)
    BY <1>2 DEF OwnEnd
  <2>4. ASSUME ~engine.ghost, NEW i \in 1..Len(written), OwnEnd(i) PROVE i > o /\ i # o + 1
    BY <1>3, <1>11, <2>2, <2>4
  <2> QED BY <1>1, <1>2, <1>12, <2>1, <2>3, <2>4 DEF LastMark
<1>20. Outran'
  BY <1>12 DEF Outran
<1> QED BY <1>2, <1>14, <1>15, <1>16, <1>17, <1>18, <1>19, <1>20 DEF HeldInv

\* What two sequences joined hold.
LEMMA Joined ==
  ASSUME NEW q \in Seq(Nat), NEW p \in Seq(Nat)
  PROVE  /\ q \o p \in Seq(Nat) /\ Len(q) \in Nat /\ Len(p) \in Nat
         /\ Len(q \o p) = Len(q) + Len(p)
         /\ \A i \in 1..Len(q) : (q \o p)[i] = q[i] /\ i \in 1..Len(q \o p) /\ q[i] \in Nat
         /\ \A i \in 1..Len(p) :
              /\ (q \o p)[Len(q) + i] = p[i] /\ Len(q) + i \in 1..Len(q \o p)
              /\ p[i] \in Nat
  OBVIOUS

\* What a read adds to a screen.
Added(scr, off, s, f) ==
  [shown |-> scr.shown \o f.out, gaps |-> scr.gaps \cup off..(s - 1),
   jumps |-> IF s > off THEN scr.jumps \cup {s} ELSE scr.jumps]
Begun(s, off, buf) == IF s > off THEN "empty" ELSE buf

\* A read keeps the screen sound.
LEMMA ReadShows ==
  ASSUME LogShape, NEW scr \in ScreenType, NEW off \in Nat, NEW buf,
         Pure(written, scr), Sound(written, off, buf, scr),
         NEW s \in Nat, NEW e \in Nat, off <= s, s < e, e <= Len(written),
         NEW f, Told(f, s, e, Begun(s, off, buf)),
         NEW shown, shown = Added(scr, off, s, f)
  PROVE  shown \in ScreenType /\ Pure(written, shown) /\ Sound(written, e, f.buffer, shown)
<1>1. PICK m \in Nat : m = Len(written)
  BY DEF LogShape
<1>2. PICK q, p \in Seq(Nat) : q = scr.shown /\ p = f.out
  BY DEF ScreenType, Told, FedType
<1>3. PICK r \in Seq(Nat) : r = q \o p
  BY <1>2, Joined
<1>4. PICK lq, lp \in Nat : lq = Len(q) /\ lp = Len(p)
  BY <1>2, Joined
<1>5. /\ Len(r) = lq + lp
      /\ \A i \in 1..lq : r[i] = q[i] /\ i \in 1..Len(r) /\ q[i] \in Nat
      /\ \A i \in 1..lp : r[lq + i] = p[i] /\ lq + i \in 1..Len(r) /\ p[i] \in Nat
  <2>1. Len(q \o p) = Len(q) + Len(p)
    BY <1>2, Joined
  <2>2. \A i \in 1..Len(q) : (q \o p)[i] = q[i] /\ i \in 1..Len(q \o p) /\ q[i] \in Nat
    BY <1>2, Joined
  <2>3. \A i \in 1..Len(p) :
          /\ (q \o p)[Len(q) + i] = p[i] /\ Len(q) + i \in 1..Len(q \o p) /\ p[i] \in Nat
    BY <1>2, Joined
  <2> QED BY <1>3, <1>4, <2>1, <2>2, <2>3
<1>6. PICK g \in SUBSET Int : g = scr.gaps \cup off..(s - 1)
  <2>1. scr.gaps \subseteq Int
    BY DEF ScreenType
  <2>2. scr.gaps \cup off..(s - 1) \in SUBSET Int
    BY <2>1
  <2> QED BY <2>2
<1>7. PICK j \in SUBSET Nat : j = IF s > off THEN scr.jumps \cup {s} ELSE scr.jumps
  <2>1. scr.jumps \subseteq Nat
    BY DEF ScreenType
  <2>2. (IF s > off THEN scr.jumps \cup {s} ELSE scr.jumps) \in SUBSET Nat
    BY <2>1
  <2> QED BY <2>2
<1>8. shown = [shown |-> r, gaps |-> g, jumps |-> j]
  BY <1>2, <1>3, <1>6, <1>7 DEF Added
<1>9. shown \in ScreenType /\ shown.shown = r /\ shown.gaps = g /\ shown.jumps = j
  <2>1. \A x \in Seq(Nat), y \in SUBSET Int, z \in SUBSET Nat :
          [shown |-> x, gaps |-> y, jumps |-> z] \in ScreenType
    BY DEF ScreenType
  <2>2. shown \in ScreenType
    BY <1>3, <1>6, <1>7, <1>8, <2>1
  <2>3. shown.shown = r /\ shown.gaps = g /\ shown.jumps = j
    BY <1>8
  <2> QED BY <2>2, <2>3
<1>19. Told(f, s, e, IF s > off THEN "empty" ELSE buf)
  BY DEF Begun
<1>10. ASSUME NEW i \in 1..Len(r)
       PROVE  \/ i \in 1..lq /\ r[i] = q[i] /\ q[i] \in Nat
              \/ i > lq /\ i - lq \in 1..lp /\ r[i] = p[i - lq] /\ p[i - lq] \in Nat
  <2>1. CASE i <= lq
    <3>1. i \in 1..lq
      BY <1>4, <1>5, <2>1
    <3> QED BY <1>5, <3>1
  <2>2. CASE i > lq
    <3>1. i - lq \in 1..lp /\ lq + (i - lq) = i
      BY <1>4, <1>5, <2>2
    <3>2. r[i] = p[i - lq]
      BY <1>5, <3>1
    <3>3. p[i - lq] \in Nat
      BY <1>5, <3>1
    <3> QED BY <2>2, <3>1, <3>2, <3>3
  <2> QED BY <1>4, <1>5, <2>1, <2>2
\* the units that were there, and those that were read
<1>11. \A i \in 1..lq : q[i] \in Nat /\ q[i] < off /\ q[i] < m
  BY <1>1, <1>2, <1>4, <1>5 DEF Sound, Pure
<1>12. \A i \in 1..lp : p[i] \in Nat /\ p[i] >= s /\ p[i] < e
  BY <1>2, <1>4, <1>5 DEF Told
<1>13. Pure(written, shown)
  <2>1. ASSUME NEW i \in 1..Len(r)
        PROVE  r[i] < m /\ (written[r[i] + 1].kind = "out" \/ r[i] \in j)
    <3>1. CASE i \in 1..lq /\ r[i] = q[i]
      <4>1. q[i] < m /\ (written[q[i] + 1].kind = "out" \/ q[i] \in scr.jumps)
        BY <1>1, <1>2, <1>4, <3>1 DEF Pure
      <4> QED BY <1>7, <3>1, <4>1
    <3>2. CASE i - lq \in 1..lp /\ r[i] = p[i - lq]
      <4>1. PICK x \in Nat : x = p[i - lq] /\ x >= s /\ x < e
        BY <1>12, <3>2
      <4>2. \/ written[x + 1].kind = "out"
            \/ x = s /\ (s > off \/ buf = "empty") /\ written[s + 1].kind = "end"
        BY <1>2, <1>4, <1>19, <3>2, <4>1 DEF Told
      <4>3. x = s /\ (s > off \/ buf = "empty") /\ written[s + 1].kind = "end" => x \in j
        <5> SUFFICES ASSUME x = s, s > off \/ buf = "empty", written[s + 1].kind = "end"
                     PROVE  s \in j
          OBVIOUS
        <5>1. CASE s > off
          BY <1>7, <5>1
        <5>2. CASE s = off /\ buf = "empty"
          <6>1. off < Len(written) /\ written[off + 1].kind = "end"
            BY <1>1, <5>2
          <6>2. off \in scr.jumps
            BY <5>2, <6>1 DEF Sound
          <6> QED BY <1>7, <5>2, <6>2
        <5> QED BY <5>1, <5>2
      <4>4. x < m
        <5>1. \A y \in Nat : y < e /\ e <= m => y < m
          OBVIOUS
        <5>2. e <= m
          BY <1>1
        <5> QED BY <4>1, <5>1, <5>2
      <4> QED BY <3>2, <4>1, <4>2, <4>3, <4>4
    <3> QED BY <1>10, <3>1, <3>2
  <2> QED BY <1>1, <1>9, <2>1 DEF Pure
<1>14. ASSUME NEW i \in 1..Len(r) PROVE r[i] < e
  <2>1. CASE i \in 1..lq /\ r[i] = q[i]
    BY <1>11, <2>1
  <2>2. CASE i - lq \in 1..lp /\ r[i] = p[i - lq]
    BY <1>12, <2>2
  <2> QED BY <1>10, <2>1, <2>2
<1>15. ASSUME NEW i \in 1..Len(r), NEW k \in 1..Len(r), i < k PROVE r[i] < r[k]
  <2>1. CASE i \in 1..lq /\ r[i] = q[i] /\ k \in 1..lq /\ r[k] = q[k]
    BY <1>2, <1>4, <1>15, <2>1 DEF Sound
  <2>2. CASE i \in 1..lq /\ r[i] = q[i] /\ k - lq \in 1..lp /\ r[k] = p[k - lq]
    <3>1. q[i] \in Nat /\ q[i] < off
      BY <1>11, <2>2
    <3>2. p[k - lq] \in Nat /\ p[k - lq] >= s
      BY <1>12, <2>2
    <3>3. \A x, y \in Nat : x < off /\ y >= s => x < y
      OBVIOUS
    <3> QED BY <2>2, <3>1, <3>2, <3>3
  <2>3. CASE i > lq /\ i - lq \in 1..lp /\ r[i] = p[i - lq] /\ k - lq \in 1..lp /\ r[k] = p[k - lq]
    <3>1. i - lq < k - lq
      BY <1>4, <1>5, <1>15
    <3>2. p[i - lq] < p[k - lq]
      BY <1>2, <1>4, <2>3, <3>1 DEF Told
    <3> QED BY <2>3, <3>2
  <2>4. ~(i > lq /\ k \in 1..lq)
    BY <1>4, <1>5, <1>15
  <2> QED BY <1>10, <2>1, <2>2, <2>3, <2>4
<1>16. ASSUME NEW o \in 0..(e - 1), written[o + 1].kind = "out"
       PROVE  Shows(r, o) \/ o \in g \/ Tear(written)
  <2>1. CASE o < off
    <3>1. o \in 0..(off - 1)
      BY <2>1
    <3>2. Shows(q, o) \/ o \in scr.gaps \/ Tear(written)
      BY <1>2, <1>16, <3>1 DEF Sound
    <3>3. ASSUME Shows(q, o) PROVE Shows(r, o)
      <4>1. PICK i \in 1..lq : q[i] = o
        BY <1>4, <3>3 DEF Shows
      <4>2. i \in 1..Len(r) /\ r[i] = o
        BY <1>5, <4>1
      <4> QED BY <4>2 DEF Shows
    <3> QED BY <1>6, <3>2, <3>3
  <2>2. CASE o >= off /\ o < s
    BY <1>6, <2>2
  <2>3. CASE o >= s
    <3>1. o \in s..(e - 1)
      BY <2>3
    <3>2. Shows(p, o) \/ Torn
      BY <1>2, <1>16, <3>1 DEF Told
    <3>3. ASSUME Shows(p, o) PROVE Shows(r, o)
      <4>1. PICK i \in 1..lp : p[i] = o
        BY <1>4, <3>3 DEF Shows
      <4>2. lq + i \in 1..Len(r) /\ r[lq + i] = o
        BY <1>5, <4>1
      <4> QED BY <4>2 DEF Shows
    <3> QED BY <3>2, <3>3, TornIs
  <2> QED BY <2>1, <2>2, <2>3
<1>17. /\ f.buffer # "empty" => Tear(written) \/ (e > 0 /\ written[e].kind = "head")
       /\ f.buffer = "junk" => Tear(written)
       /\ e < Len(written) /\ written[e + 1].kind = "end" => f.buffer # "empty"
  BY TornIs DEF Told
<1>18. Sound(written, e, f.buffer, shown)
  BY <1>9, <1>14, <1>15, <1>16, <1>17 DEF Sound
<1> QED BY <1>9, <1>13, <1>18

\* What one round of the pump reads, and what it makes of it.
LEMMA ReadChunkIs ==
  ASSUME Limits, HeldInv, ReadChunk
  PROVE  \E s, e, b, t, from \in Nat :
           /\ Extent(s, e, b, t, from) /\ s < e
           /\ Told(Fed(s, e), s, e, Begun(s, engine.offset, engine.buffer))
           /\ \E d \in BOOLEAN, pc \in {"read", "exited"} :
                /\ engine' = [engine EXCEPT !.handle = Handle, !.offset = e,
                                !.buffer = Fed(s, e).buffer, !.dirty = d, !.pc = pc]
                /\ pc = "read" <=> Fed(s, e).exit = None
           /\ screen' = Added(screen, engine.offset, s, Fed(s, e))
           /\ exit' = IF Fed(s, e).exit = None THEN exit ELSE Fed(s, e).exit
<1>1. PICK s, e, b, t, from \in Nat : Extent(s, e, b, t, from)
  BY ReadingIs
<1>2. /\ Reading.start = s /\ Reading.end = e
      /\ engine.offset <= from /\ from <= s /\ e <= t /\ t <= Len(written)
  BY <1>1 DEF Extent
<1>3. ~Empty(Reading) /\ ~Underflows(Reading)
      /\ \E fed \in {Fed(s, e)} :
            /\ engine' = [engine EXCEPT
                 !.handle = Handle, !.offset = e, !.buffer = fed.buffer,
                 !.dirty = @ \/ fed.out # <<>>,
                 !.pc = IF fed.exit = None THEN "read" ELSE "exited"]
            /\ screen' = [
                 shown |-> screen.shown \o fed.out,
                 gaps |-> screen.gaps \cup engine.offset..(s - 1),
                 jumps |-> IF s > engine.offset THEN screen.jumps \cup {s}
                           ELSE screen.jumps]
            /\ exit' = IF fed.exit = None THEN exit ELSE fed.exit
  BY <1>2 DEF ReadChunk
<1>4. s # e /\ ~(e < s)
  BY <1>2, <1>3 DEF Empty, Underflows
<1>5. s \in Nat /\ e \in Nat
  BY <1>1
<1>6. s < e
  BY <1>4, <1>5
<1>7. engine.pc = "read"
  BY DEF ReadChunk
<1>8. PICK m, off \in Nat : m = Len(written) /\ off = engine.offset
  BY Facts
<1>9. off <= s /\ e <= m
  <2>1. from \in Nat /\ t \in Nat
    BY <1>1
  <2> QED BY <1>2, <1>5, <1>8, <2>1
<1>10. Sound(written, off, engine.buffer, screen)
  BY <1>7, <1>8 DEF HeldInv, Screens, Watching
<1>11. Told(Fed(s, e), s, e, Begun(s, off, engine.buffer))
  <2>1. PICK u : u = IF s > off THEN "empty" ELSE engine.buffer
    OBVIOUS
  <2>2. u # "empty" => s = off /\ u = engine.buffer
    BY <1>5, <1>8, <1>9, <2>1
  <2>3. u # "empty" => Torn \/ (s > 0 /\ written[s].kind = "head")
    BY <1>10, <2>2, TornIs DEF Sound, HeldInv
  <2>4. u = "junk" => Torn
    BY <1>10, <2>2, TornIs DEF Sound, HeldInv
  <2>5. s <= e
    BY <1>5, <1>6
  <2>6. u = IF s > engine.offset THEN "empty" ELSE engine.buffer
    BY <1>8, <2>1
  <2>7. LogShape /\ EngineShape /\ Markers
    BY DEF HeldInv
  <2>8. Told(Fed(s, e), s, e, u)
    BY <1>5, <1>8, <1>9, <2>3, <2>4, <2>5, <2>6, <2>7, FedTells
  <2> QED BY <2>1, <2>8 DEF Begun
<1>12. PICK d \in BOOLEAN : d = (engine.dirty \/ Fed(s, e).out # <<>>)
  <2>1. engine.dirty \in BOOLEAN
    BY Facts DEF EngineType
  <2> QED BY <2>1
<1>13. PICK pc \in {"read", "exited"} :
         pc = IF Fed(s, e).exit = None THEN "read" ELSE "exited"
  OBVIOUS
<1>14. engine' = [engine EXCEPT !.handle = Handle, !.offset = e, !.buffer = Fed(s, e).buffer,
                                !.dirty = d, !.pc = pc]
  BY <1>3, <1>12, <1>13
<1>15. pc = "read" <=> Fed(s, e).exit = None
  BY <1>13
<1>16. screen' = Added(screen, engine.offset, s, Fed(s, e))
       /\ exit' = IF Fed(s, e).exit = None THEN exit ELSE Fed(s, e).exit
  BY <1>3 DEF Added
<1>17. \E x \in BOOLEAN, y \in {"read", "exited"} :
         /\ engine' = [engine EXCEPT !.handle = Handle, !.offset = e,
                         !.buffer = Fed(s, e).buffer, !.dirty = x, !.pc = y]
         /\ y = "read" <=> Fed(s, e).exit = None
  BY <1>12, <1>13, <1>14, <1>15
<1> QED BY <1>1, <1>6, <1>8, <1>11, <1>16, <1>17

\* A round of the pump that finds output.
LEMMA ReadChunkKeepsInv ==
  ASSUME Limits, HeldInv, ReadChunk
  PROVE  HeldInv'
<1>1. PICK s, e, b, t, from \in Nat :
           /\ Extent(s, e, b, t, from) /\ s < e
           /\ Told(Fed(s, e), s, e, Begun(s, engine.offset, engine.buffer))
           /\ \E d \in BOOLEAN, pc \in {"read", "exited"} :
                /\ engine' = [engine EXCEPT !.handle = Handle, !.offset = e,
                                !.buffer = Fed(s, e).buffer, !.dirty = d, !.pc = pc]
                /\ pc = "read" <=> Fed(s, e).exit = None
           /\ screen' = Added(screen, engine.offset, s, Fed(s, e))
           /\ exit' = IF Fed(s, e).exit = None THEN exit ELSE Fed(s, e).exit
  BY ReadChunkIs
<1>2. PICK fed : fed = Fed(s, e)
  OBVIOUS
<1>3. PICK m, k, off, h \in Nat :
        m = Len(written) /\ k = Len(files) /\ off = engine.offset /\ h = Handle
  BY Facts, HandleIs
<1>4. h \in 1..k /\ (engine.handle \in 1..(k - 1) => h = engine.handle)
  BY <1>3, HandleIs
<1>5. /\ off <= s /\ e <= m /\ e <= t /\ t <= m /\ t = files[h].tail
      /\ s > off => s + 2 <= m
  <2>1. /\ b = files[h].base /\ t = files[h].tail
        /\ off <= from /\ from <= s /\ e <= t /\ t <= m
        /\ s > off => s <= b
        /\ b > 0 => b + DiskCapacity \div 2 <= t
    BY <1>1, <1>3 DEF Extent
  <2>2. PICK half \in Nat : half = DiskCapacity \div 2 /\ half >= 2
    BY Halves
  <2>3. s \in Nat /\ e \in Nat /\ b \in Nat /\ t \in Nat /\ from \in Nat /\ off \in Nat
        /\ m \in Nat
    BY <1>1, <1>3
  <2>4. off <= s /\ e <= m
    BY <2>1, <2>3
  <2>5. s > off => s + 2 <= m
    BY <2>1, <2>2, <2>3
  <2> QED BY <2>1, <2>4, <2>5
<1>6. PICK d \in BOOLEAN, pc \in {"read", "exited"} :
        /\ engine' = [engine EXCEPT !.handle = h, !.offset = e, !.buffer = fed.buffer,
                        !.dirty = d, !.pc = pc]
        /\ pc = "read" <=> fed.exit = None
  BY <1>1, <1>2, <1>3
<1>7. /\ Told(fed, s, e, Begun(s, off, engine.buffer)) /\ s < e
      /\ screen' = Added(screen, off, s, fed)
      /\ exit' = IF fed.exit = None THEN exit ELSE fed.exit
  BY <1>1, <1>2, <1>3
<1>8. fed \in FedType /\ fed.buffer \in Buffers /\ fed.exit \in ExitType \cup {None}
  BY <1>7 DEF Told, FedType
<1>9. /\ engine' \in EngineType /\ engine'.inc = engine.inc /\ engine'.floor = engine.floor
      /\ engine'.offset = e /\ engine'.buffer = fed.buffer
      /\ engine'.ghost = engine.ghost /\ engine'.handle = h
      /\ engine'.watched = engine.watched /\ engine'.pc = pc
  <2>1. engine \in EngineType /\ pc \in Pc /\ e \in Nat /\ h \in Nat /\ d \in BOOLEAN
    BY <1>1, <1>3, <1>6, Facts DEF Pc
  <2>2. engine' = [engine EXCEPT !.handle = h, !.offset = e, !.buffer = fed.buffer,
                     !.dirty = d, !.pc = pc]
    BY <1>6
  <2> QED BY <1>8, <2>1, <2>2 DEF EngineType
<1>10. engine.pc = "read" /\ Watching /\ Attached /\ UNCHANGED holderVars
       /\ checkpoint' \in {checkpoint, Saved(engine', screen')}
  BY DEF ReadChunk, Watching, Attached, PersistCheckpoint
<1>11. /\ written' = written /\ files' = files /\ holder' = holder /\ pty' = pty
       /\ LogShape' /\ HolderShape' /\ (Torn' <=> Torn)
  BY <1>10, LogStill
<1>12. LogShape /\ screen \in ScreenType /\ Pure(written, screen)
       /\ Sound(written, off, engine.buffer, screen)
  BY <1>3, <1>10 DEF HeldInv, ScreenShape, Screens
<1>13. screen' \in ScreenType /\ Pure(written, screen') /\ Sound(written, e, fed.buffer, screen')
  <2>1. e <= Len(written) /\ off \in Nat /\ s \in Nat /\ e \in Nat
    BY <1>1, <1>3, <1>5
  <2> QED BY <1>5, <1>7, <1>12, <2>1, ReadShows
<1>14. checkpoint' # None =>
           /\ checkpoint' \in [offset : Nat, screen : ScreenType, buffer : Buffers]
           /\ checkpoint'.offset <= Len(written')
           /\ Pure(written', checkpoint'.screen)
           /\ Sound(written', checkpoint'.offset, checkpoint'.buffer, checkpoint'.screen)
  <2>1. PICK eng : eng = engine'
    OBVIOUS
  <2>2. PICK scr : scr = screen'
    OBVIOUS
  <2>3. /\ scr \in ScreenType /\ eng.offset \in Nat /\ eng.offset <= Len(written)
        /\ eng.buffer \in Buffers /\ Pure(written, scr)
        /\ Sound(written, eng.offset, eng.buffer, scr)
    BY <1>1, <1>3, <1>5, <1>8, <1>9, <1>13, <2>1, <2>2
  <2>4. checkpoint' \in {checkpoint, Saved(eng, scr)}
    BY <1>10, <2>1, <2>2
  <2> QED BY <1>10, <2>3, <2>4, CheckpointKeeps
<1>15. (Watching' <=> pc = "read") /\ (Attached' <=> pc = "read")
       /\ engine'.pc \notin {"launch", "attach", "start", "panicked"}
  BY <1>6, <1>9 DEF Watching, Attached
<1>16. EngineShape'
  <2>1. engine.floor <= m /\ engine.watched <= k /\ h <= k
    BY <1>3, <1>4, Facts
  <2> QED BY <1>3, <1>5, <1>9, <1>11, <1>15, <2>1 DEF EngineShape
<1>17. ScreenShape'
  <2>1. exit' \in ExitType \cup {None}
    BY <1>7, <1>8 DEF HeldInv, ScreenShape
  <2> QED BY <1>13, <1>14, <2>1 DEF ScreenShape
<1>18. Markers'
  BY <1>9, <1>11 DEF HeldInv, Markers, NotEndAt
<1>19. Screens'
  BY <1>9, <1>11, <1>13, <1>14 DEF Screens
<1>20. PICK fl, ep, n \in Nat : fl = engine.floor /\ ep = holder.epoch /\ n = holder.inc
  BY Facts
<1>21. /\ exit = None /\ engine.inc = n
       /\ \/ fl >= ep
          \/ /\ Stranded /\ holder.phase \in {"leaving", "gone"}
             /\ engine.watched \notin 1..(k - 1)
  BY <1>3, <1>10, <1>20 DEF HeldInv, Owned
<1>22. \A i \in 1..m : i > ep => written[i].inc = n
  BY <1>3, <1>20 DEF HeldInv, Owned
\* a reader of a file that is gone for good never gets as far as the floor
<1>23. Stranded => h = engine.handle /\ fl >= t
  BY <1>3, <1>4, <1>5, <1>20 DEF Stranded
<1>24. ExitIsOwn'
  <2>1. CASE fed.exit = None
    BY <1>7, <1>21, <2>1 DEF ExitIsOwn
  <2>2. CASE fed.exit # None
    <3>1. PICK x \in s..(e - 1) :
            /\ x >= engine.floor /\ written[x + 1].kind = "end"
            /\ fed.exit = [how |-> "marker", inc |-> written[x + 1].inc]
      BY <1>7, <2>2 DEF Told
    <3>2. x \in Nat /\ x < e /\ x >= fl /\ x + 1 \in 1..m /\ x < t
      <4>1. s \in Nat /\ e \in Nat /\ t \in Nat /\ m \in Nat
        BY <1>1, <1>3
      <4>2. x \in Nat /\ x < e
        BY <3>1, <4>1
      <4>3. e <= m /\ e <= t /\ x >= fl
        BY <1>5, <1>20, <3>1
      <4> QED BY <4>1, <4>2, <4>3
    <3>3. ~Stranded
      BY <1>1, <1>20, <1>23, <3>2
    <3>4. x + 1 > ep
      BY <1>20, <1>21, <3>2, <3>3
    <3>5. written[x + 1].inc = n
      BY <1>22, <3>2, <3>4
    <3>6. exit'.inc = n
      BY <1>7, <2>2, <3>1, <3>5
    <3> QED BY <1>9, <1>21, <3>6 DEF ExitIsOwn
  <2> QED BY <2>1, <2>2
<1>25. Owned'
  <2>1. \A i \in 1..Len(written') : i > holder'.epoch => written'[i].inc = holder'.inc
    BY <1>11 DEF HeldInv, Owned
  <2>2. pc = "read" => exit' = None
    BY <1>6, <1>7, <1>21
  <2>3. Stranded => Stranded'
    BY <1>3, <1>9, <1>11, <1>20, <1>23 DEF Stranded
  <2>4. engine'.inc = holder'.inc
    BY <1>9, <1>11, <1>20, <1>21
  <2>5. \/ engine'.floor >= holder'.epoch
        \/ /\ Stranded' /\ holder'.phase \in {"leaving", "gone"}
           /\ engine'.watched \notin 1..(Len(files') - 1)
    BY <1>3, <1>9, <1>11, <1>20, <1>21, <2>3
  <2> QED BY <1>15, <1>24, <2>1, <2>2, <2>4, <2>5 DEF Owned
<1>26. LastMark'
  <2>1. /\ \A i \in 1..Len(written) : written[i].inc <= holder.inc
        /\ \A i \in 1..Len(written) : i <= holder.epoch => written[i].inc < holder.inc
        /\ \A i \in 1..Len(written) :
             OwnEnd(i) => i = Len(written) /\ holder.phase \in {"marked", "leaving", "gone"}
        /\ ~engine.ghost => \A i \in 1..Len(written) : OwnEnd(i) => i > engine.floor
        /\ ~engine.ghost /\ ~Torn =>
             \A i \in 1..Len(written) :
               OwnEnd(i) => /\ i > engine.offset
                            /\ i = engine.offset + 1 => engine.buffer = "marker"
    BY <1>10 DEF HeldInv, LastMark
  <2>2. \A i : OwnEnd(i)' <=> OwnEnd(i)
    BY <1>11 DEF OwnEnd
  <2>3. ASSUME pc = "read", ~engine.ghost, ~Torn, NEW i \in 1..m, OwnEnd(i)
        PROVE  i > e /\ (i = e + 1 => fed.buffer = "marker")
    <3>1. /\ i = m /\ i > off /\ i > fl /\ (i = off + 1 => engine.buffer = "marker")
          /\ written[i].kind = "end"
      BY <1>3, <1>20, <2>1, <2>3 DEF OwnEnd
    <3>2. i > e
      <4> SUFFICES ASSUME i <= e PROVE FALSE
        BY <1>1, <1>3
      <4>0. off \in Nat /\ fl \in Nat /\ e \in Nat /\ m \in Nat /\ i > off /\ i > fl
        BY <1>1, <1>3, <1>20, <3>1
      <4>1. PICK x \in Nat : x = i - 1 /\ x + 1 = i /\ x < e /\ x >= off /\ x >= fl
        <5>1. i - 1 \in Nat /\ (i - 1) + 1 = i /\ i - 1 < e /\ i - 1 >= off /\ i - 1 >= fl
          BY <4>0
        <5> QED BY <5>1
      <4>2. x >= s /\ (x = s => s = off)
        <5>1. s \in Nat /\ i = m /\ off <= s /\ (s > off => s + 2 <= m)
          BY <1>1, <1>5, <3>1
        <5> QED BY <4>0, <4>1, <5>1
      <4>3. x > s \/ Begun(s, off, engine.buffer) = "marker"
        <5>1. CASE x = s
          <6>1. s = off
            BY <4>2, <5>1
          <6>2. ~(s > off)
            BY <4>0, <6>1
          <6>3. i = off + 1
            BY <4>1, <5>1, <6>1
          <6> QED BY <3>1, <6>1, <6>2, <6>3 DEF Begun
        <5>2. CASE x # s
          BY <1>1, <4>1, <4>2, <5>2
        <5> QED BY <5>1, <5>2
      <4>4. x \in s..(e - 1)
        BY <1>1, <4>1, <4>2
      <4>5. x >= engine.floor /\ written[x + 1].kind = "end"
        BY <1>20, <3>1, <4>1
      <4>6. fed.exit # None
        BY <1>7, <2>3, <4>3, <4>4, <4>5 DEF Told
      <4> QED BY <1>6, <2>3, <4>6
    <3>3. ASSUME i = e + 1 PROVE fed.buffer = "marker"
      <4>1. e < Len(written) /\ written[e + 1].kind = "end" /\ e > s
        BY <1>1, <1>3, <1>7, <3>1, <3>3
      <4>2. fed.buffer # "empty" /\ fed.buffer # "junk"
        BY <1>7, <2>3, <4>1 DEF Told
      <4> QED BY <1>8, <4>2 DEF Buffers
    <3> QED BY <3>2, <3>3
  <2> QED BY <1>3, <1>9, <1>11, <1>15, <2>1, <2>2, <2>3 DEF LastMark
<1>27. Outran'
  BY <1>15 DEF Outran
<1> QED BY <1>11, <1>16, <1>17, <1>18, <1>19, <1>25, <1>26, <1>27 DEF HeldInv

-----------------------------------------------------------------------------
\* The invariant holds before anything was launched.
LEMMA InitInv ==
  ASSUME Limits, Init
  PROVE  HeldInv
<1>1. written = <<>> /\ Len(written) = 0 /\ 1..Len(written) = {}
  BY DEF Init
<1>2. /\ files = <<[base |-> 0, tail |-> 0, bytes |-> 0]>> /\ Len(files) = 1 /\ 1..Len(files) = {1}
      /\ files[1].tail = 0 /\ files[1].base = 0 /\ files[1].bytes = 0
  BY DEF Init
<1>3. /\ holder = [phase |-> "none", inc |-> 0, epoch |-> 0, child |-> FALSE, writes |-> FALSE]
      /\ pty = 0 /\ screen = Blank /\ checkpoint = None /\ exit = None
  BY DEF Init
<1>4. engine = [pc |-> "down", inc |-> 0, ghost |-> FALSE, floor |-> 0, handle |-> 1,
                opened |-> 0, watched |-> 0, stale |-> FALSE, offset |-> 0, buffer |-> "empty",
                replaying |-> TRUE, dirty |-> FALSE]
  <2>1. Opened("down") = [pc |-> "down", inc |-> 0, ghost |-> FALSE, floor |-> 0, handle |-> 1,
                          opened |-> 0, watched |-> 0, stale |-> FALSE, offset |-> 0,
                          buffer |-> "empty", replaying |-> TRUE, dirty |-> FALSE]
    BY <1>2 DEF Opened, Current, FileTail
  <2>2. engine = [Opened("down") EXCEPT !.handle = 1]
    BY DEF Init
  <2>3. PICK e \in EngineType :
          e = [pc |-> "down", inc |-> 0, ghost |-> FALSE, floor |-> 0, handle |-> 1,
               opened |-> 0, watched |-> 0, stale |-> FALSE, offset |-> 0,
               buffer |-> "empty", replaying |-> TRUE, dirty |-> FALSE]
    BY DEF EngineType, Pc, Buffers
  <2>4. Opened("down") = e
    BY <2>1, <2>3
  <2>5. engine = [e EXCEPT !.handle = 1]
    BY <2>2, <2>4
  <2>6. engine = e
    BY <2>3, <2>5 DEF EngineType
  <2> QED BY <2>3, <2>6
<1>5. /\ engine.pc = "down" /\ engine.floor = 0 /\ engine.handle = 1 /\ engine.watched = 0
      /\ engine.offset = 0 /\ engine.buffer = "empty"
  BY <1>4
<1>6. ~Watching /\ ~Attached
  BY <1>5 DEF Watching, Attached
<1>7. LogShape
  <2>1. written \in Seq(UnitType)
    BY <1>1
  <2>2. files \in Seq(FileType)
    <3>1. PICK f \in FileType : f = [base |-> 0, tail |-> 0, bytes |-> 0]
      BY DEF FileType
    <3> QED BY <1>2, <3>1
  <2>3. 0 <= 0 /\ 0 + 0 <= 0 /\ ~(0 > 0) /\ 1 >= 1
    OBVIOUS
  <2>4. /\ Len(files) >= 1 /\ files[Len(files)].tail = Len(written)
        /\ \A i \in 1..Len(files) :
             /\ files[i].tail <= Len(written) /\ files[i].base + files[i].bytes <= files[i].tail
             /\ ~(files[i].base > 0)
    BY <1>1, <1>2, <2>3
  <2> QED BY <2>1, <2>2, <2>4 DEF LogShape
<1>8. HolderShape
  BY <1>1, <1>3 DEF HolderShape, HolderType, Phase
<1>9. EngineShape
  <2>1. engine \in EngineType
    BY <1>4 DEF EngineType, Pc, Buffers
  <2> QED BY <1>1, <1>2, <1>5, <2>1 DEF EngineShape
<1>10. ScreenShape
  BY <1>3, BlankIs DEF ScreenShape
<1>11. Markers
  <2>1. NotEndAt(0)
    BY <1>1 DEF NotEndAt
  <2> QED BY <1>1, <1>2, <1>3, <1>5, <2>1 DEF Markers
<1>12. Screens
  BY <1>3, <1>6, BlankIs DEF Screens
<1>13. Owned
  BY <1>1, <1>3, <1>5, <1>6 DEF Owned, ExitIsOwn
<1>14. LastMark
  BY <1>1, <1>5, <1>6 DEF LastMark
<1>15. Outran
  BY <1>5 DEF Outran
<1> QED BY <1>7, <1>8, <1>9, <1>10, <1>11, <1>12, <1>13, <1>14, <1>15 DEF HeldInv

\* A step that changes nothing.
LEMMA StutterKeepsInv ==
  ASSUME HeldInv, UNCHANGED vars
  PROVE  HeldInv'
<1>1. /\ written' = written /\ files' = files /\ holder' = holder /\ pty' = pty
      /\ engine' = engine /\ screen' = screen /\ checkpoint' = checkpoint /\ exit' = exit
  BY DEF vars, holderVars, engineVars
<1>2. LogShape' /\ HolderShape' /\ EngineShape' /\ ScreenShape'
  BY <1>1 DEF HeldInv, LogShape, HolderShape, EngineShape, ScreenShape
<1>3. Markers' /\ Screens' /\ Outran'
  BY <1>1 DEF HeldInv, Markers, Screens, Outran, NotEndAt, Watching
<1>4. Owned'
  BY <1>1 DEF HeldInv, Owned, Stranded, Attached, Watching, ExitIsOwn
<1>5. LastMark'
  <2>1. Torn' <=> Torn
    BY <1>1 DEF Torn
  <2>2. \A i : OwnEnd(i)' <=> OwnEnd(i)
    BY <1>1 DEF OwnEnd
  <2>3. Watching' = Watching /\ Attached' = Attached
    BY <1>1 DEF Watching, Attached
  <2> QED BY <1>1, <2>1, <2>2, <2>3 DEF HeldInv, LastMark
<1> QED BY <1>2, <1>3, <1>4, <1>5 DEF HeldInv

\* Every step preserves the invariant.
LEMMA NextKeepsInv ==
  ASSUME Limits, HeldInv, [Next]_vars
  PROVE  HeldInv'
<1>1. CASE Agent \/ HolderStep \/ HolderDies
  BY <1>1, HolderKeepsInv DEF HolderAction, Agent, HolderStep
<1>2. CASE Resume
  BY <1>2, ResumeKeepsInv
<1>3. CASE Adopt
  BY <1>3, AdoptKeepsInv
<1>4. CASE PumpStep
  BY <1>4, AttachKeepsInv, LaunchKeepsInv, StartPumpKeepsInv, ReadChunkKeepsInv, PanicKeepsInv,
     QuietKeepsInv, WaitKeepsInv, LookKeepsInv DEF PumpStep
<1>5. CASE Stop
  BY <1>5, StopKeepsInv
<1>6. CASE UNCHANGED vars
  BY <1>6, StutterKeepsInv
<1> QED BY <1>1, <1>2, <1>3, <1>4, <1>5, <1>6 DEF Next

\* The inductive invariant of the Holder, its log and the pump.
THEOREM HeldInvariant ==
  ASSUME Limits
  PROVE  Spec => []HeldInv
<1>1. Init => HeldInv
  BY InitInv
<1>2. HeldInv /\ [Next]_vars => HeldInv'
  BY NextKeepsInv
<1> QED BY <1>1, <1>2, PTL DEF Spec

\* The screen gets every unit of output once and in order, less what was
\* rotated away or lay before the replay, and no part of a marker unless reading
\* began in the middle of it: through rotations, failed writes, restarts of the
\* Engine and checkpoints (pump_held, read_from_disk, HolderExitMarker::drain).
THEOREM ScreenShowsTheLog ==
  ASSUME Limits
  PROVE  Spec => []ScreenIsFaithful
<1>1. ASSUME HeldInv PROVE ScreenIsFaithful
  <2>1. PICK q \in Seq(Nat) : q = screen.shown
    BY <1>1 DEF HeldInv, ScreenShape, ScreenType
  <2>2. \A o : o \in Range(q) <=> \E i \in 1..Len(q) : q[i] = o
    <3>1. DOMAIN q = 1..Len(q)
      BY <2>1
    <3> QED BY <3>1 DEF Range
  <2>3. ASSUME NEW o \in Range(q) PROVE written[o + 1].kind = "out" \/ o \in screen.jumps
    <3>1. PICK i \in 1..Len(q) : q[i] = o
      BY <2>2, <2>3
    <3> QED BY <1>1, <2>1, <3>1 DEF HeldInv, Screens, Pure
  <2>4. ASSUME Watching
        PROVE  /\ \A i, j \in DOMAIN q : i < j => q[i] < q[j]
               /\ \A o \in 0..(engine.offset - 1) :
                    written[o + 1].kind = "out" => o \in Range(q) \cup screen.gaps \/ Torn
    <3>1. Sound(written, engine.offset, engine.buffer, screen)
      BY <1>1, <2>4 DEF HeldInv, Screens
    <3>2. DOMAIN q = 1..Len(q)
      BY <2>1
    <3>3. \A i, j \in DOMAIN q : i < j => q[i] < q[j]
      BY <2>1, <3>1, <3>2 DEF Sound
    <3>4. ASSUME NEW o \in 0..(engine.offset - 1), written[o + 1].kind = "out"
          PROVE  o \in Range(q) \cup screen.gaps \/ Torn
      <4>1. Shows(q, o) \/ o \in screen.gaps \/ Tear(written)
        BY <2>1, <3>1, <3>4 DEF Sound
      <4>2. Tear(written) => Torn
        BY <1>1, TornIs DEF HeldInv
      <4>3. Shows(q, o) => o \in Range(q)
        BY <2>2 DEF Shows
      <4> QED BY <4>1, <4>2, <4>3
    <3> QED BY <3>3, <3>4
  <2> QED BY <2>1, <2>3, <2>4 DEF ScreenIsFaithful
<1>2. Spec => []HeldInv
  BY HeldInvariant
<1> QED BY <1>1, <1>2, PTL

\* exit_marker_floor: the exit a session shows came from the incarnation that
\* is watched, however often the session was resumed under its id and whatever of
\* earlier incarnations is still in the log.
THEOREM ExitOfTheWatched ==
  ASSUME Limits
  PROVE  Spec => []ExitIsOwn
<1>1. HeldInv => ExitIsOwn
  BY DEF HeldInv, Owned
<1>2. Spec => []HeldInv
  BY HeldInvariant
<1> QED BY <1>1, <1>2, PTL

\* read_from_disk: the pump panics only when it was behind by more than what a
\* rotation keeps and a read together.
THEOREM PumpFollowsRotation ==
  ASSUME Limits
  PROVE  Spec => []PumpSurvives
<1>1. ASSUME HeldInv PROVE PumpSurvives
  <2> SUFFICES ASSUME engine.pc = "panicked"
               PROVE files[engine.handle].tail - engine.offset > DiskCapacity \div 2 + ReadSize
    BY DEF PumpSurvives
  <2>1. files[engine.handle].tail > engine.offset + DiskCapacity \div 2 + ReadSize
    BY <1>1 DEF HeldInv, Outran
  <2>2. PICK t, o, half, n \in Nat :
          /\ t = files[engine.handle].tail /\ o = engine.offset
          /\ half = DiskCapacity \div 2 /\ n = ReadSize
    <3>1. engine.handle \in 1..Len(files) /\ engine.offset \in Nat
      BY <1>1, Facts DEF HeldInv, EngineShape
    <3> QED BY <1>1, <3>1, Facts, Halves
  <2>3. t > o + half + n
    BY <2>1, <2>2
  <2>4. t - o > half + n
    BY <2>2, <2>3
  <2> QED BY <2>2, <2>4
<1>2. Spec => []HeldInv
  BY HeldInvariant
<1> QED BY <1>1, <1>2, PTL

\* A pump that finds nothing in the newest file has read the log to its end,
\* and the marker of its own incarnation is not in it.
LEMMA LookFinds ==
  ASSUME Limits, HeldInv, engine.pc = "look", Empty(Reading),
         ~engine.ghost, ~Blind, ~Outrun, ~Torn
  PROVE  \A i \in DOMAIN written : written[i] # [kind |-> "end", inc |-> engine.inc]
<1>1. PICK s, e, b, t, from \in Nat : Extent(s, e, b, t, from)
  BY ReadingIs
<1>2. PICK m, off, k, h \in Nat :
        m = Len(written) /\ off = engine.offset /\ k = Len(files) /\ h = Handle
  BY Facts, HandleIs
<1>3. h = k
  <2>1. engine.handle \in Nat /\ engine.handle <= k
    BY <1>2, Facts
  <2>2. engine.handle = 0 \/ ~(engine.handle < k)
    BY <1>2 DEF Blind, Current
  <2> QED BY <1>2, <2>1, <2>2 DEF Handle, Current
<1>4. t = m
  BY <1>1, <1>2, <1>3, Facts DEF Extent
<1>5. from >= t
  <2>1. CASE Reading.none
    BY <1>1, <2>1 DEF Extent
  <2>2. CASE ~Reading.none /\ Reading.start = Reading.end
    <3>1. Reading.start = s /\ Reading.end = e
      BY <1>1 DEF Extent
    <3>2. Reading.end <= Reading.start
      BY <1>1, <2>2, <3>1
    <3> QED BY <2>2, <3>2 DEF Outrun
  <2> QED BY <2>1, <2>2 DEF Empty
<1>6. off = m
  <2>1. /\ off <= from /\ (from > off => from <= b) /\ (b > 0 => b + DiskCapacity \div 2 <= t)
        /\ off <= m
    BY <1>1, <1>2, Facts DEF Extent
  <2>2. PICK half \in Nat : half = DiskCapacity \div 2 /\ half >= 2
    BY Halves
  <2>3. from \in Nat /\ b \in Nat /\ t \in Nat
    BY <1>1
  <2> QED BY <1>2, <1>4, <1>5, <2>1, <2>2, <2>3
<1>7. Watching /\ engine.inc = holder.inc
  BY DEF Watching, HeldInv, Owned, Attached
<1>8. ASSUME NEW i \in 1..m PROVE ~OwnEnd(i)
  <2>1. OwnEnd(i) => i > off
    BY <1>2, <1>7 DEF HeldInv, LastMark
  <2> QED BY <1>2, <1>6, <2>1
<1>9. DOMAIN written = 1..m
  BY <1>2 DEF HeldInv, LogShape
<1> QED BY <1>7, <1>8, <1>9 DEF OwnEnd

\* Only the last look ends a session without a marker.
LEMMA UnknownIsLooked ==
  ASSUME Limits, HeldInv, [Next]_vars, exit' = Without("unknown"), exit # exit'
  PROVE  engine.pc = "look" /\ Empty(Reading)
<1>1. None # Without("unknown") /\ Without("failed") # Without("unknown")
  BY DEF Limits, Without
<1>2. CASE Agent \/ HolderStep \/ HolderDies \/ Stop \/ UNCHANGED vars
  BY <1>2 DEF Agent, HolderStep, HolderDies, Stop, vars, engineVars, ChildWrites, ChildExits,
    PumpPty, WatchExit, FinalDrain, WriteMarker, Cleanup
<1>3. CASE Resume \/ Adopt
  BY <1>1, <1>3 DEF Resume, Adopt
<1>4. CASE ReadChunk
  <2>1. PICK s, e, b, t, from \in Nat :
           /\ Told(Fed(s, e), s, e, Begun(s, engine.offset, engine.buffer))
           /\ exit' = IF Fed(s, e).exit = None THEN exit ELSE Fed(s, e).exit
    BY <1>4, ReadChunkIs
  <2>2. Fed(s, e).exit # None /\ exit' = Fed(s, e).exit
    BY <2>1
  <2>3. \E x : Fed(s, e).exit = [how |-> "marker", inc |-> written[x + 1].inc]
    BY <2>1, <2>2 DEF Told
  <2>4. exit'.how = "marker"
    BY <2>2, <2>3
  <2> QED BY <2>4 DEF Without
<1>5. CASE Look
  BY <1>5 DEF Look
<1>6. CASE Attach \/ Launch \/ StartPump \/ Panic \/ Quiet \/ Wait \/ Probe
  BY <1>1, <1>6 DEF Attach, Launch, StartPump, Panic, Quiet, Wait, Probe
<1> QED BY <1>2, <1>3, <1>4, <1>5, <1>6 DEF Next, PumpStep

\* "One last look for a marker that raced the probe": a session reported to have
\* died without a marker has none in the log, unless the log was rotated under
\* the pump or outran it, a marker was torn, or the session was resumed while its
\* last Holder was finishing.
THEOREM LastLookIsTruthful ==
  ASSUME Limits
  PROVE  Spec => LastLookFinds
<1>1. ASSUME HeldInv, [Next]_vars, exit' = Without("unknown") /\ exit # exit'
      PROVE  \/ engine.ghost \/ Blind \/ Outrun \/ Torn
             \/ \A i \in DOMAIN written : written[i] # [kind |-> "end", inc |-> engine.inc]
  <2>1. engine.pc = "look" /\ Empty(Reading)
    BY <1>1, UnknownIsLooked
  <2> QED BY <1>1, <2>1, LookFinds
<1>2. HeldInv /\ [Next]_vars =>
        [exit' = Without("unknown") /\ exit # exit' =>
           \/ engine.ghost \/ Blind \/ Outrun \/ Torn
           \/ \A i \in DOMAIN written : written[i] # [kind |-> "end", inc |-> engine.inc]]_vars
  BY <1>1
<1>3. Spec => []HeldInv
  BY HeldInvariant
<1>4. Spec => [][Next]_vars
  BY DEF Spec
<1> QED BY <1>2, <1>3, <1>4, PTL DEF LastLookFinds
=============================================================================
