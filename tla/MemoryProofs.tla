---------------------------- MODULE MemoryProofs ----------------------------
(***************************************************************************)
(* Proofs about MemoryPool, for any operands, costs, limit, gas and depth. *)
(*                                                                         *)
(* The inductive invariant is StackOK with AccessInBounds, and Held        *)
(* bounds the words of all frames together by the gas.  StackOK says       *)
(* of every frame that its memory is whole words, paid for and within the  *)
(* limit, and of neighbours that the callee's part begins where the        *)
(* caller's ends, with the arguments below and the place for the result    *)
(* within the caller's part.                                               *)
(***************************************************************************)
EXTENDS MemoryPool, SequenceTheorems, DataTheorems

FrameOK(f) ==
  /\ f \in Frame
  /\ f.await.from <= f.await.to
  /\ f.checkpoint % 32 = 0
  /\ f.mem % 32 = 0
  /\ LimitFeature => f.checkpoint + f.mem <= MemoryLimit
  /\ f.mem <= 64 * f.charged + 32
  /\ f.status # "halted" =>
       /\ f.mem = 32 * f.words
       /\ f.expansion = MonadMemoryCost(f.words)
       /\ f.charged = f.expansion

LinkOK(caller, child) ==
  /\ Running(caller)
  /\ child.checkpoint = caller.checkpoint + caller.mem
  /\ LimitFeature => caller.await.to <= caller.mem
  /\ LimitFeature /\ child.input # Nothing =>
       /\ caller.checkpoint <= child.input.from
       /\ child.input.to <= child.checkpoint

StackOK(s) ==
  /\ s \in Seq(Frame)
  /\ Len(s) \in 1 .. MaxDepth
  /\ \A i \in 1 .. Len(s) : FrameOK(s[i])
  /\ s[1].input = Nothing
  /\ s[1].checkpoint = 0
  /\ \A i \in 1 .. Len(s) - 1 : LinkOK(s[i], s[i + 1])

\* The gas a frame has or has spent on memory, and what all frames have.
Worth(f) == f.gas + f.charged

Held(s) == SumFunctionOnSet([i \in 1 .. Len(s) |-> Worth(s[i])], 1 .. Len(s))

\* What the work of an opcode leaves alone, before the frame ends.
Preserved(f, g) ==
  /\ g.checkpoint = f.checkpoint
  /\ g.input = f.input
  /\ g.await = f.await
  /\ g.static = f.static
  /\ g.creates = f.creates
  /\ g.status \in {"running", "halted"}
  /\ Running(g) => Running(f)
  /\ Worth(g) <= Worth(f)

MemInv ==
  /\ StackOK(frames)
  /\ Held(frames) <= GasLimit
  /\ MemoryTypeOK
  /\ LimitFeature => AccessInBounds

-----------------------------------------------------------------------------
(***************************************************************************)
(* Arithmetic of words and bytes.                                          *)
(***************************************************************************)
\* Rounding up to words covers the bytes, and does not cross a limit that is
\* itself a number of words.
LEMMA WordsCover ==
  ASSUME NEW n \in Nat
  PROVE  NumWords(n) \in Nat /\ n <= 32 * NumWords(n)
BY DEF NumWords

LEMMA WordsStayBelow ==
  ASSUME NEW n \in Nat, NEW c \in Nat, NEW limit \in Nat,
         c % 32 = 0, limit % 32 = 0, c + n <= limit
  PROVE  c + 32 * NumWords(n) <= limit
<1>1. PICK k \in Nat : c = 32 * k
  BY c = 32 * (c \div 32) + (c % 32), c \div 32 \in Nat
<1>2. PICK m \in Nat : limit = 32 * m
  BY limit = 32 * (limit \div 32) + (limit % 32), limit \div 32 \in Nat
<1> QED BY <1>1, <1>2 DEF NumWords

LEMMA CostMonotone ==
  ASSUME NEW v \in Nat, NEW w \in Nat, v <= w
  PROVE  /\ MonadMemoryCost(v) \in Nat
         /\ MonadMemoryCost(v) <= MonadMemoryCost(w)
BY DEF MonadMemoryCost

\* What is paid for covers the words but one.
LEMMA CostHalvesWords ==
  ASSUME NEW w \in Nat
  PROVE  32 * w <= 64 * MonadMemoryCost(w) + 32
BY DEF MonadMemoryCost

LEMMA SumsOfWords ==
  ASSUME NEW a \in Nat, NEW b \in Nat, a % 32 = 0, b % 32 = 0
  PROVE  (a + b) % 32 = 0
OBVIOUS

LEMMA WholeWords ==
  ASSUME NEW w \in Nat
  PROVE  (32 * w) % 32 = 0
OBVIOUS

-----------------------------------------------------------------------------
(***************************************************************************)
(* What the parts of an opcode do to a frame.                              *)
(***************************************************************************)
\* A frame at work: good, and not ended by itself.
Working(f) == FrameOK(f) /\ f.status \in {"running", "halted"}

LEMMA FrameWorth ==
  ASSUME NEW f \in Frame
  PROVE  Worth(f) \in Nat
<1>1. f.gas \in Nat /\ f.charged \in Nat
  BY DEF Frame
<1> QED BY <1>1 DEF Worth

LEMMA WorthType ==
  ASSUME NEW f, FrameOK(f)
  PROVE  Worth(f) \in Nat
BY FrameWorth DEF FrameOK

LEMMA WorkingUnchanged ==
  ASSUME NEW f, Working(f)
  PROVE  Preserved(f, f) /\ f.mem >= f.mem
<1>1. f.mem \in Nat /\ Worth(f) \in Nat
  BY WorthType DEF Working, FrameOK, Frame
<1> QED BY <1>1 DEF Working, Preserved

LEMMA HaltingWorks ==
  ASSUME NEW f, Working(f)
  PROVE  Working(Halted(f)) /\ Preserved(f, Halted(f)) /\ Halted(f).mem >= f.mem
<1> DEFINE g == Halted(f)
<1>1. /\ g.status = "halted" /\ g \in Frame
      /\ g.mem = f.mem /\ g.charged = f.charged /\ g.gas = f.gas
      /\ g.await = f.await /\ g.checkpoint = f.checkpoint /\ g.input = f.input
      /\ g.static = f.static /\ g.creates = f.creates
  BY DEF Halted, Working, FrameOK, Frame
<1> HIDE DEF g
<1>2. FrameOK(g)
  BY <1>1 DEF Working, FrameOK
<1>3. f.mem \in Nat /\ Worth(f) \in Nat /\ Worth(g) = Worth(f)
  BY <1>1, WorthType DEF Working, FrameOK, Frame, Worth
<1>4. Working(g) /\ Preserved(f, g) /\ g.mem >= f.mem
  BY <1>1, <1>2, <1>3 DEF Working, Preserved, Running
<1> QED BY <1>4 DEF g

LEMMA AsUsizeWorks ==
  ASSUME NEW f, Working(f), NEW n \in Nat
  PROVE  /\ Working(AsUsize(f, n)) /\ Preserved(f, AsUsize(f, n))
         /\ AsUsize(f, n).mem >= f.mem
BY WorkingUnchanged, HaltingWorks DEF AsUsize

LEMMA ChargeWorks ==
  ASSUME NEW f, Working(f), NEW c \in Nat
  PROVE  /\ Working(Charge(f, c)) /\ Preserved(f, Charge(f, c))
         /\ Charge(f, c).mem >= f.mem
<1>1. CASE Running(f) /\ c <= f.gas
  <2>1. f.gas - c \in Nat
    BY <1>1 DEF Working, FrameOK, Frame
  <2> DEFINE g == [f EXCEPT !.gas = @ - c]
  <2>2. Charge(f, c) = g
    BY <1>1 DEF Charge, Working, FrameOK, Frame
  <2>3. /\ g.gas = f.gas - c /\ g \in Frame /\ g.status = f.status
        /\ g.mem = f.mem /\ g.charged = f.charged
        /\ g.words = f.words /\ g.expansion = f.expansion
        /\ g.await = f.await /\ g.checkpoint = f.checkpoint /\ g.input = f.input
        /\ g.static = f.static /\ g.creates = f.creates
    BY <2>1 DEF Working, FrameOK, Frame
  <2> HIDE DEF g
  <2>4. FrameOK(g)
    BY <2>3 DEF Working, FrameOK
  <2>5. f.mem \in Nat /\ Worth(g) <= Worth(f)
    BY <2>1, <2>3 DEF Working, FrameOK, Frame, Worth
  <2> QED BY <2>2, <2>3, <2>4, <2>5, <1>1 DEF Working, Preserved, Running
<1>2. CASE Running(f) /\ c > f.gas
  <2>1. Charge(f, c) = Halted(f)
    BY <1>2 DEF Charge
  <2> QED BY <2>1, HaltingWorks
<1>3. CASE ~ Running(f)
  <2>1. Charge(f, c) = f
    BY <1>3 DEF Charge
  <2> QED BY <2>1, WorkingUnchanged
<1>4. f.gas \in Nat
  BY DEF Working, FrameOK, Frame
<1> QED BY <1>1, <1>2, <1>3, <1>4

LEMMA ResizeColdWorks ==
  ASSUME NEW f, FrameOK(f), Running(f), NEW w \in Nat, w > f.words,
         LimitFeature => f.checkpoint + 32 * w <= MemoryLimit
  PROVE  /\ Working(ResizeCold(f, w)) /\ Preserved(f, ResizeCold(f, w))
         /\ ResizeCold(f, w).mem >= f.mem
         /\ Running(ResizeCold(f, w)) => ResizeCold(f, w).mem = 32 * w
<1> DEFINE total == MonadMemoryCost(w)
           delta == total - f.expansion
           counted == [f EXCEPT !.words = w, !.expansion = total]
<1>1. /\ f.words \in Nat /\ f.expansion = MonadMemoryCost(f.words)
      /\ f.charged = f.expansion /\ f.mem = 32 * f.words
      /\ f.gas \in Nat
  BY DEF FrameOK, Frame, Running
<1>2. total \in Nat /\ f.expansion \in Nat /\ delta \in Nat
  <2>1. /\ total \in Nat /\ f.expansion \in Nat
        /\ f.expansion <= total
    <3>1. f.words <= w
      BY <1>1
    <3> QED BY <3>1, <1>1, CostMonotone
  <2> QED BY <2>1
<1>3. counted \in Frame
  BY <1>2 DEF FrameOK, Frame
<1>4. CASE delta > f.gas
  <2>1. ResizeCold(f, w) = Halted(counted)
    BY <1>4 DEF ResizeCold
  <2> DEFINE g == [counted EXCEPT !.status = "halted"]
  <2>2. /\ g.status = "halted" /\ g.mem = f.mem /\ g.charged = f.charged
        /\ g.gas = f.gas
        /\ g.await = f.await /\ g.checkpoint = f.checkpoint /\ g.input = f.input
        /\ g.static = f.static /\ g.creates = f.creates
    BY DEF FrameOK, Frame
  <2>3. g \in Frame
    BY <1>3 DEF Frame
  <2>4. FrameOK(g)
    <3> HIDE DEF g
    <3> QED BY <2>2, <2>3 DEF FrameOK
  <2>5. ResizeCold(f, w) = g
    BY <2>1 DEF Halted
  <2>6. g.mem >= f.mem
    BY <2>2, <1>1
  <2> HIDE DEF g
  <2>7. Worth(g) <= Worth(f)
    BY <2>2, WorthType DEF Worth
  <2> QED BY <2>2, <2>4, <2>5, <2>6, <2>7 DEF Working, Preserved, Running
<1>5. CASE ~ (delta > f.gas)
  <2> DEFINE g == [counted EXCEPT !.gas = @ - delta, !.charged = @ + delta,
                                  !.mem = 32 * w]
  <2>1. ResizeCold(f, w) = g
    BY <1>5 DEF ResizeCold
  <2>2. g.gas = f.gas - delta /\ g.charged = total /\ g.mem = 32 * w
        /\ g.words = w /\ g.expansion = total /\ g.status = "running"
        /\ g.checkpoint = f.checkpoint /\ g.await = f.await /\ g.input = f.input
        /\ g.static = f.static /\ g.creates = f.creates
    BY <1>1, <1>2 DEF FrameOK, Frame, Running
  <2>3. f.gas - delta \in Nat /\ 32 * w \in Nat /\ f.charged + delta \in Nat
    BY <1>5, <1>1, <1>2
  <2>4. g \in Frame
    BY <2>3, <1>3 DEF Frame
  <2>5. g.mem % 32 = 0
    BY <2>2, WholeWords
  <2> HIDE DEF g
  <2>6. FrameOK(g)
    <3>1. g.mem <= 64 * g.charged + 32
      BY <2>2, CostHalvesWords
    <3> QED BY <2>2, <2>4, <2>5, <3>1 DEF FrameOK
  <2>7. Preserved(f, g)
    <3>1. Worth(g) = Worth(f)
      BY <2>2, <1>1, <1>2 DEF Worth
    <3> QED BY <2>2, <3>1, WorthType DEF Preserved, Running
  <2>8. g.mem >= f.mem
    BY <2>2, <1>1
  <2> USE DEF g
  <2> HIDE DEF g
  <2> QED BY <2>1, <2>2, <2>6, <2>7, <2>8 DEF Working
<1> QED BY <1>4, <1>5

\* After monad_resize_memory, unless it halted, the bytes are there.
LEMMA ResizeWorks ==
  ASSUME NEW f, Working(f), NEW offset \in Nat, NEW len \in Nat
  PROVE  /\ Working(Resize(f, offset, len)) /\ Preserved(f, Resize(f, offset, len))
         /\ Resize(f, offset, len).mem >= f.mem
         /\ LimitFeature /\ Running(Resize(f, offset, len)) =>
              offset + len <= Resize(f, offset, len).mem
<1> DEFINE n == Saturated(offset + len)
           w == NumWords(n)
<1>0. n \in Nat /\ w \in Nat /\ n <= 32 * w
  BY WordsCover, MemoryAssumption DEF Saturated
<1>1. CASE ~ Running(f)
  <2>1. Resize(f, offset, len) = f
    BY <1>1 DEF Resize
  <2> QED BY <2>1, <1>1, WorkingUnchanged
<1>2. CASE Running(f) /\ LimitReached(f, offset, len)
  <2>1. Resize(f, offset, len) = Halted(f) /\ ~ Running(Halted(f))
    BY <1>2 DEF Resize, Halted, Working, FrameOK, Frame, Running
  <2> QED BY <2>1, HaltingWorks
<1>3. CASE Running(f) /\ ~ LimitReached(f, offset, len)
  <2>0. f.checkpoint \in Nat
    BY DEF Working, FrameOK, Frame
  <2>1. LimitFeature => n = offset + len /\ f.checkpoint + n <= MemoryLimit
    BY <2>0, <1>3, MemoryAssumption DEF LimitReached, Saturated
  <2>2. LimitFeature => f.checkpoint + 32 * w <= MemoryLimit
    BY <2>1, <1>0, WordsStayBelow, MemoryAssumption DEF Working, FrameOK, Frame
  <2>3. Resize(f, offset, len) = IF w > f.words THEN ResizeCold(f, w) ELSE f
    BY <1>3 DEF Resize
  <2>4. CASE w > f.words
    BY <2>1, <2>2, <2>3, <2>4, <1>3, <1>0, ResizeColdWorks DEF Working
  <2>5. CASE ~ (w > f.words)
    <3>1. f.mem = 32 * f.words /\ f.words \in Nat /\ f.mem \in Nat
      BY <1>3 DEF Working, FrameOK, Frame, Running
    <3>2. Preserved(f, f)
      BY WorkingUnchanged
    <3> HIDE DEF n, w
    <3> QED BY <2>1, <2>3, <2>5, <3>1, <3>2, <1>0
  <2> QED BY <2>4, <2>5
<1> QED BY <1>1, <1>2, <1>3

\* What is true of a frame g that came out of some of an opcode's work on f.
Worked(f, g) == Working(g) /\ Preserved(f, g) /\ g.mem >= f.mem

LEMMA WorkedTransitive ==
  ASSUME NEW f, NEW g, NEW h, FrameOK(f), Worked(f, g), Worked(g, h)
  PROVE  Worked(f, h)
<1>1. /\ f.mem \in Nat /\ g.mem \in Nat /\ h.mem \in Nat
      /\ Worth(f) \in Nat /\ Worth(g) \in Nat /\ Worth(h) \in Nat
  BY WorthType DEF Worked, Working, FrameOK, Frame
<1> QED BY <1>1 DEF Worked, Working, Preserved

\* Present: the bytes are in the frame's memory, if it still runs.
Present(f, offset, len) ==
  LimitFeature /\ Running(f) /\ len # 0 => offset + len <= f.mem

LEMMA ResizeUnlessEmptyWorks ==
  ASSUME NEW f, Working(f), NEW offset \in Nat, NEW len \in Nat
  PROVE  /\ Worked(f, ResizeUnlessEmpty(f, offset, len))
         /\ Present(ResizeUnlessEmpty(f, offset, len), offset, len)
<1>1. CASE len = 0
  <2>1. ResizeUnlessEmpty(f, offset, len) = f
    BY <1>1 DEF ResizeUnlessEmpty
  <2> QED BY <2>1, <1>1, WorkingUnchanged DEF Worked, Present
<1>2. CASE len # 0
  <2> DEFINE g == AsUsize(f, offset)
             h == Resize(g, offset, len)
  <2>1. ResizeUnlessEmpty(f, offset, len) = h
    BY <1>2 DEF ResizeUnlessEmpty
  <2>2. Worked(f, g)
    BY AsUsizeWorks DEF Worked
  <2> HIDE DEF g
  <2>3. Worked(g, h) /\ Present(h, offset, len)
    BY <2>2, ResizeWorks DEF Worked, Present
  <2> HIDE DEF h
  <2>4. Worked(f, h)
    BY <2>2, <2>3, WorkedTransitive DEF Working
  <2> QED BY <2>1, <2>3, <2>4
<1> QED BY <1>1, <1>2

LEMMA CopyCostAndMemoryResizeWorks ==
  ASSUME NEW f, Working(f), NEW cost \in Nat, NEW offset \in Nat, NEW len \in Nat
  PROVE  /\ Worked(f, CopyCostAndMemoryResize(f, cost, offset, len))
         /\ Present(CopyCostAndMemoryResize(f, cost, offset, len), offset, len)
<1> DEFINE g == AsUsize(f, len)
           h == Charge(g, cost)
           r == ResizeUnlessEmpty(h, offset, len)
<1>1. Worked(f, g)
  BY AsUsizeWorks DEF Worked
<1> HIDE DEF g
<1>2. Worked(g, h)
  BY <1>1, ChargeWorks DEF Worked
<1> HIDE DEF h
<1>3. Worked(h, r) /\ Present(r, offset, len)
  BY <1>2, ResizeUnlessEmptyWorks DEF Worked
<1> HIDE DEF r
<1>4. Worked(f, r)
  BY <1>1, <1>2, <1>3, WorkedTransitive DEF Working, Worked
<1>5. CopyCostAndMemoryResize(f, cost, offset, len) = r
  BY DEF CopyCostAndMemoryResize, r, h, g
<1> QED BY <1>3, <1>4, <1>5

\* The first range stays present when the second is made to fit.
LEMMA InputAndOutRangesWorks ==
  ASSUME NEW f, Working(f), NEW in \in Nat, NEW inLen \in Nat,
         NEW out \in Nat, NEW outLen \in Nat
  PROVE  LET g == InputAndOutRanges(f, in, inLen, out, outLen) IN
         Worked(f, g) /\ Present(g, in, inLen) /\ Present(g, out, outLen)
<1> DEFINE a == AsUsize(f, inLen)
           b == ResizeUnlessEmpty(a, in, inLen)
           c == AsUsize(b, outLen)
           d == ResizeUnlessEmpty(c, out, outLen)
<1>1. Worked(f, a)
  BY AsUsizeWorks DEF Worked
<1> HIDE DEF a
<1>2. Worked(a, b) /\ Present(b, in, inLen)
  BY <1>1, ResizeUnlessEmptyWorks DEF Worked
<1> HIDE DEF b
<1>3. Worked(b, c)
  BY <1>2, AsUsizeWorks DEF Worked
<1> HIDE DEF c
<1>4. Worked(c, d) /\ Present(d, out, outLen)
  BY <1>3, ResizeUnlessEmptyWorks DEF Worked
<1> HIDE DEF d
<1>5. Worked(b, d)
  BY <1>2, <1>3, <1>4, WorkedTransitive DEF Worked, Working
<1>6. Worked(f, d)
  BY <1>1, <1>2, <1>5, WorkedTransitive DEF Worked, Working
<1>7. Present(d, in, inLen)
  <2>1. b.mem \in Nat /\ d.mem \in Nat
    BY <1>2, <1>4 DEF Worked, Working, FrameOK, Frame
  <2> QED BY <2>1, <1>2, <1>5 DEF Present, Worked, Preserved
<1>8. InputAndOutRanges(f, in, inLen, out, outLen) = d
  BY DEF InputAndOutRanges, d, c, b, a
<1> QED BY <1>4, <1>6, <1>7, <1>8

-----------------------------------------------------------------------------
(***************************************************************************)
(* The call stack.                                                         *)
(***************************************************************************)
\* The top frame may be replaced by one that begins at the same place with
\* the same arguments.
LEMMA ReplaceTop ==
  ASSUME NEW s, StackOK(s), NEW f, FrameOK(f),
         f.checkpoint = TopOf(s).checkpoint, f.input = TopOf(s).input
  PROVE  /\ StackOK([s EXCEPT ![Len(s)] = f])
         /\ Len([s EXCEPT ![Len(s)] = f]) = Len(s)
         /\ TopOf([s EXCEPT ![Len(s)] = f]) = f
<1> DEFINE t == [s EXCEPT ![Len(s)] = f]
           n == Len(s)
<1>1. /\ Len(s) \in Nat /\ Len(s) >= 1 /\ Len(s) \in DOMAIN s
      /\ DOMAIN s = 1 .. Len(s)
  BY MemoryAssumption DEF StackOK
<1>2. f \in Frame
  BY DEF FrameOK
<1>3. t \in Seq(Frame) /\ Len(t) = Len(s)
  BY <1>1, <1>2 DEF StackOK
<1>4. /\ t[n] = f
      /\ \A i \in 1 .. n : i # n => t[i] = s[i]
  BY <1>1
<1>0. n \in Nat /\ n >= 1 /\ Len(t) = n /\ TopOf(s) = s[n]
  BY <1>1, <1>3 DEF TopOf
<1> HIDE DEF t, n
<1>5. \A i \in 1 .. Len(t) : FrameOK(t[i])
  BY <1>0, <1>4 DEF StackOK, n
<1>6. t[1].input = Nothing
  <2>1. CASE n = 1
    BY <2>1, <1>0, <1>4 DEF StackOK
  <2>2. CASE n # 1
    <3>1. t[1] = s[1]
      BY <2>2, <1>0, <1>4
    <3> QED BY <3>1 DEF StackOK
  <2> QED BY <2>1, <2>2
<1>7. ASSUME NEW i \in 1 .. n - 1
      PROVE  LinkOK(t[i], t[i + 1])
  <2>1. LinkOK(s[i], s[i + 1])
    BY <1>7 DEF StackOK, n
  <2>2. t[i] = s[i]
    BY <1>0, <1>4, <1>7
  <2>3. t[i + 1].checkpoint = s[i + 1].checkpoint /\ t[i + 1].input = s[i + 1].input
    <3>1. CASE i + 1 = n
      BY <3>1, <1>0, <1>4
    <3>2. CASE i + 1 # n
      <4>1. i + 1 \in 1 .. n
        BY <1>0, <1>7
      <4> QED BY <3>2, <4>1, <1>4
    <3> QED BY <3>1, <3>2
  <2> QED BY <2>1, <2>2, <2>3 DEF LinkOK
<1>8. Len(t) \in 1 .. MaxDepth
  BY <1>0 DEF StackOK, n
<1>11. t[1].checkpoint = 0
  <2>1. CASE n = 1
    BY <2>1, <1>0, <1>4 DEF StackOK
  <2>2. CASE n # 1
    <3>1. t[1] = s[1]
      BY <2>2, <1>0, <1>4
    <3> QED BY <3>1 DEF StackOK
  <2> QED BY <2>1, <2>2
<1>9. StackOK(t)
  BY <1>0, <1>3, <1>5, <1>6, <1>7, <1>8, <1>11 DEF StackOK
<1>10. TopOf(t) = f
  BY <1>0, <1>4 DEF TopOf
<1> QED BY <1>3, <1>9, <1>10 DEF t

LEMMA AppendFrame ==
  ASSUME NEW s, StackOK(s), Len(s) < MaxDepth, NEW g, FrameOK(g),
         LinkOK(TopOf(s), g)
  PROVE  StackOK(Append(s, g)) /\ TopOf(Append(s, g)) = g
<1> DEFINE t == Append(s, g)
<1>1. Len(s) \in Nat /\ Len(s) >= 1 /\ s \in Seq(Frame) /\ g \in Frame
  BY MemoryAssumption DEF StackOK, FrameOK
<1>2. t \in Seq(Frame) /\ Len(t) = Len(s) + 1
      /\ t[Len(s) + 1] = g /\ \A i \in 1 .. Len(s) : t[i] = s[i]
  BY <1>1
<1> HIDE DEF t
<1>3. \A i \in 1 .. Len(t) : FrameOK(t[i])
  <2> TAKE i \in 1 .. Len(t)
  <2>1. CASE i = Len(s) + 1
    BY <2>1, <1>2
  <2>2. CASE i # Len(s) + 1
    BY <2>2, <1>1, <1>2 DEF StackOK
  <2> QED BY <2>1, <2>2
<1>4. \A i \in 1 .. Len(t) - 1 : LinkOK(t[i], t[i + 1])
  <2> TAKE i \in 1 .. Len(t) - 1
  <2>1. CASE i = Len(s)
    BY <2>1, <1>1, <1>2 DEF TopOf
  <2>2. CASE i # Len(s)
    BY <2>2, <1>1, <1>2 DEF StackOK
  <2> QED BY <2>1, <2>2
<1>5. Len(t) \in 1 .. MaxDepth
  BY <1>1, <1>2, MemoryAssumption
<1>6. t[1].input = Nothing /\ t[1].checkpoint = 0
  BY <1>1, <1>2 DEF StackOK
<1>7. StackOK(t)
  BY <1>2, <1>3, <1>4, <1>5, <1>6 DEF StackOK
<1> QED BY <1>2, <1>7 DEF TopOf, t

LEMMA DropTop ==
  ASSUME NEW s, StackOK(s), Len(s) > 1
  PROVE  LET t == SubSeq(s, 1, Len(s) - 1) IN
         /\ StackOK(t)
         /\ Len(t) = Len(s) - 1
         /\ TopOf(t) = s[Len(s) - 1]
<1> DEFINE t == SubSeq(s, 1, Len(s) - 1)
<1>1. Len(s) \in Nat /\ s \in Seq(Frame)
  BY MemoryAssumption DEF StackOK
<1>2. t \in Seq(Frame) /\ Len(t) = Len(s) - 1
      /\ \A i \in 1 .. Len(s) - 1 : t[i] = s[i]
  BY <1>1
<1> HIDE DEF t
<1>3. \A i \in 1 .. Len(t) : FrameOK(t[i])
  BY <1>1, <1>2 DEF StackOK
<1>4. \A i \in 1 .. Len(t) - 1 : LinkOK(t[i], t[i + 1])
  BY <1>1, <1>2 DEF StackOK
<1>5. Len(t) \in 1 .. MaxDepth /\ t[1].input = Nothing /\ t[1].checkpoint = 0
  BY <1>1, <1>2, MemoryAssumption DEF StackOK
<1>6. StackOK(t)
  BY <1>2, <1>3, <1>4, <1>5 DEF StackOK
<1> QED BY <1>1, <1>2, <1>6 DEF TopOf, t

(***************************************************************************)
(* What the frames hold together.                                          *)
(***************************************************************************)
LEMMA HeldType ==
  ASSUME NEW s \in Seq(Frame)
  PROVE  /\ IsFiniteSet(1 .. Len(s))
         /\ \A i \in 1 .. Len(s) : Worth(s[i]) \in Nat
         /\ Held(s) \in Nat
<1>1. IsFiniteSet(1 .. Len(s))
  BY FS_Interval
<1>2. ASSUME NEW i \in 1 .. Len(s)
      PROVE  Worth(s[i]) \in Nat
  <2>1. s[i] \in Frame
    OBVIOUS
  <2> QED BY <2>1, FrameWorth
<1>3. Held(s) \in Nat
  BY <1>1, <1>2, SumNat DEF Held
<1> QED BY <1>1, <1>2, <1>3

LEMMA HeldReplaced ==
  ASSUME NEW s \in Seq(Frame), Len(s) >= 1, NEW f \in Frame
  PROVE  Held([s EXCEPT ![Len(s)] = f]) = Held(s) - Worth(TopOf(s)) + Worth(f)
<1> DEFINE n == Len(s)
           t == [s EXCEPT ![n] = f]
           u == [i \in 1 .. n |-> Worth(s[i])]
           v == [i \in 1 .. n |-> Worth(t[i])]
<1>1. n \in 1 .. n /\ t \in Seq(Frame) /\ Len(t) = n
      /\ t[n] = f /\ \A i \in 1 .. n : i # n => t[i] = s[i]
  OBVIOUS
<1>2. IsFiniteSet(1 .. n)
      /\ (\A i \in 1 .. n : Worth(s[i]) \in Nat)
      /\ (\A i \in 1 .. n : Worth(t[i]) \in Nat)
  BY <1>1, HeldType
<1> HIDE DEF n, t
<1>3. /\ \A i \in 1 .. n : u[i] \in Int
      /\ v[n] \in Int
      /\ \A i \in (1 .. n) \ {n} : v[i] = u[i]
      /\ v[n] = Worth(f) /\ u[n] = Worth(s[n])
  BY <1>1, <1>2
<1>4. Held(s) = SumFunctionOnSet(u, 1 .. n) /\ Held(t) = SumFunctionOnSet(v, 1 .. n)
  BY <1>1 DEF Held, n
<1> HIDE DEF u, v
<1>5. SumFunctionOnSet(v, 1 .. n) = SumFunctionOnSet(u, 1 .. n) - u[n] + v[n]
  <2> DEFINE all == 1 .. n
  <2>1. /\ IsFiniteSet(all) /\ n \in all
        /\ v[n] \in Int /\ \A i \in all : u[i] \in Int
        /\ \A i \in all \ {n} : v[i] = u[i]
    BY <1>1, <1>2, <1>3
  <2> HIDE DEF all
  <2>2. SumFunctionOnSet(v, all) = SumFunctionOnSet(u, all) - u[n] + v[n]
    BY <2>1, SumChange
  <2> QED BY <2>2 DEF all
<1>6. Held(t) = Held(s) - Worth(s[n]) + Worth(f)
  BY <1>3, <1>4, <1>5
<1> QED BY <1>6 DEF t, n, TopOf

LEMMA HeldAppended ==
  ASSUME NEW s \in Seq(Frame), NEW g \in Frame
  PROVE  Held(Append(s, g)) = Held(s) + Worth(g)
<1> DEFINE n == Len(s)
           t == Append(s, g)
           u == [i \in 1 .. n |-> Worth(s[i])]
           v == [i \in 1 .. n + 1 |-> Worth(t[i])]
<1>1. n \in Nat /\ t \in Seq(Frame) /\ Len(t) = n + 1
      /\ t[n + 1] = g /\ \A i \in 1 .. n : t[i] = s[i]
  OBVIOUS
<1>2. IsFiniteSet(1 .. n)
      /\ (\A i \in 1 .. n : Worth(s[i]) \in Nat)
      /\ (\A i \in 1 .. n + 1 : Worth(t[i]) \in Nat)
  BY <1>1, HeldType
<1> HIDE DEF n, t
<1>3. /\ \A i \in (1 .. n) \cup {n + 1} : v[i] \in Int
      /\ \A i \in 1 .. n : u[i] \in Int /\ u[i] = v[i]
      /\ v[n + 1] = Worth(g)
  BY <1>1, <1>2
<1>4. Held(s) = SumFunctionOnSet(u, 1 .. n) /\ Held(t) = SumFunctionOnSet(v, 1 .. n + 1)
  BY <1>1 DEF Held, n
<1> HIDE DEF u, v
<1>5. SumFunctionOnSet(u, 1 .. n) = SumFunctionOnSet(v, 1 .. n)
  BY <1>2, <1>3, SumAgree
<1>6. n + 1 \notin 1 .. n /\ 1 .. n + 1 = (1 .. n) \cup {n + 1}
  BY <1>1
<1>7. SumFunctionOnSet(v, (1 .. n) \cup {n + 1}) = v[n + 1] + SumFunctionOnSet(v, 1 .. n)
  BY <1>2, <1>3, <1>6, SumAdd
<1>8. SumFunctionOnSet(v, 1 .. n + 1) = SumFunctionOnSet(v, (1 .. n) \cup {n + 1})
  BY <1>6, Zenon
<1>9. Held(s) \in Nat /\ Worth(g) \in Nat
  BY HeldType, FrameWorth
<1>10. Held(t) = Held(s) + Worth(g)
  BY <1>3, <1>4, <1>5, <1>7, <1>8, <1>9
<1> QED BY <1>10 DEF t

\* Without its last frame.
LEMMA HeldDropped ==
  ASSUME NEW s \in Seq(Frame), Len(s) > 1
  PROVE  Held(s) = Held(SubSeq(s, 1, Len(s) - 1)) + Worth(TopOf(s))
<1> DEFINE n == Len(s)
           t == SubSeq(s, 1, n - 1)
<1>1. n \in Nat /\ n > 1 /\ s[n] \in Frame
  OBVIOUS
<1>2. t \in Seq(Frame) /\ Len(t) = n - 1 /\ \A i \in 1 .. n - 1 : t[i] = s[i]
  BY <1>1
<1>3. s = Append(t, s[n])
  <2> HIDE DEF t
  <2> DEFINE c == Append(t, s[n])
  <2>1. c \in Seq(Frame) /\ Len(c) = n /\ c[n] = s[n]
        /\ \A i \in 1 .. n - 1 : c[i] = s[i]
    BY <1>1, <1>2
  <2> HIDE DEF c
  <2>2. \A i \in 1 .. n : c[i] = s[i]
    BY <1>1, <2>1
  <2>3. c = s
    BY <2>1, <2>2, SeqEqual
  <2> QED BY <2>3 DEF c
<1> HIDE DEF t
<1>4. Held(Append(t, s[n])) = Held(t) + Worth(s[n])
  BY <1>1, <1>2, HeldAppended
<1>5. Held(s) = Held(Append(t, s[n]))
  BY <1>3, Zenon
<1> QED BY <1>4, <1>5 DEF t, TopOf

-----------------------------------------------------------------------------
(***************************************************************************)
(* The steps.                                                              *)
(***************************************************************************)
LEMMA TopIsGood ==
  ASSUME MemInv
  PROVE  FrameOK(Top) /\ Len(frames) \in Nat /\ Len(frames) >= 1
BY MemoryAssumption DEF MemInv, StackOK, Top, TopOf

LEMMA BecomeKeeps ==
  ASSUME MemInv, NEW g, FrameOK(g),
         g.checkpoint = Top.checkpoint, g.input = Top.input,
         Worth(g) <= Worth(Top),
         NEW own \in SUBSET ByteRange, NEW shared \in {Nothing, Top.input},
         LimitFeature /\ g.status # "halted" =>
           \A r \in own : r.from # r.to => r.to <= g.mem,
         Become(g, own, shared)
  PROVE  MemInv'
<1> DEFINE n == Len(frames)
<1>1. frames' = [frames EXCEPT ![n] = g]
  BY DEF Become
<1>2. StackOK(frames') /\ Len(frames') = n /\ Top' = g
  BY <1>1, ReplaceTop DEF MemInv, Top
<1>6. Held(frames') <= GasLimit
  <2>1. frames \in Seq(Frame) /\ n >= 1 /\ g \in Frame /\ Top = TopOf(frames)
    BY TopIsGood DEF MemInv, StackOK, FrameOK, Top
  <2>2. Held(frames') = Held(frames) - Worth(Top) + Worth(g)
    BY <2>1, <1>1, HeldReplaced
  <2>3. Held(frames) \in Nat /\ Worth(Top) \in Nat /\ Worth(g) \in Nat
    BY <2>1, TopIsGood, HeldType, WorthType
  <2>4. Held(frames) <= GasLimit /\ GasLimit \in Nat
    BY MemoryAssumption DEF MemInv
  <2> QED BY <2>2, <2>3, <2>4
<1>3. shared \in ByteRange /\ Nothing \in ByteRange
  <2>1. Top.input \in ByteRange
    BY TopIsGood DEF FrameOK, Frame
  <2> QED BY <2>1 DEF Nothing, Bytes, ByteRange
<1>4. MemoryTypeOK'
  <2>1. access' \in [own : SUBSET ByteRange, shared : ByteRange]
    BY <1>3 DEF Become, Untouched
  <2> QED BY <2>1, <1>2 DEF MemoryTypeOK, StackOK
<1>5. ASSUME LimitFeature
      PROVE  AccessInBounds'
  <2>1. CASE g.status = "halted"
    <3>1. access'.own = {} /\ access'.shared = Nothing
      BY <2>1 DEF Become, Untouched
    <3> QED BY <3>1 DEF AccessInBounds
  <2>2. CASE g.status # "halted"
    <3>1. /\ access'.own = {r \in own : r.from # r.to}
          /\ access'.shared = shared
      BY <2>2 DEF Become
    <3>2. \A r \in access'.own : r.to <= Top'.mem
      BY <3>1, <2>2, <1>5, <1>2
    <3>3. ASSUME shared # Nothing
          PROVE  /\ n > 1
                 /\ frames[n - 1].checkpoint <= shared.from
                 /\ shared.to <= Top.checkpoint
      <4>1. Top.input # Nothing /\ shared = Top.input
        BY <3>3
      <4>2. n > 1
        BY <4>1, TopIsGood DEF MemInv, StackOK, Top, TopOf
      <4>3. LinkOK(frames[n - 1], frames[n - 1 + 1])
        <5>1. n - 1 \in 1 .. n - 1
          BY <4>2, TopIsGood
        <5> QED BY <5>1 DEF MemInv, StackOK
      <4>4. frames[n - 1 + 1] = Top
        <5>1. n - 1 + 1 = n
          BY TopIsGood
        <5> QED BY <5>1 DEF Top, TopOf
      <4> QED BY <4>1, <4>2, <4>3, <4>4, <1>5 DEF LinkOK
    <3>4. ASSUME n > 1
          PROVE  frames'[n - 1] = frames[n - 1]
      <4>1. n - 1 \in DOMAIN frames /\ n - 1 # n
        BY <3>4, TopIsGood DEF MemInv, StackOK
      <4> QED BY <4>1, <1>1
    <3>5. Top'.checkpoint = Top.checkpoint
      BY <1>2
    <3> HIDE DEF n
    <3> QED BY <3>1, <3>2, <3>3, <3>4, <3>5, <1>2 DEF AccessInBounds
  <2> QED BY <2>1, <2>2
<1> QED BY <1>2, <1>4, <1>5, <1>6 DEF MemInv

LEMMA BytesAreRanges ==
  ASSUME NEW offset \in Nat, NEW len \in Nat
  PROVE  /\ Bytes(offset, len) \in ByteRange
         /\ Bytes(offset, len).from = offset
         /\ Bytes(offset, len).to = offset + len
         /\ Bytes(offset, len).from <= Bytes(offset, len).to
         /\ len = 0 <=> Bytes(offset, len).from = Bytes(offset, len).to
BY DEF Bytes, ByteRange

\* An opcode whose work is done on the top frame and that then touches at
\* most two ranges, both of them present.
LEMMA WorkKeeps ==
  ASSUME MemInv, NEW g, Worked(Top, g),
         NEW o1 \in Nat, NEW l1 \in Nat, Present(g, o1, l1),
         NEW o2 \in Nat, NEW l2 \in Nat, Present(g, o2, l2),
         NEW shared \in {Nothing, Top.input},
         Become(g, {Bytes(o1, l1), Bytes(o2, l2)}, shared)
  PROVE  MemInv'
<1> DEFINE own == {Bytes(o1, l1), Bytes(o2, l2)}
<1>1. FrameOK(g) /\ g.checkpoint = Top.checkpoint /\ g.input = Top.input
      /\ g.status \in {"running", "halted"} /\ Worth(g) <= Worth(Top)
  BY DEF Worked, Working, Preserved
<1>2. own \in SUBSET ByteRange
  BY BytesAreRanges
<1>3. ASSUME LimitFeature, g.status # "halted"
      PROVE  \A r \in own : r.from # r.to => r.to <= g.mem
  <2>1. Running(g)
    BY <1>1, <1>3 DEF Running
  <2>2. /\ Bytes(o1, l1).from # Bytes(o1, l1).to => Bytes(o1, l1).to <= g.mem
        /\ Bytes(o2, l2).from # Bytes(o2, l2).to => Bytes(o2, l2).to <= g.mem
    <3>1. /\ l1 # 0 => o1 + l1 <= g.mem
          /\ l2 # 0 => o2 + l2 <= g.mem
      BY <2>1, <1>3 DEF Present
    <3> QED BY <3>1, BytesAreRanges
  <2> QED BY <2>2
<1> HIDE DEF own
<1>4. Become(g, own, shared)
  BY DEF own
<1> QED BY <1>1, <1>2, <1>3, <1>4, BecomeKeeps

LEMMA WorkKeepsOne ==
  ASSUME MemInv, NEW g, Worked(Top, g),
         NEW o \in Nat, NEW l \in Nat, Present(g, o, l),
         NEW shared \in {Nothing, Top.input},
         Become(g, {Bytes(o, l)}, shared)
  PROVE  MemInv'
<1>1. {Bytes(o, l)} = {Bytes(o, l), Bytes(o, l)}
  OBVIOUS
<1>2. Become(g, {Bytes(o, l), Bytes(o, l)}, shared)
  BY <1>1
<1> QED BY <1>2, WorkKeeps

LEMMA HaltKeeps ==
  ASSUME MemInv, NEW g, Worked(Top, g), Become(g, {}, Nothing)
  PROVE  MemInv'
<1>1. FrameOK(g) /\ g.checkpoint = Top.checkpoint /\ g.input = Top.input
      /\ Worth(g) <= Worth(Top)
  BY DEF Worked, Working, Preserved
<1>2. {} \in SUBSET ByteRange /\ \A r \in {} : r.from # r.to => r.to <= g.mem
  OBVIOUS
<1> QED BY <1>1, <1>2, BecomeKeeps

LEMMA HaltedWorks ==
  ASSUME NEW f, Working(f)
  PROVE  Worked(f, Halted(f))
BY HaltingWorks DEF Worked

\* The running frame starts each opcode at work.
LEMMA TopWorks ==
  ASSUME MemInv, Running(Top)
  PROVE  Working(Top)
BY TopIsGood DEF Working, Running

LEMMA MloadKeeps ==
  ASSUME MemInv, Running(Top), Mload
  PROVE  MemInv'
<1>1. PICK offset \in Operands, cost \in Costs :
        Become(Resize(AsUsize(Charge(Top, cost), offset), offset, 32),
               {Bytes(offset, 32)}, Nothing)
  BY DEF Mload
<1> DEFINE c == Charge(Top, cost)
           a == AsUsize(c, offset)
           g == Resize(a, offset, 32)
<1>2. offset \in Nat /\ cost \in Nat /\ 32 \in Nat
  BY MemoryAssumption
<1>3. Worked(Top, c)
  BY <1>2, TopWorks, ChargeWorks DEF Worked
<1> HIDE DEF c
<1>4. Worked(c, a)
  BY <1>2, <1>3, AsUsizeWorks DEF Worked
<1> HIDE DEF a
<1>5. Worked(a, g) /\ Present(g, offset, 32)
  BY <1>2, <1>4, ResizeWorks DEF Worked, Present
<1> HIDE DEF g
<1>6. Worked(Top, g)
  BY <1>3, <1>4, <1>5, TopIsGood, WorkedTransitive DEF Worked, Working
<1>7. Become(g, {Bytes(offset, 32)}, Nothing)
  BY <1>1 DEF g, a, c
<1> QED BY <1>2, <1>5, <1>6, <1>7, WorkKeepsOne

LEMMA MstoreKeeps ==
  ASSUME MemInv, Running(Top), Mstore
  PROVE  MemInv'
<1>1. PICK offset \in Operands, cost \in Costs :
        Become(Resize(AsUsize(Charge(Top, cost), offset), offset, 32),
               {Bytes(offset, 32)}, Nothing)
  BY DEF Mstore
<1> DEFINE c == Charge(Top, cost)
           a == AsUsize(c, offset)
           g == Resize(a, offset, 32)
<1>2. offset \in Nat /\ cost \in Nat /\ 32 \in Nat
  BY MemoryAssumption
<1>3. Worked(Top, c)
  BY <1>2, TopWorks, ChargeWorks DEF Worked
<1> HIDE DEF c
<1>4. Worked(c, a)
  BY <1>2, <1>3, AsUsizeWorks DEF Worked
<1> HIDE DEF a
<1>5. Worked(a, g) /\ Present(g, offset, 32)
  BY <1>2, <1>4, ResizeWorks DEF Worked, Present
<1> HIDE DEF g
<1>6. Worked(Top, g)
  BY <1>3, <1>4, <1>5, TopIsGood, WorkedTransitive DEF Worked, Working
<1>7. Become(g, {Bytes(offset, 32)}, Nothing)
  BY <1>1 DEF g, a, c
<1> QED BY <1>2, <1>5, <1>6, <1>7, WorkKeepsOne

LEMMA Mstore8Keeps ==
  ASSUME MemInv, Running(Top), Mstore8
  PROVE  MemInv'
<1>1. PICK offset \in Operands, cost \in Costs :
        Become(Resize(AsUsize(Charge(Top, cost), offset), offset, 1),
               {Bytes(offset, 1)}, Nothing)
  BY DEF Mstore8
<1> DEFINE c == Charge(Top, cost)
           a == AsUsize(c, offset)
           g == Resize(a, offset, 1)
<1>2. offset \in Nat /\ cost \in Nat /\ 1 \in Nat
  BY MemoryAssumption
<1>3. Worked(Top, c)
  BY <1>2, TopWorks, ChargeWorks DEF Worked
<1> HIDE DEF c
<1>4. Worked(c, a)
  BY <1>2, <1>3, AsUsizeWorks DEF Worked
<1> HIDE DEF a
<1>5. Worked(a, g) /\ Present(g, offset, 1)
  BY <1>2, <1>4, ResizeWorks DEF Worked, Present
<1> HIDE DEF g
<1>6. Worked(Top, g)
  BY <1>3, <1>4, <1>5, TopIsGood, WorkedTransitive DEF Worked, Working
<1>7. Become(g, {Bytes(offset, 1)}, Nothing)
  BY <1>1 DEF g, a, c
<1> QED BY <1>2, <1>5, <1>6, <1>7, WorkKeepsOne

LEMMA McopyKeeps ==
  ASSUME MemInv, Running(Top), Mcopy
  PROVE  MemInv'
<1>1. PICK dst \in Operands, src \in Operands, len \in Operands, cost \in Costs :
        LET charged == Charge(AsUsize(Top, len), cost) IN
        Become(IF len = 0 THEN charged
               ELSE Resize(AsUsize(AsUsize(charged, dst), src), Farther(dst, src), len),
               {Bytes(dst, len), Bytes(src, len)}, Nothing)
  BY DEF Mcopy
<1> DEFINE a == AsUsize(Top, len)
           c == Charge(a, cost)
           d == AsUsize(c, dst)
           e == AsUsize(d, src)
           r == Resize(e, Farther(dst, src), len)
           g == IF len = 0 THEN c ELSE r
<1>2. /\ dst \in Nat /\ src \in Nat /\ len \in Nat /\ cost \in Nat
      /\ Farther(dst, src) \in Nat
      /\ dst <= Farther(dst, src) /\ src <= Farther(dst, src)
  BY MemoryAssumption DEF Farther
<1>3. Worked(Top, a)
  BY <1>2, TopWorks, AsUsizeWorks DEF Worked
<1> HIDE DEF a
<1>4. Worked(a, c)
  BY <1>2, <1>3, ChargeWorks DEF Worked
<1> HIDE DEF c
<1>5. Worked(c, d)
  BY <1>2, <1>4, AsUsizeWorks DEF Worked
<1> HIDE DEF d
<1>6. Worked(d, e)
  BY <1>2, <1>5, AsUsizeWorks DEF Worked
<1> HIDE DEF e
<1>7. Worked(e, r) /\ Present(r, Farther(dst, src), len)
  BY <1>2, <1>6, ResizeWorks DEF Worked, Present
<1> HIDE DEF r
<1>8. Worked(Top, c) /\ Worked(Top, r)
  <2>1. Worked(Top, c)
    BY <1>3, <1>4, TopIsGood, WorkedTransitive
  <2>2. Worked(Top, d)
    BY <2>1, <1>5, TopIsGood, WorkedTransitive
  <2>3. Worked(Top, e)
    BY <2>2, <1>6, TopIsGood, WorkedTransitive
  <2> QED BY <2>1, <2>3, <1>7, TopIsGood, WorkedTransitive
<1>9. Worked(Top, g)
  BY <1>8
<1>10. Present(g, dst, len) /\ Present(g, src, len)
  <2>1. CASE len = 0
    BY <2>1 DEF Present
  <2>2. CASE len # 0
    <3>1. r.mem \in Nat
      BY <1>7 DEF Worked, Working, FrameOK, Frame
    <3> QED BY <2>2, <3>1, <1>2, <1>7 DEF Present
  <2> QED BY <2>1, <2>2
<1> HIDE DEF g
<1>11. Become(g, {Bytes(dst, len), Bytes(src, len)}, Nothing)
  BY <1>1 DEF g, r, e, d, c, a
<1> QED BY <1>2, <1>9, <1>10, <1>11, WorkKeeps

LEMMA Keccak256Keeps ==
  ASSUME MemInv, Running(Top), Keccak256
  PROVE  MemInv'
<1>1. PICK offset \in Operands, len \in Operands, cost \in Costs :
        Become(CopyCostAndMemoryResize(Top, cost, offset, len),
               {Bytes(offset, len)}, Nothing)
  BY DEF Keccak256
<1> DEFINE g == CopyCostAndMemoryResize(Top, cost, offset, len)
<1>2. offset \in Nat /\ len \in Nat /\ cost \in Nat
  BY MemoryAssumption
<1>3. Worked(Top, g) /\ Present(g, offset, len)
  BY <1>2, TopWorks, CopyCostAndMemoryResizeWorks
<1> HIDE DEF g
<1>4. Become(g, {Bytes(offset, len)}, Nothing)
  BY <1>1 DEF g
<1>5. (Nothing) \in {Nothing, Top.input}
  OBVIOUS
<1> QED BY <1>2, <1>3, <1>4, <1>5, WorkKeepsOne

LEMMA CodecopyKeeps ==
  ASSUME MemInv, Running(Top), Codecopy
  PROVE  MemInv'
<1>1. PICK offset \in Operands, len \in Operands, cost \in Costs :
        Become(CopyCostAndMemoryResize(Top, cost, offset, len),
               {Bytes(offset, len)}, Nothing)
  BY DEF Codecopy
<1> DEFINE g == CopyCostAndMemoryResize(Top, cost, offset, len)
<1>2. offset \in Nat /\ len \in Nat /\ cost \in Nat
  BY MemoryAssumption
<1>3. Worked(Top, g) /\ Present(g, offset, len)
  BY <1>2, TopWorks, CopyCostAndMemoryResizeWorks
<1> HIDE DEF g
<1>4. Become(g, {Bytes(offset, len)}, Nothing)
  BY <1>1 DEF g
<1>5. (Nothing) \in {Nothing, Top.input}
  OBVIOUS
<1> QED BY <1>2, <1>3, <1>4, <1>5, WorkKeepsOne

LEMMA CalldatacopyKeeps ==
  ASSUME MemInv, Running(Top), Calldatacopy
  PROVE  MemInv'
<1>1. PICK offset \in Operands, len \in Operands, cost \in Costs :
        Become(CopyCostAndMemoryResize(Top, cost, offset, len),
               {Bytes(offset, len)}, IF len = 0 THEN Nothing ELSE Top.input)
  BY DEF Calldatacopy
<1> DEFINE g == CopyCostAndMemoryResize(Top, cost, offset, len)
<1>2. offset \in Nat /\ len \in Nat /\ cost \in Nat
  BY MemoryAssumption
<1>3. Worked(Top, g) /\ Present(g, offset, len)
  BY <1>2, TopWorks, CopyCostAndMemoryResizeWorks
<1> HIDE DEF g
<1>4. Become(g, {Bytes(offset, len)}, IF len = 0 THEN Nothing ELSE Top.input)
  BY <1>1 DEF g
<1>5. (IF len = 0 THEN Nothing ELSE Top.input) \in {Nothing, Top.input}
  OBVIOUS
<1> QED BY <1>2, <1>3, <1>4, <1>5, WorkKeepsOne

LEMMA ReturndatacopyKeeps ==
  ASSUME MemInv, Running(Top), Returndatacopy
  PROVE  MemInv'
<1>1. PICK offset \in Operands, source \in Operands, len \in Operands, cost \in Costs :
        Become(IF Saturated(Saturated(source) + len) > Top.returned THEN Halted(Top)
               ELSE CopyCostAndMemoryResize(Top, cost, offset, len),
               {Bytes(offset, len)}, Nothing)
  BY DEF Returndatacopy
<1> DEFINE r == CopyCostAndMemoryResize(Top, cost, offset, len)
           g == IF Saturated(Saturated(source) + len) > Top.returned THEN Halted(Top) ELSE r
<1>2. offset \in Nat /\ len \in Nat /\ cost \in Nat
  BY MemoryAssumption
<1>3. Worked(Top, r) /\ Present(r, offset, len)
  BY <1>2, TopWorks, CopyCostAndMemoryResizeWorks
<1> HIDE DEF r
<1>4. Worked(Top, Halted(Top)) /\ Present(Halted(Top), offset, len)
  BY TopWorks, HaltedWorks DEF Present, Halted, Running, Working, FrameOK, Frame
<1>5. Worked(Top, g) /\ Present(g, offset, len)
  BY <1>3, <1>4
<1>6. Become(g, {Bytes(offset, len)}, Nothing)
  BY <1>1 DEF r
<1> HIDE DEF g
<1> QED BY <1>2, <1>5, <1>6, WorkKeepsOne

LEMMA LogNKeeps ==
  ASSUME MemInv, Running(Top), LogN
  PROVE  MemInv'
<1>1. PICK offset \in Operands, len \in Operands, cost \in Costs :
        Become(IF Top.static THEN Halted(Top)
               ELSE CopyCostAndMemoryResize(Top, cost, offset, len),
               {Bytes(offset, len)}, Nothing)
  BY DEF LogN
<1> DEFINE r == CopyCostAndMemoryResize(Top, cost, offset, len)
           g == IF Top.static THEN Halted(Top) ELSE r
<1>2. offset \in Nat /\ len \in Nat /\ cost \in Nat
  BY MemoryAssumption
<1>3. Worked(Top, r) /\ Present(r, offset, len)
  BY <1>2, TopWorks, CopyCostAndMemoryResizeWorks
<1> HIDE DEF r
<1>4. Worked(Top, Halted(Top)) /\ Present(Halted(Top), offset, len)
  BY TopWorks, HaltedWorks DEF Present, Halted, Running, Working, FrameOK, Frame
<1>5. Worked(Top, g) /\ Present(g, offset, len)
  BY <1>3, <1>4
<1>6. Become(g, {Bytes(offset, len)}, Nothing)
  BY <1>1 DEF r
<1> HIDE DEF g
<1> QED BY <1>2, <1>5, <1>6, WorkKeepsOne

LEMMA ExtcodecopyKeeps ==
  ASSUME MemInv, Running(Top), Extcodecopy
  PROVE  MemInv'
<1>1. PICK offset \in Operands, len \in Operands, cost \in Costs, load \in Costs :
        Become(Charge(CopyCostAndMemoryResize(Top, cost, offset, len), load),
               {Bytes(offset, len)}, Nothing)
  BY DEF Extcodecopy
<1> DEFINE r == CopyCostAndMemoryResize(Top, cost, offset, len)
           g == Charge(r, load)
<1>2. offset \in Nat /\ len \in Nat /\ cost \in Nat /\ load \in Nat
  BY MemoryAssumption
<1>3. Worked(Top, r) /\ Present(r, offset, len)
  BY <1>2, TopWorks, CopyCostAndMemoryResizeWorks
<1> HIDE DEF r
<1>4. Worked(r, g)
  BY <1>2, <1>3, ChargeWorks DEF Worked
<1> HIDE DEF g
<1>5. Worked(Top, g)
  BY <1>3, <1>4, TopIsGood, WorkedTransitive
<1>6. Present(g, offset, len)
  BY <1>2, <1>3, <1>4 DEF Present, Worked, Working, Preserved, FrameOK, Frame
<1>7. Become(g, {Bytes(offset, len)}, Nothing)
  BY <1>1 DEF g, r
<1> QED BY <1>2, <1>5, <1>6, <1>7, WorkKeepsOne

LEMMA ReturnInnerKeeps ==
  ASSUME MemInv, Running(Top), NEW result \in {"returned", "reverted"},
         ReturnInner(result)
  PROVE  MemInv'
<1>1. PICK offset \in Operands, len \in Operands :
        LET f == ResizeUnlessEmpty(AsUsize(Top, len), offset, len) IN
        Become(IF Running(f) THEN [f EXCEPT !.status = result, !.output = len] ELSE f,
               {Bytes(offset, len)}, Nothing)
  BY DEF ReturnInner
<1> DEFINE a == AsUsize(Top, len)
           f == ResizeUnlessEmpty(a, offset, len)
           h == [f EXCEPT !.status = result, !.output = len]
           g == IF Running(f) THEN h ELSE f
           own == {Bytes(offset, len)}
<1>2. offset \in Nat /\ len \in Nat
  BY MemoryAssumption
<1>3. Worked(Top, a)
  BY <1>2, TopWorks, AsUsizeWorks DEF Worked
<1> HIDE DEF a
<1>4. Worked(a, f) /\ Present(f, offset, len)
  BY <1>2, <1>3, ResizeUnlessEmptyWorks DEF Worked
<1> HIDE DEF f
<1>5. FrameOK(f) /\ f.checkpoint = Top.checkpoint /\ f.input = Top.input
      /\ f.status \in {"running", "halted"} /\ Worth(f) <= Worth(Top)
  <2>1. Worked(Top, f)
    BY <1>3, <1>4, TopIsGood, WorkedTransitive
  <2> QED BY <2>1 DEF Worked, Working, Preserved
<1>6. CASE Running(f)
  <2>1. /\ h.checkpoint = f.checkpoint /\ h.input = f.input /\ h.mem = f.mem
        /\ h.await = f.await /\ h.words = f.words /\ h.expansion = f.expansion
        /\ h.charged = f.charged /\ h.status = result /\ h.gas = f.gas
    BY <1>5 DEF FrameOK, Frame
  <2>2. h \in Frame
    BY <1>5, <1>2 DEF FrameOK, Frame
  <2> HIDE DEF h
  <2>3. FrameOK(h)
    BY <2>1, <2>2, <1>5, <1>6 DEF FrameOK, Running
  <2>4. ASSUME LimitFeature
        PROVE  \A r \in own : r.from # r.to => r.to <= h.mem
    <3>1. len # 0 => offset + len <= f.mem
      BY <2>4, <1>4, <1>6 DEF Present
    <3>2. /\ Bytes(offset, len).to = offset + len
          /\ len = 0 <=> Bytes(offset, len).from = Bytes(offset, len).to
      BY <1>2, BytesAreRanges
    <3> QED BY <3>1, <3>2, <2>1
  <2>5. own \in SUBSET ByteRange
    BY <1>2, BytesAreRanges
  <2>6. Become(h, own, Nothing)
    BY <1>1, <1>6 DEF f, h, a
  <2>7. Worth(h) <= Worth(Top)
    BY <2>1, <1>5 DEF Worth
  <2> HIDE DEF own
  <2> QED BY <2>1, <2>3, <2>4, <2>5, <2>6, <2>7, <1>5, BecomeKeeps
<1>7. CASE ~ Running(f)
  <2>1. Become(f, {Bytes(offset, len)}, Nothing)
    BY <1>1, <1>7 DEF f, a
  <2>2. Worked(Top, f)
    BY <1>3, <1>4, TopIsGood, WorkedTransitive
  <2> QED BY <2>1, <2>2, <1>2, <1>4, WorkKeepsOne
<1> QED BY <1>6, <1>7

\* A call or a creation: what the caller gives away, and where the callee
\* begins.
LEMMA PushKeeps ==
  ASSUME MemInv, NEW f, Worked(Top, f), Running(f), Len(frames) < MaxDepth,
         NEW gas \in 0 .. f.gas, NEW await \in ByteRange, NEW input \in ByteRange,
         NEW static \in BOOLEAN, NEW creates \in BOOLEAN,
         await.from <= await.to,
         LimitFeature => await.to <= f.mem,
         LimitFeature /\ input # Nothing =>
           f.checkpoint <= input.from /\ input.to <= f.checkpoint + f.mem,
         frames' = Push([f EXCEPT !.gas = @ - gas, !.await = await],
                        input, gas, static, creates),
         access' = Untouched
  PROVE  MemInv'
<1> DEFINE h == [f EXCEPT !.gas = @ - gas, !.await = await]
           s == [frames EXCEPT ![Len(frames)] = h]
           new == NewFrame(h.checkpoint + h.mem, gas, input, static, creates)
<1>1. /\ FrameOK(f) /\ f.checkpoint = Top.checkpoint /\ f.input = Top.input
      /\ f \in Frame /\ f.gas \in Nat /\ f.checkpoint \in Nat /\ f.mem \in Nat
      /\ f.charged \in Nat /\ Worth(f) <= Worth(Top)
  BY DEF Worked, Working, Preserved, FrameOK, Frame
<1>2. gas \in Nat /\ f.gas - gas \in Nat
  BY <1>1
<1>3. h \in Frame
  BY <1>1, <1>2 DEF Frame
<1>4. /\ h.checkpoint = f.checkpoint /\ h.input = f.input /\ h.mem = f.mem
      /\ h.await = await /\ h.words = f.words /\ h.expansion = f.expansion
      /\ h.charged = f.charged /\ h.status = "running" /\ h.gas = f.gas - gas
  BY <1>1 DEF Frame, Running
<1> HIDE DEF h
<1>5. FrameOK(h)
  BY <1>1, <1>3, <1>4 DEF FrameOK, Running
<1>6. StackOK(s) /\ Len(s) = Len(frames) /\ TopOf(s) = h
  BY <1>1, <1>4, <1>5, ReplaceTop DEF MemInv, Top
<1> HIDE DEF s
<1>7. new \in Frame
  <2>1. Nothing \in ByteRange
    BY DEF Nothing, Bytes, ByteRange
  <2> QED BY <2>1, <1>1, <1>2, <1>4 DEF NewFrame, Frame
<1>8. /\ new.checkpoint = h.checkpoint + h.mem /\ new.mem = 0 /\ new.words = 0
      /\ new.expansion = 0 /\ new.charged = 0 /\ new.input = input
      /\ new.await = Nothing /\ new.gas = gas
  BY DEF NewFrame
<1> HIDE DEF new
<1>9. FrameOK(new)
  <2>1. new.checkpoint % 32 = 0 /\ new.mem % 32 = 0
    BY <1>1, <1>4, <1>8, SumsOfWords DEF FrameOK
  <2>2. LimitFeature => new.checkpoint + new.mem <= MemoryLimit
    BY <1>1, <1>4, <1>8 DEF FrameOK
  <2>3. MonadMemoryCost(0) = 0
    BY DEF MonadMemoryCost
  <2>4. new.await.from <= new.await.to
    BY <1>8 DEF Nothing, Bytes
  <2> QED BY <2>1, <2>2, <2>3, <2>4, <1>7, <1>8 DEF FrameOK
<1>10. LinkOK(h, new)
  BY <1>1, <1>4, <1>8 DEF LinkOK, Running
<1>11. frames' = Append(s, new)
  BY DEF Push, h, s, new
<1>12. StackOK(frames')
  BY <1>6, <1>9, <1>10, <1>11, AppendFrame
<1>13. MemoryTypeOK' /\ AccessInBounds'
  <2>1. access' \in [own : SUBSET ByteRange, shared : ByteRange]
    BY DEF Untouched, Nothing, Bytes, ByteRange
  <2> QED BY <2>1, <1>12 DEF MemoryTypeOK, StackOK, AccessInBounds, Untouched
<1>14. Held(frames') <= GasLimit
  <2>1. frames \in Seq(Frame) /\ Len(frames) >= 1 /\ Top = TopOf(frames)
        /\ Held(frames) <= GasLimit
    BY TopIsGood DEF MemInv, StackOK, Top
  <2>2. Held(s) = Held(frames) - Worth(Top) + Worth(h)
    BY <2>1, <1>3, HeldReplaced DEF s
  <2>3. s \in Seq(Frame)
    BY <1>6 DEF StackOK
  <2>4. Held(frames') = Held(s) + Worth(new)
    BY <2>3, <1>7, <1>11, HeldAppended
  <2>5. Worth(h) + Worth(new) = Worth(f) /\ Worth(h) \in Nat /\ Worth(new) \in Nat
    BY <1>1, <1>2, <1>4, <1>8 DEF Worth
  <2>6. Held(frames) \in Nat /\ Worth(Top) \in Nat /\ Worth(f) \in Nat
    BY <2>1, <1>1, TopIsGood, HeldType, WorthType
  <2> QED BY <2>1, <2>2, <2>4, <2>5, <2>6, <1>1, MemoryAssumption
<1> QED BY <1>12, <1>13, <1>14 DEF MemInv

LEMMA CallFrameKeeps ==
  ASSUME MemInv, Running(Top), NEW static \in BOOLEAN, CallFrame(static)
  PROVE  MemInv'
<1>1. PICK in \in Operands, inLen \in Operands, out \in Operands,
           outLen \in Operands, cost \in Costs :
        LET f == Charge(InputAndOutRanges(Top, in, inLen, out, outLen), cost)
            await == IF outLen = 0 THEN Nothing ELSE Bytes(out, outLen)
        IN  IF ~ Running(f) THEN Become(f, {}, Nothing)
            ELSE /\ Len(frames) < MaxDepth
                 /\ \E gas \in 0 .. f.gas :
                      frames' = Push([f EXCEPT !.gas = @ - gas, !.await = await],
                                     SharedInput(f, in, inLen), gas, static, FALSE)
                 /\ access' = Untouched
  BY DEF CallFrame
<1> DEFINE r == InputAndOutRanges(Top, in, inLen, out, outLen)
           f == Charge(r, cost)
           await == IF outLen = 0 THEN Nothing ELSE Bytes(out, outLen)
           input == SharedInput(f, in, inLen)
<1>2. /\ in \in Nat /\ inLen \in Nat /\ out \in Nat /\ outLen \in Nat
      /\ cost \in Nat
  BY MemoryAssumption
<1>3. Worked(Top, r) /\ Present(r, in, inLen) /\ Present(r, out, outLen)
  BY <1>2, TopWorks, InputAndOutRangesWorks
<1> HIDE DEF r
<1>4. Worked(r, f)
  BY <1>2, <1>3, ChargeWorks DEF Worked
<1> HIDE DEF f
<1>5. Worked(Top, f)
  BY <1>3, <1>4, TopIsGood, WorkedTransitive
<1>6. CASE ~ Running(f)
  <2>1. Become(f, {}, Nothing)
    BY <1>1, <1>6 DEF f, r
  <2> QED BY <2>1, <1>5, HaltKeeps
<1>7. CASE Running(f)
  <2>1. /\ Len(frames) < MaxDepth
        /\ access' = Untouched
        /\ \E gas \in 0 .. f.gas :
             frames' = Push([f EXCEPT !.gas = @ - gas, !.await = await],
                            input, gas, static, FALSE)
    BY <1>1, <1>7 DEF f, r
  <2>2. PICK gas \in 0 .. f.gas :
          frames' = Push([f EXCEPT !.gas = @ - gas, !.await = await],
                         input, gas, static, FALSE)
    BY <2>1
  <2>3. r.mem \in Nat /\ f.mem \in Nat /\ f.checkpoint \in Nat
        /\ f.mem >= r.mem /\ Running(r)
    BY <1>3, <1>4, <1>7 DEF Worked, Working, Preserved, FrameOK, Frame
  <2>4. LimitFeature => /\ inLen # 0 => in + inLen <= f.mem
                        /\ outLen # 0 => out + outLen <= f.mem
    BY <2>3, <1>2, <1>3 DEF Present
  <2>5. /\ Nothing \in ByteRange /\ Nothing.from <= Nothing.to /\ Nothing.to = 0
    BY DEF Nothing, Bytes, ByteRange
  <2>6. await \in ByteRange /\ await.from <= await.to
    BY <2>5, <1>2, BytesAreRanges
  <2>7. LimitFeature => await.to <= f.mem
    <3>1. CASE outLen = 0
      BY <3>1, <2>3, <2>5
    <3>2. CASE outLen # 0
      <4>1. await = Bytes(out, outLen)
        BY <3>2
      <4> HIDE DEF await
      <4>2. await.to = out + outLen
        BY <4>1, <1>2, BytesAreRanges
      <4> QED BY <4>2, <3>2, <2>4
    <3> QED BY <3>1, <3>2
  <2>8. /\ input \in ByteRange
        /\ LimitFeature /\ input # Nothing =>
             f.checkpoint <= input.from /\ input.to <= f.checkpoint + f.mem
    <3>1. CASE inLen = 0
      <4>1. input = Nothing
        BY <3>1 DEF SharedInput
      <4> HIDE DEF input
      <4> QED BY <4>1, <2>5
    <3>2. CASE inLen # 0
      <4>1. input = Bytes(f.checkpoint + in, inLen)
        BY <3>2 DEF SharedInput
      <4>2. f.checkpoint + in \in Nat
        BY <2>3, <1>2
      <4> HIDE DEF input
      <4>3. input \in ByteRange /\ input.from = f.checkpoint + in
            /\ input.to = f.checkpoint + in + inLen
        BY <4>1, <4>2, <1>2, BytesAreRanges
      <4> QED BY <4>3, <3>2, <2>3, <2>4, <1>2
    <3> QED BY <3>1, <3>2
  <2> HIDE DEF await, input
  <2> QED BY <2>1, <2>2, <2>6, <2>7, <2>8, <1>5, <1>7, PushKeeps
<1> QED BY <1>6, <1>7

LEMMA CallKeeps ==
  ASSUME MemInv, Running(Top), Call
  PROVE  MemInv'
<1>1. CASE Top.static /\ Become(Halted(Top), {}, Nothing)
  BY <1>1, TopWorks, HaltedWorks, HaltKeeps
<1>2. CASE CallFrame(Top.static)
  <2>1. Top.static \in BOOLEAN
    BY TopIsGood DEF FrameOK, Frame
  <2> QED BY <1>2, <2>1, CallFrameKeeps
<1> QED BY <1>1, <1>2 DEF Call

LEMMA CreateKeeps ==
  ASSUME MemInv, Running(Top), Create
  PROVE  MemInv'
<1>1. PICK offset \in Operands, len \in Operands, cost \in Costs,
           createCost \in Costs :
        LET fits == CopyCostAndMemoryResize(Top, cost, offset, len)
            f == Charge(fits, createCost)
        IN  IF Top.static THEN Become(Halted(Top), {}, Nothing)
            ELSE IF ~ Running(f) THEN Become(f, {}, Nothing)
            ELSE /\ Len(frames) < MaxDepth
                 /\ \E gas \in 0 .. f.gas :
                      frames' = Push([f EXCEPT !.gas = @ - gas, !.await = Nothing],
                                     Nothing, gas, FALSE, TRUE)
                 /\ access' = Untouched
  BY DEF Create
<1> DEFINE r == CopyCostAndMemoryResize(Top, cost, offset, len)
           f == Charge(r, createCost)
<1>2. offset \in Nat /\ len \in Nat /\ cost \in Nat /\ createCost \in Nat
  BY MemoryAssumption
<1>3. Worked(Top, r)
  BY <1>2, TopWorks, CopyCostAndMemoryResizeWorks
<1> HIDE DEF r
<1>4. Worked(r, f)
  BY <1>2, <1>3, ChargeWorks DEF Worked
<1> HIDE DEF f
<1>5. Worked(Top, f)
  BY <1>3, <1>4, TopIsGood, WorkedTransitive
<1>6. CASE Top.static
  <2>1. Become(Halted(Top), {}, Nothing)
    BY <1>1, <1>6
  <2> QED BY <2>1, TopWorks, HaltedWorks, HaltKeeps
<1>7. CASE ~ Top.static /\ ~ Running(f)
  <2>1. Become(f, {}, Nothing)
    BY <1>1, <1>7 DEF f, r
  <2> QED BY <2>1, <1>5, HaltKeeps
<1>8. CASE ~ Top.static /\ Running(f)
  <2>1. /\ Len(frames) < MaxDepth
        /\ access' = Untouched
        /\ \E gas \in 0 .. f.gas :
             frames' = Push([f EXCEPT !.gas = @ - gas, !.await = Nothing],
                            Nothing, gas, FALSE, TRUE)
    BY <1>1, <1>8 DEF f, r
  <2>2. /\ Nothing \in ByteRange /\ Nothing.from <= Nothing.to /\ Nothing.to = 0
        /\ f.mem \in Nat
    BY <1>5 DEF Nothing, Bytes, ByteRange, Worked, Working, FrameOK, Frame
  <2>3. LimitFeature => Nothing.to <= f.mem
    BY <2>2
  <2>4. FALSE \in BOOLEAN /\ TRUE \in BOOLEAN
    OBVIOUS
  <2>5. PICK gas \in 0 .. f.gas :
          frames' = Push([f EXCEPT !.gas = @ - gas, !.await = Nothing],
                         Nothing, gas, FALSE, TRUE)
    BY <2>1
  <2> QED BY <2>1, <2>2, <2>3, <2>4, <2>5, <1>5, <1>8, PushKeeps
<1> QED BY <1>6, <1>7, <1>8

LEMMA ReplaceLast ==
  ASSUME NEW s \in Seq(Frame), Len(s) > 1, NEW g \in Frame
  PROVE  Append(SubSeq(s, 1, Len(s) - 2), g)
           = [SubSeq(s, 1, Len(s) - 1) EXCEPT ![Len(s) - 1] = g]
<1> DEFINE n == Len(s)
           t == SubSeq(s, 1, n - 1)
           b == SubSeq(s, 1, n - 2)
           c == Append(b, g)
           d == [t EXCEPT ![n - 1] = g]
<1>1. n \in Nat /\ n > 1 /\ n - 2 \in Nat
  OBVIOUS
<1>2. t \in Seq(Frame) /\ Len(t) = n - 1 /\ \A i \in 1 .. n - 1 : t[i] = s[i]
  BY <1>1
<1>3. b \in Seq(Frame) /\ Len(b) = n - 2 /\ \A i \in 1 .. n - 2 : b[i] = s[i]
  <2>1. CASE n = 2
    <3>1. b = << >>
      BY <2>1, SubSeqEmpty
    <3> HIDE DEF b
    <3> QED BY <2>1, <3>1
  <2>2. CASE n > 2
    <3>1. \A i \in 1 .. n - 2 : s[i] \in Frame
      BY <1>1
    <3>2. /\ b \in Seq(Frame)
          /\ Len(b) = IF 1 <= n - 2 THEN n - 2 - 1 + 1 ELSE 0
          /\ \A i \in 1 .. n - 2 - 1 + 1 : b[i] = s[1 + i - 1]
      BY <3>1, <1>1, SubSeqProperties
    <3> HIDE DEF b
    <3>3. \A i \in 1 .. n - 2 : b[i] = s[i]
      BY <3>2, <1>1
    <3> QED BY <3>2, <3>3, <2>2, <1>1
  <2> HIDE DEF n, b
  <2> QED BY <2>1, <2>2, <1>1
<1> HIDE DEF n, t, b
<1>4. c \in Seq(Frame) /\ Len(c) = n - 1 /\ c[n - 1] = g
      /\ \A i \in 1 .. n - 2 : c[i] = s[i]
  BY <1>1, <1>3
<1>5. d \in Seq(Frame) /\ Len(d) = n - 1 /\ d[n - 1] = g
      /\ \A i \in 1 .. n - 2 : d[i] = s[i]
  BY <1>1, <1>2
<1> HIDE DEF c, d
<1>6. \A i \in 1 .. n - 1 : c[i] = d[i]
  BY <1>1, <1>4, <1>5
<1>7. c = d
  BY <1>4, <1>5, <1>6, SeqEqual
<1> QED BY <1>7 DEF c, d, b, t, n

\* The result of a call goes where the caller reserved a place for it.
LEMMA FrameResultKeeps ==
  ASSUME MemInv, FrameResult
  PROVE  MemInv'
<1> DEFINE n == Len(frames)
           child == Top
           caller == frames[n - 1]
           halted == child.status = "halted"
           output == IF halted \/ (child.creates /\ child.status = "returned") THEN 0
                     ELSE child.output
           room == caller.await.to - caller.await.from
           copied == IF output < room THEN output ELSE room
           refund == IF halted THEN 0 ELSE child.gas
           g == [caller EXCEPT !.gas = @ + refund, !.await = Nothing,
                               !.returned = output]
           t == SubSeq(frames, 1, n - 1)
<1>1. /\ n > 1 /\ n \in Nat
      /\ frames' = Append(SubSeq(frames, 1, n - 2), g)
      /\ access' = [own |-> IF copied = 0 THEN {} ELSE {Bytes(caller.await.from, copied)},
                    shared |-> Nothing]
  BY TopIsGood DEF FrameResult
<1>2. FrameOK(child) /\ child \in Frame /\ child.gas \in Nat /\ child.output \in Nat
  BY TopIsGood DEF FrameOK, Frame
<1>3. StackOK(t) /\ Len(t) = n - 1 /\ TopOf(t) = caller
  BY <1>1, DropTop DEF MemInv
<1>4. FrameOK(caller) /\ caller \in Frame /\ caller.gas \in Nat
      /\ caller.mem \in Nat /\ caller.await \in ByteRange
  <2>1. n - 1 \in 1 .. n
    BY <1>1
  <2> QED BY <2>1 DEF MemInv, StackOK, FrameOK, Frame
<1>5. LinkOK(caller, child)
  <2>1. n - 1 \in 1 .. n - 1 /\ n - 1 + 1 = n
    BY <1>1
  <2> QED BY <2>1 DEF MemInv, StackOK, Top, TopOf
<1>6. output \in Nat /\ refund \in Nat /\ caller.gas + refund \in Nat
      /\ refund <= child.gas
      /\ Nothing \in ByteRange /\ Nothing.from <= Nothing.to
  BY <1>2, <1>4 DEF Nothing, Bytes, ByteRange
<1>7. /\ room \in Nat /\ copied \in Nat /\ copied <= room
      /\ caller.await.from \in Nat /\ caller.await.to = caller.await.from + room
  <2>1. caller.await.from <= caller.await.to /\ caller.await \in ByteRange
    BY <1>4 DEF FrameOK
  <2> HIDE DEF caller, output
  <2> QED BY <2>1, <1>6 DEF ByteRange
<1> HIDE DEF child, output, refund, room, copied
<1>8. g \in Frame
  BY <1>4, <1>6 DEF Frame
<1>9. /\ g.checkpoint = caller.checkpoint /\ g.input = caller.input
      /\ g.mem = caller.mem /\ g.await = Nothing /\ g.words = caller.words
      /\ g.expansion = caller.expansion /\ g.charged = caller.charged
      /\ g.status = caller.status /\ g.gas = caller.gas + refund
  BY <1>4 DEF Frame
<1> HIDE DEF g, caller
<1>10. FrameOK(g)
  BY <1>4, <1>6, <1>8, <1>9 DEF FrameOK
<1>11. /\ StackOK([t EXCEPT ![Len(t)] = g])
       /\ TopOf([t EXCEPT ![Len(t)] = g]) = g
       /\ Len([t EXCEPT ![Len(t)] = g]) = n - 1
  BY <1>3, <1>9, <1>10, ReplaceTop
<1>12. frames' = [t EXCEPT ![Len(t)] = g]
  <2>1. frames \in Seq(Frame) /\ g \in Frame
    BY <1>10 DEF MemInv, StackOK, FrameOK
  <2>2. Append(SubSeq(frames, 1, n - 2), g) = [t EXCEPT ![n - 1] = g]
    BY <2>1, <1>1, ReplaceLast
  <2> QED BY <2>2, <1>1, <1>3
<1>13. StackOK(frames') /\ Top' = g
  BY <1>11, <1>12 DEF Top
<1>14. MemoryTypeOK'
  <2>1. Bytes(caller.await.from, copied) \in ByteRange
    BY <1>7, BytesAreRanges
  <2> QED BY <2>1, <1>1, <1>6, <1>13 DEF MemoryTypeOK, StackOK
<1>15. ASSUME LimitFeature
       PROVE  AccessInBounds'
  <2>1. Bytes(caller.await.from, copied).to <= g.mem
    <3>1. Bytes(caller.await.from, copied).to = caller.await.from + copied
      BY <1>7, BytesAreRanges
    <3>2. caller.await.to <= caller.mem
      BY <1>5, <1>15 DEF LinkOK
    <3> QED BY <3>1, <3>2, <1>4, <1>7, <1>9
  <2>2. access'.shared = Nothing
    BY <1>1
  <2>3. \A r \in access'.own : r.to <= Top'.mem
    BY <2>1, <1>1, <1>13
  <2> QED BY <2>2, <2>3 DEF AccessInBounds
<1>16. Held(frames') <= GasLimit
  <2>1. frames \in Seq(Frame) /\ Top = TopOf(frames) /\ Held(frames) <= GasLimit
    BY DEF MemInv, StackOK, Top
  <2>2. Held(frames) = Held(t) + Worth(child)
    BY <2>1, <1>1, HeldDropped DEF child
  <2>3. t \in Seq(Frame) /\ Len(t) >= 1
    BY <1>1, <1>3 DEF StackOK
  <2>4. Held(frames') = Held(t) - Worth(caller) + Worth(g)
    <3> HIDE DEF t
    <3> QED BY <2>3, <1>3, <1>8, <1>12, HeldReplaced
  <2>5. Held(t) \in Nat
    BY <2>3, HeldType
  <2>6. Worth(caller) \in Nat /\ Worth(g) = Worth(caller) + refund
    BY <1>4, <1>6, <1>9 DEF Worth, Frame
  <2>7. Worth(child) \in Nat /\ refund <= Worth(child)
    BY <1>2, <1>6 DEF Worth, Frame
  <2> HIDE DEF t
  <2> QED BY <2>1, <2>2, <2>4, <2>5, <2>6, <2>7, <1>6, MemoryAssumption
<1> QED BY <1>13, <1>14, <1>15, <1>16 DEF MemInv

LEMMA InitGood == MemoryInit => MemInv
<1> SUFFICES ASSUME MemoryInit PROVE MemInv
  OBVIOUS
<1> DEFINE f == NewFrame(0, GasLimit, Nothing, FALSE, FALSE)
<1>1. /\ frames = <<f>> /\ access = Untouched
  BY DEF MemoryInit
<1>2. /\ f.checkpoint = 0 /\ f.mem = 0 /\ f.words = 0 /\ f.expansion = 0
      /\ f.charged = 0 /\ f.input = Nothing /\ f.await = Nothing
      /\ f.gas = GasLimit
  BY DEF NewFrame
<1>3. Nothing \in ByteRange /\ Nothing.from <= Nothing.to
  BY DEF Nothing, Bytes, ByteRange
<1>4. f \in Frame
  BY <1>3, MemoryAssumption DEF NewFrame, Frame
<1> HIDE DEF f
<1>5. FrameOK(f)
  <2>1. MonadMemoryCost(0) = 0 /\ 0 % 32 = 0
    BY DEF MonadMemoryCost
  <2> QED BY <2>1, <1>2, <1>3, <1>4, MemoryAssumption DEF FrameOK
<1>6. StackOK(frames)
  BY <1>1, <1>2, <1>4, <1>5, MemoryAssumption DEF StackOK
<1>7. access \in [own : SUBSET ByteRange, shared : ByteRange]
  BY <1>1, <1>3 DEF Untouched
<1>8. Held(frames) <= GasLimit
  <2> DEFINE u == [i \in 1 .. 1 |-> Worth(<<f>>[i])]
  <2>1. Held(frames) = SumFunctionOnSet(u, 1 .. 1)
    BY <1>1 DEF Held
  <2>2. u[1] = GasLimit
    BY <1>2, MemoryAssumption DEF Worth
  <2> HIDE DEF u
  <2>3. SumFunctionOnSet(u, {} \cup {1}) = u[1] + SumFunctionOnSet(u, {})
    <3>1. \A y \in {} \cup {1} : u[y] \in Int
      BY <2>2, MemoryAssumption
    <3> QED BY <3>1, SumAdd, FS_EmptySet
  <2>4. {} \cup {1} = 1 .. 1
    OBVIOUS
  <2>5. SumFunctionOnSet(u, {} \cup {1}) = SumFunctionOnSet(u, 1 .. 1)
    BY <2>4, Zenon
  <2> QED BY <2>1, <2>2, <2>3, <2>5, SumEmpty, MemoryAssumption
<1> QED BY <1>1, <1>6, <1>7, <1>8 DEF MemInv, MemoryTypeOK, StackOK, AccessInBounds, Untouched

LEMMA NextKeeps == MemInv /\ [MemoryNext]_memoryVars => MemInv'
<1> SUFFICES ASSUME MemInv, [MemoryNext]_memoryVars PROVE MemInv'
  OBVIOUS
<1>1. CASE UNCHANGED memoryVars
  BY <1>1 DEF memoryVars, MemInv, MemoryTypeOK, AccessInBounds, Top
<1>2. CASE FrameResult
  BY <1>2, FrameResultKeeps
<1>3. CASE Running(Top) /\ Opcode
  <2>1. CASE Mload
    BY <2>1, <1>3, MloadKeeps
  <2>2. CASE Mstore
    BY <2>2, <1>3, MstoreKeeps
  <2>3. CASE Mstore8
    BY <2>3, <1>3, Mstore8Keeps
  <2>4. CASE Mcopy
    BY <2>4, <1>3, McopyKeeps
  <2>5. CASE Keccak256
    BY <2>5, <1>3, Keccak256Keeps
  <2>6. CASE Calldatacopy
    BY <2>6, <1>3, CalldatacopyKeeps
  <2>7. CASE Codecopy
    BY <2>7, <1>3, CodecopyKeeps
  <2>8. CASE Returndatacopy
    BY <2>8, <1>3, ReturndatacopyKeeps
  <2>9. CASE Extcodecopy
    BY <2>9, <1>3, ExtcodecopyKeeps
  <2>10. CASE LogN
    BY <2>10, <1>3, LogNKeeps
  <2>11. CASE Create
    BY <2>11, <1>3, CreateKeeps
  <2>12. CASE Call
    BY <2>12, <1>3, CallKeeps
  <2>13. CASE CallCode \/ DelegateCall \/ StaticCall
    <3>1. Top.static \in BOOLEAN
      BY TopIsGood DEF FrameOK, Frame
    <3> QED BY <3>1, <2>13, <1>3, CallFrameKeeps DEF CallCode, DelegateCall, StaticCall
  <2>14. CASE Ret \/ RevertOp
    BY <2>14, <1>3, ReturnInnerKeeps DEF Ret, RevertOp
  <2>15. CASE Fault
    BY <2>15, <1>3, TopWorks, HaltedWorks, HaltKeeps DEF Fault
  <2> QED BY <2>1, <2>2, <2>3, <2>4, <2>5, <2>6, <2>7, <2>8, <2>9, <2>10, <2>11,
             <2>12, <2>13, <2>14, <2>15, <1>3 DEF Opcode
<1> QED BY <1>1, <1>2, <1>3 DEF MemoryNext

LEMMA MemoryInvariant == MemorySpec => []MemInv
BY InitGood, NextKeeps, PTL DEF MemorySpec

-----------------------------------------------------------------------------
\* Every frame of the call stack keeps its type: no opcode takes more gas
\* than its frame has.
THEOREM MemoryTypeCorrect == MemorySpec => []MemoryTypeOK
<1>1. MemInv => MemoryTypeOK
  BY DEF MemInv
<1> QED BY <1>1, MemoryInvariant, PTL

\* With the feature memory_limit, the frames of a transaction together never
\* hold more than the limit, although the comparison is in bytes and the
\* growth in words.
THEOREM LimitHolds == MemorySpec => [](LimitFeature => PoolWithinLimit)
<1>1. MemInv => (LimitFeature => PoolWithinLimit)
  BY TopIsGood DEF FrameOK, PoolWithinLimit, Pool
<1> QED BY <1>1, MemoryInvariant, PTL

\* With the feature, no opcode and no result of a call reaches a byte that
\* was not reserved for it, and no callee reads arguments in its own memory.
THEOREM AccessesReserved == MemorySpec => [](LimitFeature => AccessInBounds)
<1>1. MemInv => (LimitFeature => AccessInBounds)
  BY DEF MemInv
<1> QED BY <1>1, MemoryInvariant, PTL

\* What a frame pays for memory depends on how much it has and not on the
\* steps it grew in, and the unchecked subtraction is never negative.
THEOREM MemoryPaidOnce == MemorySpec => []ExpansionPaid
<1>1. MemInv => ExpansionPaid
  BY DEF MemInv, StackOK, FrameOK, ExpansionPaid
<1> QED BY <1>1, MemoryInvariant, PTL

\* The frames lie one after the other, so that the buffer up to the end of a
\* frame is what the frames up to it have, and they have it for their gas.
LEMMA PaidUpToFrame ==
  ASSUME NEW s, StackOK(s), NEW u,
         \A i \in 1 .. Len(s) : u[i] = Worth(s[i])
  PROVE  \A i \in 1 .. Len(s) :
           s[i].checkpoint + s[i].mem <= 64 * SumFunctionOnSet(u, 1 .. i) + 32 * i
<1> DEFINE n == Len(s)
           Fits(i) == s[i].checkpoint + s[i].mem <= 64 * SumFunctionOnSet(u, 1 .. i) + 32 * i
           Good == {T \in SUBSET (1 .. n) : \A i \in 1 .. n : T = 1 .. i => Fits(i)}
<1>1. n \in Nat /\ n >= 1 /\ IsFiniteSet(1 .. n)
  BY MemoryAssumption, FS_Interval DEF StackOK
<1>2. ASSUME NEW i \in 1 .. n
      PROVE  /\ u[i] \in Nat /\ s[i].checkpoint \in Nat /\ s[i].mem \in Nat
             /\ s[i].mem <= 64 * u[i] + 32
  <2>1. FrameOK(s[i]) /\ u[i] = Worth(s[i])
    BY DEF StackOK
  <2>2. /\ s[i].gas \in Nat /\ s[i].charged \in Nat /\ s[i].mem \in Nat
        /\ s[i].checkpoint \in Nat /\ s[i].mem <= 64 * s[i].charged + 32
    BY <2>1 DEF FrameOK, Frame
  <2>3. u[i] = s[i].gas + s[i].charged
    BY <2>1 DEF Worth
  <2> QED BY <2>2, <2>3
<1>3. ASSUME NEW T \in SUBSET (1 .. n), \A U \in SUBSET T : U # T => U \in Good
      PROVE  T \in Good
  <2> SUFFICES ASSUME NEW i \in 1 .. n, T = 1 .. i
               PROVE  Fits(i)
    OBVIOUS
  <2> DEFINE before == SumFunctionOnSet(u, 1 .. i - 1)
  <2>1. SumFunctionOnSet(u, 1 .. i) = u[i] + before /\ before \in Nat
    <3> DEFINE all == 1 .. i
               rest == 1 .. i - 1
    <3>1. IsFiniteSet(all) /\ IsFiniteSet(rest)
      BY FS_Interval
    <3>2. all \ {i} = rest /\ i \in all
      BY <1>1
    <3>3. (\A x \in all : u[x] \in Int) /\ \A x \in rest : u[x] \in Nat
      BY <1>1, <1>2
    <3> HIDE DEF all, rest
    <3>4. SumFunctionOnSet(u, all) = u[i] + SumFunctionOnSet(u, all \ {i})
      BY <3>1, <3>2, <3>3, SumTake
    <3>5. SumFunctionOnSet(u, all \ {i}) = SumFunctionOnSet(u, rest)
      BY <3>2, Zenon
    <3>6. SumFunctionOnSet(u, rest) \in Nat
      BY <3>1, <3>3, SumNat
    <3> QED BY <3>4, <3>5, <3>6 DEF all, rest
  <2>2. s[i].checkpoint <= 64 * before + 32 * (i - 1)
    <3>1. CASE i = 1
      <4>1. s[i].checkpoint = 0
        BY <3>1 DEF StackOK
      <4> HIDE DEF before
      <4> QED BY <3>1, <4>1, <2>1
    <3>2. CASE i # 1
      <4>1. i - 1 \in 1 .. n /\ i - 1 \in 1 .. n - 1 /\ i - 1 + 1 = i
        BY <3>2, <1>1
      <4>2. (1 .. i - 1) \in SUBSET T /\ (1 .. i - 1) # T
        BY <1>1
      <4>3. Fits(i - 1)
        BY <1>3, <4>1, <4>2
      <4>4. s[i].checkpoint = s[i - 1].checkpoint + s[i - 1].mem
        BY <4>1 DEF StackOK, LinkOK
      <4> QED BY <4>3, <4>4
    <3> QED BY <3>1, <3>2
  <2> HIDE DEF before
  <2>3. /\ u[i] \in Nat /\ s[i].checkpoint \in Nat /\ s[i].mem \in Nat
        /\ s[i].mem <= 64 * u[i] + 32
    BY <1>2
  <2>4. \A c, m, w, b, k \in Int :
          c <= 64 * b + 32 * (k - 1) /\ m <= 64 * w + 32
            => c + m <= 64 * (w + b) + 32 * k
    OBVIOUS
  <2>5. i \in Int /\ before \in Int /\ u[i] \in Int
    BY <2>1, <2>3, <1>1
  <2>6. s[i].checkpoint \in Int /\ s[i].mem \in Int
    BY <2>3
  <2>7. s[i].checkpoint + s[i].mem <= 64 * (u[i] + before) + 32 * i
    BY ONLY <2>2, <2>3, <2>4, <2>5, <2>6, Zenon
  <2>8. s[i].checkpoint + s[i].mem <= 64 * SumFunctionOnSet(u, 1 .. i) + 32 * i
    BY <2>1, <2>7, Zenon
  <2> QED BY <2>8
<1>4. Good \in SUBSET SUBSET (1 .. n)
  OBVIOUS
<1> HIDE DEF Good
<1>5. Good = SUBSET (1 .. n)
  BY <1>1, <1>3, <1>4, SubsetInduction
<1>6. ASSUME NEW i \in 1 .. n
      PROVE  Fits(i)
  <2>1. 1 .. i \in Good
    BY <1>1, <1>5
  <2> QED BY <2>1 DEF Good
<1> QED BY <1>6

\* Gas alone bounds the buffer, in however many frames and steps it grew and
\* whatever gas the calls passed on and gave back: no gas is used twice.
THEOREM GasBoundsPool == MemorySpec => []PoolPaidFor
<1>1. ASSUME MemInv
      PROVE  PoolPaidFor
  <2> DEFINE n == Len(frames)
             u == [i \in 1 .. n |-> Worth(frames[i])]
  <2>1. StackOK(frames) /\ n \in Nat /\ n \in 1 .. n
    BY <1>1, TopIsGood DEF MemInv
  <2>2. \A i \in 1 .. n : u[i] = Worth(frames[i])
    OBVIOUS
  <2>3. SumFunctionOnSet(u, 1 .. n) = Held(frames)
    BY DEF Held
  <2> HIDE DEF u
  <2>4. frames[n].checkpoint + frames[n].mem <= 64 * SumFunctionOnSet(u, 1 .. n) + 32 * n
    BY <2>1, <2>2, PaidUpToFrame
  <2>5. Pool = frames[n].checkpoint + frames[n].mem
    BY DEF Pool, Top, TopOf
  <2>6. Pool \in Nat
    BY <1>1, TopIsGood DEF FrameOK, Frame, Pool
  <2>7. Held(frames) \in Nat /\ Held(frames) <= GasLimit /\ GasLimit \in Nat
    BY <1>1, HeldType, MemoryAssumption DEF MemInv, StackOK
  <2> HIDE DEF n
  <2>8. Pool <= 32 * (2 * GasLimit + n)
    BY <2>1, <2>3, <2>4, <2>5, <2>6, <2>7
  <2> QED BY <2>8 DEF PoolPaidFor, n
<1> QED BY <1>1, MemoryInvariant, PTL
=============================================================================
