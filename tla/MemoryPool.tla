----------------------------- MODULE MemoryPool -----------------------------
(***************************************************************************)
(* The memory of one transaction under the linear cost model:              *)
(* crates/suwappu-revm/src/memory/mod.rs and memory/opcodes.rs.            *)
(*                                                                         *)
(* All frames of the call stack share one buffer.  A frame owns the part   *)
(* from its checkpoint to the next frame's checkpoint; only the top frame  *)
(* runs, so only the last part grows.  A call hands over its arguments as  *)
(* a range of the buffer, which the callee reads where it lies, and names  *)
(* the range that is to receive the result.                                *)
(*                                                                         *)
(* Contents are left out: an opcode is what it charges, how it expands the *)
(* memory, and which bytes it then reads or writes without looking at the  *)
(* length again.  Stack underflow, unknown opcodes and whatever else stops *)
(* a frame is the action Fault.                                            *)
(***************************************************************************)
EXTENDS Integers, Sequences

CONSTANTS
  Operands,       \* offsets and lengths found on the stack
  USIZE_MAX,      \* the largest usize
  MemoryLimit,    \* MONAD_MEMORY_LIMIT, in bytes
  LimitFeature,   \* is the crate built with the feature memory_limit?
  GasLimit,       \* gas of the transaction
  Costs,          \* what an opcode costs besides its memory
  MaxDepth        \* bound: frames of the call stack

ASSUME MemoryAssumption ==
  /\ USIZE_MAX \in Nat
  /\ Operands \subseteq Nat
  /\ MemoryLimit \in Nat
  /\ MemoryLimit < USIZE_MAX
  /\ MemoryLimit % 32 = 0
  /\ LimitFeature \in BOOLEAN
  /\ GasLimit \in Nat
  /\ Costs \subseteq Nat
  /\ MaxDepth \in Nat \ {0}

VARIABLES
  frames,   \* the call stack; the last one runs
  access    \* the bytes the last step read or wrote

memoryVars == <<frames, access>>

TopOf(s) == s[Len(s)]

Top == TopOf(frames)

\* A range of bytes, from inclusive to exclusive.
Bytes(from, len) == [from |-> from, to |-> from + len]

Nothing == Bytes(0, 0)

(***************************************************************************)
(* A frame: its part of the buffer, `mem` bytes from `checkpoint` on; the  *)
(* words it has been charged for with their cost, as Gas keeps them; the   *)
(* gas it has left; the arguments it was called with, in bytes of the      *)
(* buffer; the range that awaits the result of its pending call, in bytes  *)
(* of its own memory; how much its last call returned.  `charged` is a     *)
(* history variable: all it paid for memory.                               *)
(***************************************************************************)
NewFrame(checkpoint, gas, input, static, creates) ==
  [checkpoint |-> checkpoint, mem |-> 0, words |-> 0, expansion |-> 0,
   charged |-> 0, gas |-> gas, input |-> input, await |-> Nothing,
   returned |-> 0, static |-> static, creates |-> creates,
   status |-> "running", output |-> 0]

Untouched == [own |-> {}, shared |-> Nothing]

MemoryInit ==
  /\ frames = <<NewFrame(0, GasLimit, Nothing, FALSE, FALSE)>>
  /\ access = Untouched

-----------------------------------------------------------------------------
(***************************************************************************)
(* memory/mod.rs                                                           *)
(***************************************************************************)
NumWords(bytes) == (bytes + 31) \div 32

MonadMemoryCost(words) == words \div 2

Saturated(n) == IF n > USIZE_MAX THEN USIZE_MAX ELSE n

Running(f) == f.status = "running"

Halted(f) == [f EXCEPT !.status = "halted"]

LimitReached(f, offset, len) ==
  LimitFeature /\ Saturated(f.checkpoint + offset + len) > MemoryLimit

\* A slip: nobody looks whether the gas suffices.
ResizeColdUnpaid(f, words) ==
  LET total == MonadMemoryCost(words)
      delta == total - f.expansion
  IN  [f EXCEPT !.words = words, !.expansion = total, !.gas = @ - delta,
                !.charged = @ + delta, !.mem = 32 * words]

\* A slip: every expansion is charged for its own words.
ResizeColdByStep(f, words) ==
  LET delta == MonadMemoryCost(words - f.words)
      counted == [f EXCEPT !.words = words, !.expansion = @ + delta]
  IN  IF delta > f.gas THEN Halted(counted)
      ELSE [counted EXCEPT !.gas = @ - delta, !.charged = @ + delta,
                           !.mem = 32 * words]

\* The memory is counted before it is paid for: a frame that cannot pay
\* halts with words it does not have.
ResizeCold(f, words) ==
  LET total == MonadMemoryCost(words)
      delta == total - f.expansion
      counted == [f EXCEPT !.words = words, !.expansion = total]
  IN  IF delta > f.gas THEN Halted(counted)
      ELSE [counted EXCEPT !.gas = @ - delta, !.charged = @ + delta,
                           !.mem = 32 * words]

\* A slip: the limit is held against the frame's own memory.
ResizeByFrame(f, offset, len) ==
  LET words == NumWords(Saturated(offset + len)) IN
  IF ~ Running(f) THEN f
  ELSE IF LimitFeature /\ Saturated(offset + len) > MemoryLimit THEN Halted(f)
  ELSE IF words > f.words THEN ResizeCold(f, words)
  ELSE f

Resize(f, offset, len) ==
  LET words == NumWords(Saturated(offset + len)) IN
  IF ~ Running(f) THEN f
  ELSE IF LimitReached(f, offset, len) THEN Halted(f)
  ELSE IF words > f.words THEN ResizeCold(f, words)
  ELSE f

-----------------------------------------------------------------------------
(***************************************************************************)
(* memory/opcodes.rs                                                       *)
(***************************************************************************)
\* as_usize_or_fail!
AsUsize(f, operand) ==
  IF Running(f) /\ operand > USIZE_MAX THEN Halted(f) ELSE f

\* gas!
Charge(f, cost) ==
  IF ~ Running(f) THEN f
  ELSE IF cost > f.gas THEN Halted(f)
  ELSE [f EXCEPT !.gas = @ - cost]

\* An empty range needs neither an offset nor memory.
ResizeUnlessEmpty(f, offset, len) ==
  IF len = 0 THEN f ELSE Resize(AsUsize(f, offset), offset, len)

CopyCostAndMemoryResize(f, cost, offset, len) ==
  ResizeUnlessEmpty(Charge(AsUsize(f, len), cost), offset, len)

\* The frame goes on, or halts, and has touched these bytes if it goes on.
Become(f, own, shared) ==
  /\ frames' = [frames EXCEPT ![Len(frames)] = f]
  /\ access' = IF f.status = "halted" THEN Untouched
               ELSE [own |-> {r \in own : r.from # r.to}, shared |-> shared]

Mload ==
  \E offset \in Operands, cost \in Costs :
    Become(Resize(AsUsize(Charge(Top, cost), offset), offset, 32),
           {Bytes(offset, 32)}, Nothing)

Mstore ==
  \E offset \in Operands, cost \in Costs :
    Become(Resize(AsUsize(Charge(Top, cost), offset), offset, 32),
           {Bytes(offset, 32)}, Nothing)

Mstore8 ==
  \E offset \in Operands, cost \in Costs :
    Become(Resize(AsUsize(Charge(Top, cost), offset), offset, 1),
           {Bytes(offset, 1)}, Nothing)

Farther(dst, src) == IF dst >= src THEN dst ELSE src

Mcopy ==
  \E dst, src, len \in Operands, cost \in Costs :
    LET charged == Charge(AsUsize(Top, len), cost) IN
    Become(IF len = 0 THEN charged
           ELSE Resize(AsUsize(AsUsize(charged, dst), src),
                       Farther(dst, src), len),
           {Bytes(dst, len), Bytes(src, len)}, Nothing)

Keccak256 ==
  \E offset, len \in Operands, cost \in Costs :
    Become(CopyCostAndMemoryResize(Top, cost, offset, len),
           {Bytes(offset, len)}, Nothing)

\* Reads the arguments in the caller's part of the buffer.
Calldatacopy ==
  \E offset, len \in Operands, cost \in Costs :
    Become(CopyCostAndMemoryResize(Top, cost, offset, len),
           {Bytes(offset, len)}, IF len = 0 THEN Nothing ELSE Top.input)

Codecopy ==
  \E offset, len \in Operands, cost \in Costs :
    Become(CopyCostAndMemoryResize(Top, cost, offset, len),
           {Bytes(offset, len)}, Nothing)

Returndatacopy ==
  \E offset, source, len \in Operands, cost \in Costs :
    Become(IF Saturated(Saturated(source) + len) > Top.returned THEN Halted(Top)
           ELSE CopyCostAndMemoryResize(Top, cost, offset, len),
           {Bytes(offset, len)}, Nothing)

\* An account is loaded after the memory was made to fit; that can fail too.
Extcodecopy ==
  \E offset, len \in Operands, cost, load \in Costs :
    Become(Charge(CopyCostAndMemoryResize(Top, cost, offset, len), load),
           {Bytes(offset, len)}, Nothing)

LogN ==
  \E offset, len \in Operands, cost \in Costs :
    Become(IF Top.static THEN Halted(Top)
           ELSE CopyCostAndMemoryResize(Top, cost, offset, len),
           {Bytes(offset, len)}, Nothing)

\* monad_return_inner: RETURN and REVERT.
ReturnInner(result) ==
  \E offset, len \in Operands :
    LET f == ResizeUnlessEmpty(AsUsize(Top, len), offset, len) IN
    Become(IF Running(f) THEN [f EXCEPT !.status = result, !.output = len] ELSE f,
           {Bytes(offset, len)}, Nothing)

Ret == ReturnInner("returned")

RevertOp == ReturnInner("reverted")

-----------------------------------------------------------------------------
\* The next frame begins where the buffer ends (external: new_child_context).
Push(f, input, gas, static, creates) ==
  Append([frames EXCEPT ![Len(frames)] = f],
         NewFrame(f.checkpoint + f.mem, gas, input, static, creates))

\* A slip: the result is expected within what the arguments needed.
InputRangeOnly(f, in, inLen, out, outLen) ==
  ResizeUnlessEmpty(AsUsize(f, inLen), in, inLen)

\* The memory for both ranges of a call, arguments first.
InputAndOutRanges(f, in, inLen, out, outLen) ==
  ResizeUnlessEmpty(AsUsize(ResizeUnlessEmpty(AsUsize(f, inLen), in, inLen), outLen),
                    out, outLen)

\* A slip: the place of the arguments is not moved to where the frame begins.
SharedInputOfFrame(f, in, inLen) ==
  IF inLen = 0 THEN Nothing ELSE Bytes(in, inLen)

\* The arguments of a call in bytes of the buffer.
SharedInput(f, in, inLen) ==
  IF inLen = 0 THEN Nothing ELSE Bytes(f.checkpoint + in, inLen)

(***************************************************************************)
(* A call.  What it costs and how much of its gas it passes on is computed *)
(* by load_acc_and_calc_gas (external); a stipend is less than the price   *)
(* of the transfer it comes with.                                          *)
(***************************************************************************)
CallFrame(static) ==
  \E in, inLen, out, outLen \in Operands, cost \in Costs :
    LET f == Charge(InputAndOutRanges(Top, in, inLen, out, outLen), cost)
        await == IF outLen = 0 THEN Nothing ELSE Bytes(out, outLen)
    IN  IF ~ Running(f) THEN Become(f, {}, Nothing)
        ELSE /\ Len(frames) < MaxDepth
             /\ \E gas \in 0 .. f.gas :
                  frames' = Push([f EXCEPT !.gas = @ - gas, !.await = await],
                                 SharedInput(f, in, inLen), gas, static, FALSE)
             /\ access' = Untouched

\* A call that transfers value may not come from a static frame.
Call ==
  \/ Top.static /\ Become(Halted(Top), {}, Nothing)
  \/ CallFrame(Top.static)

CallCode == CallFrame(Top.static)

DelegateCall == CallFrame(Top.static)

StaticCall == CallFrame(TRUE)

\* The init code is copied out of the memory.
Create ==
  \E offset, len \in Operands, cost, createCost \in Costs :
    LET fits == CopyCostAndMemoryResize(Top, cost, offset, len)
        f == Charge(fits, createCost)
    IN  IF Top.static THEN Become(Halted(Top), {}, Nothing)
        ELSE IF ~ Running(f) THEN Become(f, {}, Nothing)
        ELSE /\ Len(frames) < MaxDepth
             /\ \E gas \in 0 .. f.gas :
                  frames' = Push([f EXCEPT !.gas = @ - gas, !.await = Nothing],
                                 Nothing, gas, FALSE, TRUE)
             /\ access' = Untouched

Fault == Become(Halted(Top), {}, Nothing)

(***************************************************************************)
(* A frame has ended (external: revm's frame handling).  Its part of the   *)
(* buffer is dropped; unless it halted, its caller gets the remaining gas  *)
(* and the output, as much of it as it asked for.  What a creation returns *)
(* is the new code.                                                        *)
(***************************************************************************)
FrameResult ==
  LET child == Top
      caller == frames[Len(frames) - 1]
      halted == child.status = "halted"
      output == IF halted \/ (child.creates /\ child.status = "returned") THEN 0
                ELSE child.output
      room == caller.await.to - caller.await.from
      copied == IF output < room THEN output ELSE room
  IN  /\ ~ Running(child)
      /\ Len(frames) > 1
      /\ frames' = Append(SubSeq(frames, 1, Len(frames) - 2),
                     [caller EXCEPT !.gas = @ + (IF halted THEN 0 ELSE child.gas),
                                    !.await = Nothing, !.returned = output])
      /\ access' = [own |-> IF copied = 0 THEN {} ELSE {Bytes(caller.await.from, copied)},
                    shared |-> Nothing]

Opcode ==
  \/ Mload \/ Mstore \/ Mstore8 \/ Mcopy
  \/ Keccak256
  \/ Calldatacopy \/ Codecopy \/ Returndatacopy \/ Extcodecopy
  \/ LogN
  \/ Create \/ Call \/ CallCode \/ DelegateCall \/ StaticCall
  \/ Ret \/ RevertOp
  \/ Fault

MemoryNext == (Running(Top) /\ Opcode) \/ FrameResult

MemorySpec == MemoryInit /\ [][MemoryNext]_memoryVars

-----------------------------------------------------------------------------
ByteRange == [from : Nat, to : Nat]

Frame ==
  [checkpoint : Nat, mem : Nat, words : Nat, expansion : Nat, charged : Nat,
   gas : Nat, input : ByteRange, await : ByteRange, returned : Nat, static : BOOLEAN,
   creates : BOOLEAN, status : {"running", "halted", "returned", "reverted"}, output : Nat]

\* Type correctness of the call stack of a transaction: gas in particular
\* never goes below zero in any frame.
MemoryTypeOK ==
  /\ frames \in Seq(Frame)
  /\ Len(frames) \in 1 .. MaxDepth
  /\ access \in [own : SUBSET ByteRange, shared : ByteRange]

\* How much of the buffer is in use.
Pool == Top.checkpoint + Top.mem

\* The cap of memory/mod.rs: all frames together never hold more than the
\* limit, although monad_resize_memory compares bytes and then grows by
\* whole words, and although every frame compares only its own end.
PoolWithinLimit == Pool <= MemoryLimit

\* Every opcode writes and reads within the memory of its own frame, and
\* copies arguments only from its caller's part of the buffer.  Neither is
\* looked at again after monad_resize_memory: bytes outside would be a panic
\* or another frame's memory.  This includes the result of a call, whose
\* place was reserved before the callee ran.
AccessInBounds ==
  /\ \A r \in access.own : r.to <= Top.mem
  /\ access.shared # Nothing =>
       /\ Len(frames) > 1
       /\ frames[Len(frames) - 1].checkpoint <= access.shared.from
       /\ access.shared.to <= Top.checkpoint

\* A frame has paid for its memory what the whole of it costs, however many
\* steps it was expanded in; so the subtraction in monad_resize_memory_cold,
\* unwrapped without a check, never goes below zero.
ExpansionPaid ==
  \A i \in 1 .. Len(frames) :
    LET f == frames[i] IN
    f.status # "halted" =>
      f.charged = MonadMemoryCost(f.words) /\ f.expansion = f.charged

\* Gas alone bounds the buffer as well: two words for a unit of gas, and one
\* word free in every frame.
PoolPaidFor == Pool <= 32 * (2 * GasLimit + Len(frames))
=============================================================================
