--------------------------- MODULE AssemblerProofs ---------------------------
(***************************************************************************)
(* Theorems about Assembler, for every frame size, stream length and bound *)
(* of the chunks that is no longer than a frame.  That bound is an         *)
(* assumption on the callers: SizesAssumption says why.  The inductive     *)
(* invariant adds to the checked invariants that leftovers exist only      *)
(* while no frame has been started: the leftovers of the last frame are    *)
(* all taken by the next call.                                             *)
(***************************************************************************)
EXTENDS Assembler, TLAPS

LeftoversStartFrame == leftoverCount > 0 => counter = 0

IInv ==
  /\ TypeOK
  /\ Conservation
  /\ LeftoversStartFrame
  /\ InOrder

------------------------------------------------------------------------------
\* The quantities one call computes stay inside the buffers, for a chunk of at most
\* a frame: the copy loops never run past the frame and what is left over fits the
\* leftover buffer.
LEMMA CallBounds ==
  ASSUME TypeOK, Conservation, LeftoversStartFrame, NEW len \in 1 .. MaxChunk
  PROVE  /\ CopyCount = leftoverCount
         /\ Filled = counter + leftoverCount
         /\ Filled \in Slots
         /\ BytesLeft(len) \in 0 .. len
         /\ Filled + BytesLeft(len) \in 1 .. PacketSize
         /\ BytesToCopy(len) \in Slots
         /\ BytesToCopy(len) > 0 => Filled + BytesLeft(len) = PacketSize
         /\ Closes(len) <=> Filled + BytesLeft(len) = PacketSize
         /\ len = BytesLeft(len) + BytesToCopy(len)
<1>1. CopyCount = leftoverCount
  BY SizesAssumption DEF TypeOK, Conservation, CopyCount, Slots
<1>2. Filled = counter + leftoverCount /\ Filled \in Slots
  BY <1>1, SizesAssumption DEF TypeOK, LeftoversStartFrame, Filled, Slots
<1>3. len \in 1 .. PacketSize
  BY SizesAssumption
<1>4. CASE Closes(len)
  BY <1>1, <1>2, <1>3, <1>4, SizesAssumption
  DEF Closes, BytesLeft, BytesToCopy, Slots
<1>5. CASE ~Closes(len)
  BY <1>1, <1>2, <1>3, <1>5, SizesAssumption
  DEF Closes, BytesLeft, BytesToCopy, Slots
<1> QED BY <1>4, <1>5

\* One more frame is PacketSize more bytes.
LEMMA NextFrame ==
  ASSUME NEW k \in Nat
  PROVE  /\ PacketSize * k \in Nat
         /\ PacketSize * (k + 1) = PacketSize * k + PacketSize
BY SizesAssumption

LEMMA InitIInv == Init => IInv
<1> SUFFICES ASSUME Init PROVE IInv
  OBVIOUS
<1>1. PacketSize * 0 = 0 /\ 0 \in Slots
  BY SizesAssumption DEF Slots
<1>2. TypeOK
  BY <1>1 DEF Init, TypeOK
<1>3. Conservation /\ LeftoversStartFrame
  BY <1>1 DEF Init, Conservation, LeftoversStartFrame
<1>4. InOrder
  BY <1>1 DEF Init, InOrder, Slots
<1> QED BY <1>2, <1>3, <1>4 DEF IInv

\* One call, stated without its local quantities: what it leaves in each
\* variable.
LEMMA CallEffect ==
  ASSUME IInv, NEW len \in 1 .. MaxChunk, Assemble(len)
  PROVE  /\ counter' \in Slots
         /\ leftoverCount' \in Slots
         /\ leftoverCount' = BytesToCopy(len)
         /\ leftoverFlag' \in BOOLEAN
         /\ Closes(len) => leftoverFlag'
         /\ received' = received + len
         /\ \/ /\ Closes(len)
               /\ counter' = 0
               /\ delivered' = delivered + 1
               /\ result' = PACKET_COMPLETE
            \/ /\ ~Closes(len)
               /\ counter' = Filled + len
               /\ leftoverCount' = 0
               /\ delivered' = delivered
               /\ result' = PACKET_INCOMPLETE
<1>1. /\ CopyCount = leftoverCount
      /\ Filled \in Slots
      /\ Filled + BytesLeft(len) \in 1 .. PacketSize
      /\ BytesToCopy(len) \in Slots
      /\ BytesToCopy(len) > 0 => Filled + BytesLeft(len) = PacketSize
      /\ Closes(len) <=> Filled + BytesLeft(len) = PacketSize
  BY CallBounds DEF IInv
<1>2. leftoverCount' = BytesToCopy(len) /\ received' = received + len
  BY <1>1, SizesAssumption DEF Assemble, IInv, TypeOK, Slots
<1>3. leftoverFlag' \in BOOLEAN /\ (Closes(len) => leftoverFlag')
  BY Zenon DEF Assemble
<1>4. CASE Closes(len)
  BY <1>1, <1>2, <1>3, <1>4, SizesAssumption DEF Assemble, Slots
<1>5. CASE ~Closes(len)
  <2>1. BytesLeft(len) = len
    BY <1>5 DEF BytesLeft
  <2>2. BytesToCopy(len) = 0
    BY <1>1, <1>5 DEF Slots
  <2> QED
    BY <1>1, <1>2, <1>3, <1>5, <2>1, <2>2, SizesAssumption DEF Assemble, Slots
<1> QED BY <1>4, <1>5

\* The frame under construction, after a call, holds consecutive bytes of the
\* stream up to where the call filled it.
LEMMA FrameFilled ==
  ASSUME IInv, NEW len \in 1 .. MaxChunk, Assemble(len),
         NEW i \in Slots, i < Filled + BytesLeft(len)
  PROVE  outputBuffer'[i] = PacketSize * delivered + i + 1
<1>1. /\ CopyCount = leftoverCount
      /\ Filled = counter + leftoverCount
      /\ Filled \in Slots
  BY CallBounds DEF IInv
<1>2. received = PacketSize * delivered + Filled
      /\ received \in Nat /\ PacketSize * delivered \in Nat
  BY <1>1, NextFrame, SizesAssumption DEF IInv, TypeOK, Conservation, Slots
<1>3. outputBuffer'[i] =
        IF i >= counter /\ i < Filled THEN leftoverBuffer[i - counter]
        ELSE IF i >= Filled THEN ChunkByte(i - Filled)
        ELSE outputBuffer[i]
  BY <1>1, SizesAssumption DEF Assemble, Slots
<1>4. CASE i < counter
  BY <1>1, <1>2, <1>3, <1>4 DEF IInv, TypeOK, InOrder, Slots
<1>5. CASE i >= counter /\ i < Filled
  <2>1. i - counter \in Slots /\ i - counter < leftoverCount
    BY <1>1, <1>5, SizesAssumption DEF IInv, TypeOK, Slots
  <2>2. leftoverBuffer[i - counter]
          = PacketSize * delivered + 1 + counter + (i - counter)
    BY <2>1 DEF IInv, InOrder
  <2> QED BY <1>2, <1>3, <1>5, <2>2 DEF IInv, TypeOK, Slots
<1>6. CASE i >= Filled
  BY <1>1, <1>2, <1>3, <1>6 DEF ChunkByte, IInv, TypeOK, Slots
<1> QED BY <1>1, <1>4, <1>5, <1>6 DEF IInv, TypeOK, Slots

LEMMA StepIInv == IInv /\ [Next]_vars => IInv'
<1> SUFFICES ASSUME IInv, [Next]_vars PROVE IInv'
  OBVIOUS
<1>1. CASE UNCHANGED vars
  BY <1>1 DEF vars, IInv, TypeOK, Conservation, LeftoversStartFrame, InOrder
<1>2. CASE Next
  <2> PICK len \in 1 .. MaxChunk : Assemble(len)
    BY <1>2 DEF Next
  <2>1. /\ Filled = counter + leftoverCount
        /\ Filled \in Slots
        /\ BytesLeft(len) \in 0 .. len
        /\ Filled + BytesLeft(len) \in 1 .. PacketSize
        /\ BytesToCopy(len) \in Slots
        /\ BytesToCopy(len) > 0 => Closes(len)
        /\ Closes(len) <=> Filled + BytesLeft(len) = PacketSize
        /\ len = BytesLeft(len) + BytesToCopy(len)
    BY CallBounds DEF IInv
  <2>2. /\ counter' \in Slots
        /\ leftoverCount' \in Slots
        /\ leftoverCount' = BytesToCopy(len)
        /\ leftoverFlag' \in BOOLEAN
        /\ Closes(len) => leftoverFlag'
        /\ received' = received + len
        /\ \/ /\ Closes(len)
              /\ counter' = 0
              /\ delivered' = delivered + 1
              /\ result' = PACKET_COMPLETE
           \/ /\ ~Closes(len)
              /\ counter' = Filled + len
              /\ leftoverCount' = 0
              /\ delivered' = delivered
              /\ result' = PACKET_INCOMPLETE
    BY CallEffect
  <2>3. /\ received = PacketSize * delivered + Filled
        /\ received \in Nat
        /\ delivered \in Nat
        /\ PacketSize * delivered \in Nat
        /\ PacketSize * (delivered + 1) = PacketSize * delivered + PacketSize
    BY <2>1, NextFrame, SizesAssumption DEF IInv, TypeOK, Conservation, Slots
  <2>4. /\ leftoverBuffer' \in [Slots -> Nat]
        /\ \A i \in Slots :
             i < BytesToCopy(len)
               => leftoverBuffer'[i] = received + 1 + BytesLeft(len) + i
    <3>1. leftoverCount - CopyCount = 0
      BY CallBounds DEF IInv, TypeOK, Slots
    <3>2. leftoverBuffer' =
            [i \in Slots |->
               IF i >= 0 /\ i < BytesToCopy(len)
               THEN ChunkByte(BytesLeft(len) + i - 0)
               ELSE leftoverBuffer[i]]
      BY <2>1, <3>1, SizesAssumption DEF Assemble, Slots
    <3>3. ASSUME NEW i \in Slots
          PROVE  ChunkByte(BytesLeft(len) + i - 0)
                   = received + 1 + BytesLeft(len) + i
                 /\ received + 1 + BytesLeft(len) + i \in Nat
      BY <2>1, <2>3 DEF ChunkByte, Slots
    <3>4. leftoverBuffer \in [Slots -> Nat]
      BY DEF IInv, TypeOK
    <3> QED BY <2>1, <3>2, <3>3, <3>4 DEF Slots
  <2>5. outputBuffer' \in [Slots -> Nat]
    <3>1. ASSUME NEW i \in Slots
          PROVE  /\ (i >= counter /\ i < Filled) => leftoverBuffer[i - counter] \in Nat
                 /\ i >= Filled => ChunkByte(i - Filled) \in Nat
                 /\ outputBuffer[i] \in Nat
      <4>1. (i >= counter /\ i < Filled) => i - counter \in Slots
        BY <2>1, SizesAssumption DEF IInv, TypeOK, Slots
      <4>2. i >= Filled => ChunkByte(i - Filled) \in Nat
        BY <2>1, <2>3 DEF ChunkByte, Slots
      <4> QED BY <4>1, <4>2 DEF IInv, TypeOK
    <3>2. outputBuffer' =
            [i \in Slots |->
               IF i >= counter /\ i < Filled THEN leftoverBuffer[i - counter]
               ELSE IF i >= Filled /\ i < Filled + BytesLeft(len)
               THEN ChunkByte(i - Filled)
               ELSE outputBuffer[i]]
      BY DEF Assemble
    <3> QED BY <3>1, <3>2
  <2>6. TypeOK'
    <3>1. received' \in Nat /\ delivered' \in Nat
      BY <2>2, <2>3
    <3>2. leftoverFlag' \in BOOLEAN
      BY <2>2
    <3>3. counter' \in Slots /\ leftoverCount' \in Slots
      BY <2>2
    <3>4. result' \in {PACKET_INCOMPLETE, PACKET_COMPLETE}
      BY <2>2
    <3>5. leftoverBuffer' \in [Slots -> Nat]
      BY <2>4
    <3> QED BY <2>5, <3>1, <3>2, <3>3, <3>4, <3>5
       DEF TypeOK, Slots, PACKET_COMPLETE, PACKET_INCOMPLETE
  <2>7. Conservation'
    <3>1. received' = PacketSize * delivered' + counter' + leftoverCount'
      <4>1. CASE Closes(len)
        BY <2>1, <2>2, <2>3, <4>1, SizesAssumption DEF Slots
      <4>2. CASE ~Closes(len)
        BY <2>1, <2>2, <2>3, <4>2, SizesAssumption DEF Slots
      <4> QED BY <4>1, <4>2
    <3>2. ~leftoverFlag' => leftoverCount' = 0
      BY <2>2, Zenon
    <3> QED BY <3>1, <3>2 DEF Conservation
  <2>8. LeftoversStartFrame'
    BY <2>1, <2>2, SizesAssumption DEF LeftoversStartFrame, Slots
  <2>9. InOrder'
    <3>1. CASE Closes(len)
      <4>1. counter' = 0 /\ delivered' = delivered + 1
        BY <2>2, <3>1
      <4>2. received + BytesLeft(len) = PacketSize * delivered'
        BY <2>1, <2>3, <3>1, <4>1, SizesAssumption DEF Slots
      <4>3. ASSUME NEW i \in Slots, i < leftoverCount'
            PROVE  leftoverBuffer'[i] = PacketSize * delivered' + 1 + counter' + i
        <5>1. leftoverBuffer'[i] = received + 1 + BytesLeft(len) + i
          BY <2>2, <2>4, <4>3
        <5> QED BY <2>1, <2>3, <4>1, <4>2, <5>1 DEF Slots
      <4> QED BY <4>1, <4>3 DEF InOrder, Slots
    <3>2. CASE ~Closes(len)
      <4>1. /\ counter' = Filled + BytesLeft(len)
            /\ leftoverCount' = 0
            /\ delivered' = delivered
        BY <2>1, <2>2, <3>2 DEF BytesLeft
      <4>2. \A i \in Slots :
              i < counter' => outputBuffer'[i] = PacketSize * delivered' + 1 + i
        BY <2>3, <4>1, FrameFilled DEF Slots
      <4> QED BY <4>1, <4>2 DEF InOrder, Slots
    <3> QED BY <3>1, <3>2
  <2> QED BY <2>6, <2>7, <2>8, <2>9 DEF IInv
<1> QED BY <1>1, <1>2 DEF Next

\* As long as a read fits its caller's buffer of one packet (MaxChunk), no byte is
\* lost, repeated or reordered and no index leaves a buffer.  serial.cpp:125 does not
\* enforce that: it may return up to 1024 bytes, and of what happens then this
\* theorem says nothing.
THEOREM Invariance == Spec => [](TypeOK /\ Conservation /\ InOrder)
<1>1. IInv => TypeOK /\ Conservation /\ InOrder
  BY DEF IInv
<1> QED BY <1>1, InitIInv, StepIInv, PTL DEF Spec

------------------------------------------------------------------------------
LEMMA FramesInit == Init => FS!Init
BY DEF Init, FS!Init, NoBytes, Slots, FS!NoFrame, FS!Slots,
       PACKET_INCOMPLETE, PACKET_COMPLETE

\* A call of assemble() hands over the next frame of the stream exactly when
\* its last byte has come.
LEMMA FramesStep == IInv /\ [Next]_vars => [FS!Next]_(FS!streamVars)
<1> SUFFICES ASSUME IInv, [Next]_vars PROVE [FS!Next]_(FS!streamVars)
  OBVIOUS
<1>1. CASE UNCHANGED vars
  BY <1>1 DEF vars, FS!streamVars
<1>2. CASE Next
  <2> PICK len \in 1 .. MaxChunk : Assemble(len)
    BY <1>2 DEF Next
  <2>1. /\ Filled \in Slots
        /\ Filled = counter + leftoverCount
        /\ BytesLeft(len) \in 0 .. len
        /\ Closes(len) <=> Filled + BytesLeft(len) = PacketSize
    BY CallBounds DEF IInv
  <2>2. /\ received = PacketSize * delivered + Filled
        /\ delivered \in Nat
        /\ PacketSize * delivered \in Nat
        /\ PacketSize * (delivered + 1) = PacketSize * delivered + PacketSize
    BY <2>1, NextFrame, SizesAssumption DEF IInv, TypeOK, Conservation, Slots
  <2>3. received' = received + len /\ received + len <= MaxBytes
    BY DEF Assemble
  <2>4. Closes(len) <=> received' >= PacketSize * (delivered + 1)
    BY <2>1, <2>2, <2>3, SizesAssumption DEF Closes, Slots
  <2>5. CASE Closes(len)
    <3>1. delivered' = delivered + 1 /\ result' = PACKET_COMPLETE
      BY <2>5, CallEffect
    <3>2. \A i \in Slots : outputBuffer'[i] = PacketSize * delivered + i + 1
      BY <2>1, <2>5, FrameFilled, SizesAssumption DEF Slots
    <3>3. outputBuffer' = [i \in Slots |-> outputBuffer'[i]]
      BY DEF Assemble
    <3>4. outputBuffer' = FS!Frame(delivered)
      BY <3>2, <3>3 DEF FS!Frame, FS!Slots, Slots
    <3> QED
      BY <2>3, <2>4, <2>5, <3>1, <3>4 DEF FS!Next, FS!Feed
  <2>6. CASE ~Closes(len)
    <3>1. delivered' = delivered /\ result' = PACKET_INCOMPLETE
      BY <2>6, CallEffect
    <3>2. received' < PacketSize * (delivered + 1)
      BY <2>2, <2>3, <2>4, <2>6, SizesAssumption DEF Slots
    <3> QED
      BY <2>3, <3>1, <3>2
      DEF FS!Next, FS!Feed, NoBytes, FS!NoFrame, FS!Slots, Slots,
          PACKET_INCOMPLETE, PACKET_COMPLETE
  <2> QED BY <2>5, <2>6
<1> QED BY <1>1, <1>2

\* assemble() and its caller implement the abstract framing layer: the frames
\* handed over are the consecutive frames of the stream, for every cut of it
\* into chunks no longer than the callers' buffers.
THEOREM Refinement == Spec => Refines
<1> QED BY InitIInv, StepIInv, FramesInit, FramesStep, PTL DEF Spec, Refines, FS!Spec
==============================================================================
