--------------------------- MODULE TransferProofs ---------------------------
(***************************************************************************)
(* Proofs about Transfer, for any files, any sizes of pieces and blocks,   *)
(* and any lengths of texts.                                               *)
(*                                                                         *)
(* The inductive invariant follows the bytes.  PhaseInv says what state a  *)
(* file has while something of it is under way; NewInv that no byte of an  *)
(* old version can be taken for one of the next; CopyInv what the shared   *)
(* memory holds while the client may look at it, OldInv that the server    *)
(* has nothing of the new text then; CutInv what the blocks cut so far     *)
(* hold, each of what had been copied at its own time; BlockInv what they  *)
(* hold on their way; and StoreInv is StoredExactly with the blocks still  *)
(* under way.  ReturnInv follows a short text back.                        *)
(***************************************************************************)
EXTENDS Transfer, SequenceTheorems, WellFoundedInduction, TLAPS

\* s has the byte x at place i.
Has(s, i, x) == i <= Len(s) /\ s[i] = x

\* The i-th byte of the text is not the last of a full piece.
Moved(i) == (i - 1) % P # P - 1

\* The blocks cut so far.
Filled == {blocks[k] : k \in 1 .. Len(blocks)}

PhaseInv ==
    /\ (\A f \in Files : state[f] # "open") => blocks = <<>>
    /\ \A f, g \in Files : state[f] = "open" /\ state[g] = "open" => f = g
    /\ \A f \in Files : state[f] = "open" =>
          /\ todo = {} /\ lost[f] = {}
          /\ \A b \in Filled : b.file = f
          /\ copying \in {f, "none"}
    /\ \A b \in todo : state[b.file] = "sent"
    /\ copying # "none" => /\ state[copying] \in {"open", "sent"}
                           /\ local[copying] = text[copying]
    /\ \A f \in Files : state[f] = "asked" <=> reading = f
    /\ \A f \in Files : state[f] \in {"open", "sent"} =>
          \A i \in 1 .. Len(wire) : wire[i].file # f

NewInv ==
    /\ \A f \in Files :
          /\ \A i \in 1 .. Len(text[f]) :
                0 < text[f][i] /\ text[f][i] <= 100 * opens + i
          /\ \A i \in 1 .. Len(backup[f]) : backup[f][i] <= 100 * opens + i
    /\ \A i \in 1 .. Len(shm) : shm[i] <= 100 * opens + i
    /\ \A b \in todo \union flight \union Filled : \A j \in 1 .. Len(b.data) :
          b.data[j] <= 100 * opens + b.left + j

CopyInv ==
    \A f \in Files : state[f] = "open" =>
        /\ at <= Len(text[f])
        /\ at < Len(text[f]) =>
              copying = f /\ \E k \in 0 .. at : at = k * P
        /\ \A i \in 1 .. Len(shm) :
              shm[i] = IF i <= at /\ Moved(i) THEN text[f][i] ELSE Nul
        /\ \A i \in 1 .. at : Moved(i) => i <= Len(shm)

OldInv ==
    \A f \in Files : state[f] = "open" =>
        /\ \A i \in 1 .. Len(text[f]) : ~Has(backup[f], i, text[f][i])
        /\ \A b \in flight : b.file = f =>
              \A i \in 1 .. Len(text[f]) :
                 i > b.left => ~Has(b.data, i - b.left, text[f][i])

\* b has exactly those bytes of its part of the text t that are among the
\* first c, copied when it was cut, and come before the first NUL.
RightBlock(b, t, c) ==
    /\ \E k \in 0 .. Len(t) \div B : b.left = k * (B - 1)
    /\ Len(b.data) <= B - 1
    /\ \A j \in 1 .. B - 1 :
          j <= Len(b.data) <=>
             /\ b.left + j <= c
             /\ \A h \in b.left .. b.left + j - 1 : h % P # P - 1
    /\ \A j \in 1 .. Len(b.data) : b.data[j] = t[b.left + j]

\* The k-th block of the array is the k-th of the text.
CutRight(f) ==
    /\ Len(cut[f]) = Len(blocks) /\ Len(blocks) <= BlockCount(f)
    /\ \A k \in 1 .. Len(blocks) :
          /\ blocks[k].left = (k - 1) * (B - 1)
          /\ RightBlock(blocks[k], text[f], cut[f][k])

CutInv == \A f \in Files : state[f] = "open" => CutRight(f)

\* What had been copied when b was cut.
CutOf(f, b) == cut[f][b.left \div (B - 1) + 1]

BlocksRight(f) ==
    /\ Len(cut[f]) = BlockCount(f)
    /\ \A b \in todo \union flight : b.file = f =>
          /\ RightBlock(b, text[f], CutOf(f, b))
          /\ b.left \div (B - 1) \notin lost[f]
    /\ \A b, c \in todo \union flight :
          b.file = f /\ c.file = f /\ b.left = c.left => b = c
    /\ \A b \in todo \intersect flight : b.file # f

BlockInv ==
    \A f \in Files : state[f] = "sent" /\ ~late[f] => BlocksRight(f)

\* The block of the i-th byte is still on the client's machine or on its way.
Waits(f, i) ==
    \E b \in todo \union flight :
        b.file = f /\ b.left \div (B - 1) = (i - 1) \div (B - 1)

StoredSoFar(f, i) ==
    Has(backup[f], i, text[f][i])
    <=> /\ Survives(Len(text[f]), i - 1) /\ i <= CutAt(f, i)
        /\ (i - 1) \div (B - 1) \notin lost[f]
        /\ ~Waits(f, i)

StoreInv ==
    \A f \in Files : state[f] = "sent" /\ ~late[f] =>
        \A i \in 1 .. Len(text[f]) : StoredSoFar(f, i)

\* f's backup is its text; once all of it has been read, it has come back,
\* or is about to, or the count has passed B.
Returns(f) ==
    /\ state[f] \in {"asked", "plain"}
    /\ backup[f] = text[f] /\ text[f] # <<>>
    /\ \A b \in flight : b.file # f
    /\ reading = f => off \in {0, Len(text[f])}
    /\ \A i \in 1 .. Len(wire) :
          wire[i].file = f => wire[i].data = text[f]
    /\ state[f] = "plain" \/ off = Len(text[f]) =>
          \/ local[f] = text[f]
          \/ \E i \in 1 .. Len(wire) : wire[i].file = f
          \/ count > B

ReturnInv == \A f \in Files : fit[f] /\ Len(text[f]) < P => Returns(f)

-----------------------------------------------------------------------------
(***************************************************************************)
(* The operators                                                           *)
(***************************************************************************)

\* A set of natural numbers has a smallest one, and Min() is it.
LEMMA SmallestNumber ==
    ASSUME NEW S, S \subseteq Nat, S # {}
    PROVE  Min(S) \in S /\ \A k \in S : Min(S) <= k
<1>1. PICK n \in S : \A k \in S : ~(<<k, n>> \in OpToRel(<, Nat))
  BY NatLessThanWellFounded, WFMin, Zenon
<1>2. \A k \in S : ~(k < n)
  BY <1>1, Zenon DEF OpToRel
<1>3. \A k \in S : n <= k
  BY <1>2
<1> QED
  BY <1>3 DEF Min

\* The smaller and the larger of two numbers.
LEMMA MinTwo ==
    ASSUME NEW a \in Int, NEW b \in Int
    PROVE  Min({a, b}) = IF a <= b THEN a ELSE b
<1>1. PICK m \in {a, b} : m = IF a <= b THEN a ELSE b
  OBVIOUS
<1>2. \A y \in {a, b} : m <= y
  BY <1>1
<1>3. \A x \in {a, b} : (\A y \in {a, b} : x <= y) => x = m
  BY <1>1
<1> QED
  BY <1>1, <1>2, <1>3 DEF Min

LEMMA MaxTwo ==
    ASSUME NEW a \in Int, NEW b \in Int
    PROVE  Max({a, b}) = IF a >= b THEN a ELSE b
<1>1. PICK m \in {a, b} : m = IF a >= b THEN a ELSE b
  OBVIOUS
<1>2. \A y \in {a, b} : m >= y
  BY <1>1
<1>3. \A x \in {a, b} : (\A y \in {a, b} : x >= y) => x = m
  BY <1>1
<1> QED
  BY <1>1, <1>2, <1>3 DEF Max

\* CString() keeps what stands before the first NUL.
LEMMA CStringIs ==
    ASSUME NEW s \in Seq(Byte)
    PROVE  /\ CString(s) \in Seq(Byte)
           /\ Len(CString(s)) <= Len(s)
           /\ \A i \in 1 .. Len(CString(s)) :
                 CString(s)[i] = s[i] /\ s[i] # Nul
           /\ Len(CString(s)) < Len(s) => s[Len(CString(s)) + 1] = Nul
<1> DEFINE I == {i \in 1 .. Len(s) : s[i] = Nul}
<1>1. SelectInSeq(s, LAMBDA b : b = Nul) = IF I # {} THEN Min(I) ELSE 0
  BY DEF SelectInSeq
<1>2. CASE I = {}
  <2>1. CString(s) = s
    BY <1>1, <1>2 DEF CString
  <2>2. \A i \in 1 .. Len(s) : s[i] # Nul
    BY <1>2
  <2> QED
    BY <2>1, <2>2
<1>3. CASE I # {}
  <2>0. I \subseteq Nat
    OBVIOUS
  <2>1. Min(I) \in I /\ \A k \in I : Min(I) <= k
    <3> HIDE DEF I
    <3> QED
      BY <1>3, <2>0, SmallestNumber
  <2> DEFINE m == Min(I)
  <2>2. m \in 1 .. Len(s) /\ s[m] = Nul /\ \A i \in 1 .. m - 1 : s[i] # Nul
    BY <2>1
  <2>3. CString(s) = SubSeq(s, 1, m - 1)
    <3>1. SelectInSeq(s, LAMBDA b : b = Nul) = m /\ m # 0
      <4> HIDE DEF I
      <4> QED
        BY <1>1, <1>3, <2>2
    <3> HIDE DEF m
    <3> QED
      BY <3>1 DEF CString
  <2> HIDE DEF m
  <2>4. /\ SubSeq(s, 1, m - 1) \in Seq(Byte)
        /\ Len(SubSeq(s, 1, m - 1)) = m - 1
        /\ \A i \in 1 .. m - 1 : SubSeq(s, 1, m - 1)[i] = s[i]
    BY <2>2
  <2> QED
    BY <2>2, <2>3, <2>4
<1> QED
  BY <1>2, <1>3

\* Bytes are numbers.
LEMMA ByteAt ==
    ASSUME NEW s \in Seq(Byte), NEW i \in 1 .. Len(s)
    PROVE  s[i] \in Int /\ i \in Nat \ {0}
<1>1. s[i] \in Byte
  BY ElementOfSeq
<1>2. Len(s) \in Nat
  OBVIOUS
<1> QED
  BY <1>1, <1>2 DEF Byte, Nul

\* Buffer() is what s has at offset n, and NUL behind its end.
LEMMA BufferIs ==
    ASSUME NEW s \in Seq(Byte), NEW n \in Nat, NEW k \in Nat
    PROVE  /\ Buffer(s, n, k) \in Seq(Byte)
           /\ Len(Buffer(s, n, k)) = k
           /\ \A i \in 1 .. k :
                 Buffer(s, n, k)[i] = IF n + i <= Len(s) THEN s[n + i] ELSE Nul
<1>1. \A i \in 1 .. k : (IF n + i <= Len(s) THEN s[n + i] ELSE Nul) \in Byte
  BY DEF Byte
<1> QED
  BY <1>1 DEF Buffer

\* WriteAt() changes the written bytes only, and fills a gap with NULs.
LEMMA WriteAtIs ==
    ASSUME NEW s \in Seq(Byte), NEW n \in Nat, NEW d \in Seq(Byte)
    PROVE  /\ WriteAt(s, n, d) \in Seq(Byte)
           /\ Len(WriteAt(s, n, d)) =
                 IF Len(s) >= n + Len(d) THEN Len(s) ELSE n + Len(d)
           /\ \A i \in 1 .. Len(WriteAt(s, n, d)) :
                 WriteAt(s, n, d)[i] =
                    IF i \in n + 1 .. n + Len(d) THEN d[i - n]
                    ELSE IF i <= Len(s) THEN s[i] ELSE Nul
<1> DEFINE m == IF Len(s) >= n + Len(d) THEN Len(s) ELSE n + Len(d)
           e(i) == IF i \in n + 1 .. n + Len(d) THEN d[i - n]
                   ELSE IF i <= Len(s) THEN s[i] ELSE Nul
<1>1. m \in Nat /\ Max({Len(s), n + Len(d)}) = m
  BY MaxTwo
<1>2. \A i \in 1 .. m : e(i) \in Byte
  BY DEF Byte
<1>3. WriteAt(s, n, d) = [i \in 1 .. m |-> e(i)]
  BY <1>1 DEF WriteAt
<1> HIDE DEF m, e
<1>4. /\ [i \in 1 .. m |-> e(i)] \in Seq(Byte)
      /\ Len([i \in 1 .. m |-> e(i)]) = m
      /\ \A j \in 1 .. m : [i \in 1 .. m |-> e(i)][j] = e(j)
  BY <1>1, <1>2
<1> QED
  BY <1>3, <1>4 DEF m, e

LEMMA TextIs ==
    ASSUME NEW v \in Nat, NEW n \in Nat
    PROVE  /\ Text(v, n) \in Seq(Byte) /\ Len(Text(v, n)) = n
           /\ \A i \in 1 .. n : Text(v, n)[i] = 100 * v + i
BY DEF Text, Byte

LEMMA DivNat ==
    ASSUME NEW a \in Nat, NEW d \in Nat \ {0}
    PROVE  a \div d \in Nat
OBVIOUS

LEMMA ModOfByte ==
    ASSUME NEW d \in Nat \ {0}, NEW k \in Nat, NEW r \in 0 .. d - 1
    PROVE  (k * d + r) % d = r
OBVIOUS

LEMMA DivMod ==
    ASSUME NEW d \in Nat \ {0}, NEW x \in Nat
    PROVE  /\ x \div d \in Nat /\ x % d \in 0 .. d - 1
           /\ x = (x \div d) * d + (x % d)
<1>1. x \div d \in Nat
  BY DivNat
<1>2. x % d \in 0 .. d - 1
  OBVIOUS
<1>3. x = (x \div d) * d + (x % d)
  OBVIOUS
<1> QED
  BY <1>1, <1>2, <1>3

\* Byte k * d + r is in block k.
LEMMA BlockOfByte ==
    ASSUME NEW d \in Nat \ {0}, NEW k \in Nat, NEW r \in 0 .. d - 1
    PROVE  (k * d + r) \div d = k
OBVIOUS
-----------------------------------------------------------------------------
(***************************************************************************)
(* Types                                                                   *)
(***************************************************************************)

LEMMA Sizes ==
    /\ P \in Nat /\ P >= 2 /\ B \in Nat /\ B > P
    /\ P - 1 \in Nat \ {0} /\ B \in Nat \ {0} /\ B - 1 \in Nat \ {0}
BY TransferAssumption

LEMMA BlockIs ==
    ASSUME TypeOK, NEW f \in Files, NEW n \in Nat
    PROVE  BlockAt(f, n) \in Blocks
<1>1. Buffer(shm, n, B - 1) \in Seq(Byte)
  BY BufferIs, Sizes DEF TypeOK
<1> QED
  BY <1>1, CStringIs DEF BlockAt, Blocks

\* A turn of the cutting loop adds one block to those cut so far.
LEMMA FilledStep ==
    ASSUME TypeOK, NEW f \in Files, CutBlock(f)
    PROVE  Filled' = Filled \union {Block(f, Len(blocks))}
<1> DEFINE b == Block(f, Len(blocks))
<1>1. blocks' = Append(blocks, b) /\ blocks \in Seq(Blocks)
  BY DEF CutBlock, TypeOK
<1> HIDE DEF b
<1>2. /\ Len(blocks) \in Nat /\ Len(blocks') = Len(blocks) + 1
      /\ \A k \in 1 .. Len(blocks) + 1 :
            blocks'[k] = IF k <= Len(blocks) THEN blocks[k] ELSE b
  BY <1>1
<1>3. ASSUME NEW x \in Filled' PROVE x \in Filled \union {b}
  BY <1>2 DEF Filled
<1>4. ASSUME NEW x \in Filled PROVE x \in Filled'
  BY <1>2 DEF Filled
<1>5. b \in Filled'
  <2>1. Len(blocks) + 1 \in 1 .. Len(blocks') /\ blocks'[Len(blocks) + 1] = b
    BY <1>2
  <2> QED
    BY <2>1 DEF Filled
<1> QED
  BY <1>3, <1>4, <1>5 DEF b

LEMMA TypeStep == TypeOK /\ [Next]_vars => TypeOK'
<1> SUFFICES ASSUME TypeOK, [Next]_vars PROVE TypeOK'
  OBVIOUS
<1> USE DEF TypeOK
<1>1. ASSUME NEW f \in Files, OpenFile(f) PROVE TypeOK'
  <2>1. PICK n \in Lengths : text' = [text EXCEPT ![f] = Text(opens + 1, n)]
    BY <1>1 DEF OpenFile
  <2>2. n \in Nat /\ opens + 1 \in 0 .. MaxOpens /\ opens + 1 \in Nat
    BY <1>1, TransferAssumption DEF OpenFile
  <2>3. Text(opens + 1, n) \in Seq(Byte)
    BY <2>2, TextIs
  <2>4. text' \in [Files -> Seq(Byte)]
    BY <2>1, <2>3
  <2>5. local' \in [Files -> Seq(Byte)]
    BY <1>1, <2>4 DEF OpenFile
  <2>6. shm' \in Seq(Byte)
    BY <1>1 DEF OpenFile
  <2>8. cut' \in [Files -> Seq(Nat)]
    BY <1>1 DEF OpenFile
  <2>7. /\ state' \in [Files -> {"plain", "open", "sent", "asked"}]
        /\ lost' \in [Files -> SUBSET Nat] /\ fit' \in [Files -> BOOLEAN]
    BY <1>1 DEF OpenFile
  <2> QED
    BY <1>1, <2>2, <2>4, <2>5, <2>6, <2>7, <2>8
    DEF OpenFile, sendVars, serverVars, recvVars
<1>2. ASSUME NEW f \in Files, CutBlock(f) PROVE TypeOK'
  <2>1. Len(blocks) * (B - 1) \in Nat
    <3>1. Len(blocks) \in Nat
      OBVIOUS
    <3> HIDE DEF TypeOK
    <3> QED
      BY <3>1, Sizes
  <2>2. Block(f, Len(blocks)) \in Blocks
    BY <2>1, BlockIs DEF Block
  <2>3. blocks' \in Seq(Blocks)
    BY <1>2, <2>2 DEF CutBlock
  <2>4. cut' \in [Files -> Seq(Nat)]
    BY <1>2 DEF CutBlock
  <2> QED
    BY <1>2, <2>3, <2>4 DEF CutBlock, hookVars, serverVars, recvVars
<1>13. ASSUME NEW f \in Files, StartThreads(f) PROVE TypeOK'
  <2>1. todo' \subseteq Blocks /\ blocks' \in Seq(Blocks)
    BY <1>13 DEF StartThreads
  <2> QED
    BY <1>13, <2>1 DEF StartThreads, hookVars, serverVars, recvVars
<1>3. ASSUME NEW f \in Files, Ask(f) PROVE TypeOK'
  BY <1>3 DEF Ask, hookVars, sendVars, recvVars
<1>4. CASE CopyPiece
  <2>1. copying \in Files /\ local[copying] \in Seq(Byte)
    BY <1>4 DEF CopyPiece
  <2>2. Buffer(local[copying], at, P - 1) \in Seq(Byte)
    BY <2>1, BufferIs, Sizes
  <2>3. shm' \in Seq(Byte)
    BY <1>4, <2>2, WriteAtIs DEF CopyPiece
  <2>4. at' \in Nat
    <3>1. Len(local[copying]) \in Nat /\ at + P \in Nat
      BY <2>1, Sizes
    <3> HIDE DEF TypeOK
    <3>2. Min({at + P, Len(local[copying])}) \in Nat
      BY <3>1, MinTwo
    <3> QED
      BY <1>4, <3>2 DEF CopyPiece
  <2> QED
    BY <1>4, <2>3, <2>4
    DEF CopyPiece, sendVars, serverVars, recvVars, history
<1>5. CASE Hide
  <2>1. Secret \in Seq(Byte)
    BY DEF Secret, Byte
  <2>2. local' \in [Files -> Seq(Byte)]
    BY <1>5, <2>1 DEF Hide
  <2> QED
    BY <1>5, <2>2 DEF Hide, sendVars, serverVars, recvVars, history
<1>6. ASSUME NEW b \in todo, SendBlock(b) PROVE TypeOK'
  BY <1>6 DEF SendBlock, hookVars, serverVars, recvVars, history
<1>7. ASSUME NEW b \in todo, SendFails(b) PROVE TypeOK'
  <2>0. b.file \in Files /\ b.left \in Nat
    BY DEF Blocks
  <2>1. b.file \in Files /\ b.left \div (B - 1) \in Nat
    BY <2>0, Sizes, DivNat
  <2>2. lost' \in [Files -> SUBSET Nat]
    BY <1>7, <2>1 DEF SendFails
  <2> QED
    BY <1>7, <2>2 DEF SendFails, hookVars, serverVars, recvVars
<1>8. ASSUME NEW b \in flight, StoreBlock(b) PROVE TypeOK'
  <2>1. b.file \in Files /\ b.left \in Nat /\ b.data \in Seq(Byte)
    BY DEF Blocks
  <2>2. WriteAt(backup[b.file], b.left, b.data) \in Seq(Byte)
    BY <2>1, WriteAtIs
  <2> QED
    BY <1>8, <2>1, <2>2 DEF StoreBlock, hookVars, recvVars, history
<1>9. CASE ReadChunk
  <2>1. reading \in Files /\ backup[reading] \in Seq(Byte)
    BY <1>9 DEF ReadChunk
  <2>2. CString(Buffer(backup[reading], off, B - 1)) \in Seq(Byte)
    BY <2>1, BufferIs, CStringIs, Sizes
  <2>3. off' \in Nat
    <3>1. Len(backup[reading]) \in Nat /\ off + B - 1 \in Nat
      BY <2>1, Sizes
    <3> HIDE DEF TypeOK
    <3>2. Min({off + B - 1, Len(backup[reading])}) \in Nat
      BY <3>1, MinTwo
    <3> QED
      BY <1>9, <3>2 DEF ReadChunk
  <2> QED
    BY <1>9, <2>1, <2>2, <2>3 DEF ReadChunk, hookVars, sendVars, history
<1>10. CASE EndOfBackup
  <2>1. state' \in [Files -> {"plain", "open", "sent", "asked"}]
    BY <1>10 DEF EndOfBackup
  <2> QED
    BY <1>10, <2>1
    DEF EndOfBackup, hookVars, sendVars, recvVars, history
<1>11. CASE Recv
  <2> DEFINE p == Head(wire)
  <2>0. wire \in Seq([file : Files, data : Seq(Byte)]) /\ wire # <<>>
    BY <1>11 DEF Recv
  <2>1. /\ p.file \in Files /\ p.data \in Seq(Byte)
        /\ Tail(wire) \in Seq([file : Files, data : Seq(Byte)])
    <3>1. p \in [file : Files, data : Seq(Byte)]
      BY <2>0, HeadTailProperties
    <3> QED
      BY <2>0, <3>1, HeadTailProperties
  <2>2. count' \in Nat
    BY <1>11, <2>1 DEF Recv
  <2>3. Received(count', local[p.file], p.data) \in Seq(Byte)
    BY <2>1 DEF Received
  <2>4. local' \in [Files -> Seq(Byte)]
    BY <1>11, <2>1, <2>3 DEF Recv
  <2> QED
    BY <1>11, <2>1, <2>2, <2>4 DEF Recv, hookVars, sendVars, serverVars, history
<1>12. CASE UNCHANGED vars
  BY <1>12 DEF vars, hookVars, sendVars, serverVars, recvVars, history
<1> QED
  BY <1>1, <1>2, <1>3, <1>4, <1>5, <1>6, <1>7, <1>8, <1>9, <1>10, <1>11,
     <1>12, <1>13
  DEF Next

(***************************************************************************)
(* Type correctness: whatever lengths the texts have, offsets and counts   *)
(* are numbers and every buffer, packet and backup is a string of bytes.   *)
(***************************************************************************)
THEOREM TypeCorrect == Spec => []TypeOK
<1>1. Init => TypeOK
  BY TransferAssumption DEF Init, TypeOK, Byte
<1> QED
  BY <1>1, TypeStep, PTL DEF Spec

-----------------------------------------------------------------------------
(***************************************************************************)
(* What state a file is in                                                 *)
(***************************************************************************)

LEMMA PhaseStep == TypeOK /\ PhaseInv /\ [Next]_vars => PhaseInv'
<1> SUFFICES ASSUME TypeOK, PhaseInv, [Next]_vars PROVE PhaseInv'
  OBVIOUS
<1>0. "none" \notin Files
  BY TransferAssumption
<1>1. ASSUME NEW f \in Files, OpenFile(f) PROVE PhaseInv'
  <2>1. /\ copying = "none" /\ todo = {} /\ todo' = {} /\ copying' = f
        /\ \A g \in Files : state[g] # "open"
        /\ state[f] = "plain"
        /\ \A i \in 1 .. Len(wire) : wire[i].file # f
        /\ state' = [state EXCEPT ![f] = "open"]
        /\ lost' = [lost EXCEPT ![f] = {}]
        /\ wire' = wire /\ reading' = reading /\ blocks' = blocks
    BY <1>1 DEF OpenFile, sendVars, serverVars, recvVars
  <2>2. local'[f] = text'[f]
    BY <1>1 DEF OpenFile, TypeOK
  <2>3. Filled' = {} /\ blocks' = <<>>
    BY <2>1 DEF PhaseInv, Filled
  <2> QED
    BY <1>0, <2>1, <2>2, <2>3 DEF PhaseInv, TypeOK
<1>13. ASSUME NEW f \in Files, CutBlock(f) PROVE PhaseInv'
  <2>1. /\ state[f] = "open"
        /\ UNCHANGED <<state, local, copying, todo, reading, wire, text, lost>>
    BY <1>13 DEF CutBlock, hookVars, serverVars, recvVars
  <2>2. \A g \in Files : state[g] = "open" => g = f
    BY <2>1 DEF PhaseInv
  <2>3. \A b \in Filled' : b.file = f
    BY <1>13, <2>1, FilledStep DEF PhaseInv, Block, BlockAt
  <2> QED
    BY <2>1, <2>2, <2>3 DEF PhaseInv
<1>2. ASSUME NEW f \in Files, StartThreads(f) PROVE PhaseInv'
  <2>1. /\ state[f] = "open"
        /\ state' = [state EXCEPT ![f] = "sent"]
        /\ blocks' = <<>>
        /\ todo' = Filled
        /\ UNCHANGED <<local, copying, reading, wire, text, lost>>
    BY <1>2 DEF StartThreads, Filled, hookVars, serverVars, recvVars
  <2>2. /\ \A g \in Files : state'[g] # "open"
        /\ \A g \in Files : g # f => state'[g] = state[g]
        /\ state'[f] = "sent"
    BY <2>1 DEF PhaseInv, TypeOK
  <2>3. \A b \in todo' : state'[b.file] = "sent"
    BY <2>1, <2>2 DEF PhaseInv
  <2>4. copying' # "none" => /\ state'[copying'] \in {"open", "sent"}
                             /\ local'[copying'] = text'[copying']
    BY <1>0, <2>1, <2>2 DEF PhaseInv, TypeOK
  <2>5. \A g \in Files : state'[g] = "asked" <=> reading' = g
    BY <2>1, <2>2 DEF PhaseInv
  <2>6. \A g \in Files : state'[g] \in {"open", "sent"} =>
           \A i \in 1 .. Len(wire') : wire'[i].file # g
    BY <2>1, <2>2 DEF PhaseInv
  <2> QED
    BY <2>1, <2>2, <2>3, <2>4, <2>5, <2>6 DEF PhaseInv
<1>3. ASSUME NEW f \in Files, Ask(f) PROVE PhaseInv'
  <2>1. /\ state[f] = "sent" /\ copying # f /\ todo = {}
        /\ reading = "none" /\ reading' = f
        /\ state' = [state EXCEPT ![f] = "asked"]
        /\ UNCHANGED <<local, copying, blocks, todo, wire, text, lost>>
        /\ Filled' = Filled
    BY <1>3 DEF Ask, hookVars, sendVars, recvVars, Filled
  <2>2. /\ state'[f] = "asked"
        /\ \A g \in Files \ {f} : state'[g] = state[g]
        /\ \A g \in Files : state'[g] = "open" <=> state[g] = "open"
    BY <2>1 DEF TypeOK
  <2>3. \A g \in Files : state'[g] = "asked" <=> reading' = g
    BY <1>0, <2>1, <2>2 DEF PhaseInv
  <2> QED
    BY <1>0, <2>1, <2>2, <2>3 DEF PhaseInv, TypeOK
<1>4. CASE CopyPiece
  BY <1>4
  DEF CopyPiece, sendVars, serverVars, recvVars, history, PhaseInv, Filled
<1>5. CASE Hide
  BY <1>0, <1>5
  DEF Hide, sendVars, serverVars, recvVars, history, PhaseInv, Filled,
      TypeOK
<1>6. ASSUME NEW b \in todo, SendBlock(b) PROVE PhaseInv'
  BY <1>6
  DEF SendBlock, hookVars, serverVars, recvVars, history, PhaseInv, Filled
<1>7. ASSUME NEW b \in todo, SendFails(b) PROVE PhaseInv'
  <2>1. state[b.file] = "sent"
    BY DEF PhaseInv
  <2> QED
    BY <1>7, <2>1
    DEF SendFails, hookVars, serverVars, recvVars, PhaseInv, Filled, TypeOK
<1>8. ASSUME NEW b \in flight, StoreBlock(b) PROVE PhaseInv'
  BY <1>8 DEF StoreBlock, hookVars, recvVars, history, PhaseInv, Filled
<1>9. CASE ReadChunk
  <2> DEFINE p == [file |-> reading,
                   data |-> CString(Buffer(backup[reading], off, B - 1))]
  <2>1. /\ wire' = Append(wire, p) /\ reading # "none"
        /\ UNCHANGED <<local, state, copying, blocks, todo, reading, text,
                       lost>>
    BY <1>9 DEF ReadChunk, hookVars, sendVars, history
  <2>2. p.file = reading
    OBVIOUS
  <2> HIDE DEF p
  <2>3. /\ reading \in Files /\ state[reading] = "asked"
        /\ Len(wire) \in Nat /\ Len(wire') = Len(wire) + 1
        /\ \A i \in 1 .. Len(wire') :
              wire'[i] = IF i <= Len(wire) THEN wire[i] ELSE p
    <3>1. wire \in Seq([file : Files, data : Seq(Byte)])
      BY DEF TypeOK
    <3>2. reading \in Files /\ state[reading] = "asked"
      BY <2>1 DEF PhaseInv, TypeOK
    <3> QED
      BY <2>1, <3>1, <3>2
  <2>4. \A f \in Files : state'[f] \in {"open", "sent"} =>
           \A i \in 1 .. Len(wire') : wire'[i].file # f
    BY <2>1, <2>2, <2>3 DEF PhaseInv
  <2> QED
    BY <2>1, <2>4 DEF PhaseInv, Filled
<1>10. CASE EndOfBackup
  BY <1>0, <1>10
  DEF EndOfBackup, hookVars, sendVars, recvVars, history, PhaseInv, Filled,
      TypeOK
<1>11. CASE Recv
  <2> DEFINE p == Head(wire)
  <2>1. /\ wire # <<>> /\ wire' = Tail(wire)
        /\ \A g \in Files : g # p.file => local'[g] = local[g]
        /\ UNCHANGED <<state, copying, blocks, todo, reading, text, lost>>
    BY <1>11 DEF Recv, hookVars, sendVars, serverVars, history, TypeOK
  <2>2. /\ p = wire[1] /\ Len(wire) \in Nat \ {0}
        /\ Len(wire') = Len(wire) - 1
        /\ \A i \in 1 .. Len(wire') : wire'[i] = wire[i + 1]
    BY <2>1 DEF TypeOK
  <2> HIDE DEF p
  <2>3. \A f \in Files : state'[f] \in {"open", "sent"} =>
           \A i \in 1 .. Len(wire') : wire'[i].file # f
    BY <2>1, <2>2 DEF PhaseInv
  <2>4. copying' # "none" => local'[copying'] = text'[copying']
    <3> SUFFICES ASSUME copying # "none"
                 PROVE  local'[copying] = text[copying]
      BY <2>1
    <3>1. /\ copying \in Files /\ state[copying] \in {"open", "sent"}
          /\ local[copying] = text[copying]
      BY DEF PhaseInv, TypeOK
    <3>2. wire[1].file # copying
      BY <2>2, <3>1 DEF PhaseInv
    <3> QED
      BY <2>1, <2>2, <3>1, <3>2
  <2> QED
    BY <2>1, <2>3, <2>4 DEF PhaseInv, Filled
<1>12. CASE UNCHANGED vars
  BY <1>12
  DEF vars, hookVars, sendVars, serverVars, recvVars, history, PhaseInv,
      Filled
<1> QED
  BY <1>1, <1>2, <1>3, <1>4, <1>5, <1>6, <1>7, <1>8, <1>9, <1>10, <1>11,
     <1>12, <1>13
  DEF Next

-----------------------------------------------------------------------------
(***************************************************************************)
(* The bytes of one version are none of the next                           *)
(***************************************************************************)

\* A block holds the shared memory from its offset to the first NUL.
LEMMA BlockData ==
    ASSUME TypeOK, NEW f \in Files, NEW n \in Nat, NEW b, b = BlockAt(f, n)
    PROVE  /\ b.file = f /\ b.left = n
           /\ b.data \in Seq(Byte) /\ Len(b.data) \in 0 .. B - 1
           /\ \A j \in 1 .. Len(b.data) :
                 n + j <= Len(shm) /\ b.data[j] = shm[n + j] /\ b.data[j] # Nul
           /\ Len(b.data) < B - 1 /\ n + Len(b.data) + 1 <= Len(shm) =>
                 shm[n + Len(b.data) + 1] = Nul
<1> DEFINE s == Buffer(shm, n, B - 1)
<1>1. shm \in Seq(Byte) /\ Len(shm) \in Nat
  BY DEF TypeOK
<1>2. /\ s \in Seq(Byte) /\ Len(s) = B - 1
      /\ \A i \in 1 .. B - 1 :
            s[i] = IF n + i <= Len(shm) THEN shm[n + i] ELSE Nul
  BY <1>1, BufferIs, Sizes
<1>3. b.file = f /\ b.left = n /\ b.data = CString(s)
  BY DEF BlockAt
<1> HIDE DEF s
<1>4. /\ b.data \in Seq(Byte) /\ Len(b.data) <= B - 1
      /\ \A i \in 1 .. Len(b.data) : b.data[i] = s[i] /\ s[i] # Nul
      /\ Len(b.data) < B - 1 => s[Len(b.data) + 1] = Nul
  BY <1>2, <1>3, CStringIs
<1>5. Len(b.data) \in 0 .. B - 1
  BY <1>4, Sizes
<1> DEFINE m == Len(b.data)
<1> HIDE DEF m
<1>6. m \in 0 .. B - 1 /\ B - 1 \in Nat
  BY <1>5, Sizes DEF m
<1>7. ASSUME NEW j \in 1 .. m
      PROVE  n + j <= Len(shm) /\ b.data[j] = shm[n + j] /\ b.data[j] # Nul
  <2>1. j \in 1 .. B - 1
    BY <1>6
  <2>2. b.data[j] = s[j] /\ s[j] # Nul
    BY <1>4 DEF m
  <2> QED
    BY <1>2, <2>1, <2>2
<1>8. ASSUME m < B - 1, n + m + 1 <= Len(shm)
      PROVE  shm[n + m + 1] = Nul
  <2>1. m + 1 \in 1 .. B - 1 /\ n + (m + 1) = n + m + 1
    BY <1>6, <1>8
  <2>2. s[m + 1] = Nul
    BY <1>4, <1>8 DEF m
  <2> QED
    BY <1>2, <1>8, <2>1, <2>2
<1> QED
  BY <1>3, <1>4, <1>5, <1>7, <1>8 DEF m

LEMMA NewStep == TypeOK /\ PhaseInv /\ NewInv /\ [Next]_vars => NewInv'
<1> SUFFICES ASSUME TypeOK, PhaseInv, NewInv, [Next]_vars PROVE NewInv'
  OBVIOUS
<1>0. /\ opens \in Nat /\ shm \in Seq(Byte) /\ Nul = 0 /\ Byte \subseteq Int
      /\ todo \subseteq Blocks /\ flight \subseteq Blocks
      /\ Filled \subseteq Blocks
      /\ \A b \in Blocks : b.left \in Nat /\ b.data \in Seq(Byte)
      /\ text \in [Files -> Seq(Byte)] /\ backup \in [Files -> Seq(Byte)]
  <2>1. Filled \subseteq Blocks
    <3>1. blocks \in Seq(Blocks)
      BY DEF TypeOK
    <3> QED
      BY <3>1, ElementOfSeq DEF Filled
  <2>2. Nul = 0 /\ Byte \subseteq Int
    BY DEF Byte, Nul
  <2>3. \A b \in Blocks : b.left \in Nat /\ b.data \in Seq(Byte)
    BY DEF Blocks
  <2> QED
    BY <2>1, <2>2, <2>3 DEF TypeOK
<1>1. ASSUME NEW f \in Files, OpenFile(f) PROVE NewInv'
  <2>1. PICK n \in Lengths : text' = [text EXCEPT ![f] = Text(opens + 1, n)]
    BY <1>1 DEF OpenFile
  <2>2. n \in Nat /\ opens + 1 \in Nat
    BY <1>0, TransferAssumption
  <2>3. /\ opens' = opens + 1 /\ shm' = <<>>
        /\ UNCHANGED <<todo, flight, backup>> /\ Filled' = Filled
    BY <1>1 DEF OpenFile, sendVars, serverVars, Filled
  <2>4. ASSUME NEW g \in Files, NEW i \in 1 .. Len(text'[g])
        PROVE  0 < text'[g][i] /\ text'[g][i] <= 100 * (opens + 1) + i
    <3>1. CASE g = f
      <4>1. text'[g] = Text(opens + 1, n)
        BY <1>0, <2>1, <3>1
      <4> DEFINE t == Text(opens + 1, n)
      <4>2. Len(t) = n /\ \A k \in 1 .. n : t[k] = 100 * (opens + 1) + k
        BY <2>2, TextIs
      <4> HIDE DEF t
      <4>3. i \in 1 .. n /\ text'[g][i] = 100 * (opens + 1) + i
        BY <4>1, <4>2 DEF t
      <4> QED
        BY <1>0, <2>2, <4>3
    <3>2. CASE g # f
      <4>1. text'[g] = text[g] /\ text[g] \in Seq(Byte)
        BY <1>0, <2>1, <3>2
      <4>2. text[g][i] \in Int /\ i \in Nat
        BY <4>1, ByteAt
      <4> QED
        BY <1>0, <4>1, <4>2 DEF NewInv
    <3> QED
      BY <3>1, <3>2
  <2>5. ASSUME NEW g \in Files, NEW i \in 1 .. Len(backup[g])
        PROVE  backup[g][i] <= 100 * (opens + 1) + i
    <3>1. backup[g][i] \in Int /\ i \in Nat
      BY <1>0, ByteAt
    <3>2. backup[g][i] <= 100 * opens + i
      BY DEF NewInv
    <3> QED
      BY <1>0, <3>1, <3>2
  <2>6. ASSUME NEW b \in todo \union flight \union Filled,
               NEW j \in 1 .. Len(b.data)
        PROVE  b.data[j] <= 100 * (opens + 1) + b.left + j
    <3>1. b.data[j] \in Int /\ j \in Nat /\ b.left \in Nat
      BY <1>0, ByteAt
    <3> QED
      BY <1>0, <3>1 DEF NewInv
  <2>7. \A i \in 1 .. Len(shm') : shm'[i] <= 100 * opens' + i
    BY <2>3
  <2>8. \A g \in Files :
           /\ \A i \in 1 .. Len(text'[g]) :
                 0 < text'[g][i] /\ text'[g][i] <= 100 * opens' + i
           /\ \A i \in 1 .. Len(backup'[g]) :
                 backup'[g][i] <= 100 * opens' + i
    BY <2>3, <2>4, <2>5
  <2>9. \A b \in todo' \union flight' \union Filled' :
           \A j \in 1 .. Len(b.data) :
              b.data[j] <= 100 * opens' + b.left + j
    BY <2>3, <2>6
  <2> QED
    BY <2>7, <2>8, <2>9 DEF NewInv
<1>2. ASSUME NEW f \in Files, CutBlock(f) PROVE NewInv'
  <2> DEFINE n == Len(blocks) * (B - 1)
  <2>0. Len(blocks) \in Nat
    BY DEF TypeOK
  <2>1. n \in Nat
    BY <2>0, Sizes
  <2>2. /\ Filled' = Filled \union {BlockAt(f, n)}
        /\ UNCHANGED <<opens, shm, text, todo, flight, backup>>
    BY <1>2, FilledStep DEF CutBlock, Block, hookVars, serverVars
  <2> HIDE DEF n
  <2>3. ASSUME NEW b, b = BlockAt(f, n), NEW j \in 1 .. Len(b.data)
        PROVE  b.data[j] <= 100 * opens + b.left + j
    <3>1. b.left = n /\ b.data[j] = shm[n + j] /\ n + j \in 1 .. Len(shm)
      <4>1. /\ b.left = n /\ Len(b.data) \in Nat
            /\ \A k \in 1 .. Len(b.data) :
                  n + k <= Len(shm) /\ b.data[k] = shm[n + k]
        BY <2>1, <2>3, BlockData
      <4> QED
        BY <1>0, <2>1, <4>1
    <3> QED
      BY <1>0, <2>1, <3>1 DEF NewInv
  <2>4. \A b \in todo' \union flight' \union Filled' :
           \A j \in 1 .. Len(b.data) :
              b.data[j] <= 100 * opens' + b.left + j
    BY <2>2, <2>3 DEF NewInv
  <2> QED
    BY <2>2, <2>4 DEF NewInv
<1>13. ASSUME NEW f \in Files, StartThreads(f) PROVE NewInv'
  <2>1. /\ todo' = Filled /\ Filled' = {}
        /\ UNCHANGED <<opens, shm, text, flight, backup>>
    BY <1>13 DEF StartThreads, Filled, hookVars, serverVars
  <2> QED
    BY <2>1 DEF NewInv
<1>3. ASSUME NEW f \in Files, Ask(f) PROVE NewInv'
  BY <1>3 DEF Ask, hookVars, sendVars, NewInv, Filled
<1>4. CASE CopyPiece
  <2> DEFINE d == Buffer(local[copying], at, P - 1)
  <2>1. /\ shm' = WriteAt(shm, at, d)
        /\ UNCHANGED <<opens, text, todo, flight, backup>>
        /\ Filled' = Filled
        /\ copying \in Files /\ local[copying] = text[copying]
        /\ at \in Nat /\ text[copying] \in Seq(Byte)
    BY <1>4
    DEF CopyPiece, sendVars, serverVars, history, TypeOK, PhaseInv, Filled
  <2>2. /\ d \in Seq(Byte) /\ Len(d) = P - 1
        /\ \A i \in 1 .. P - 1 :
              d[i] = IF at + i <= Len(text[copying])
                     THEN text[copying][at + i] ELSE Nul
    <3> DEFINE t == text[copying]
    <3>1. d = Buffer(t, at, P - 1) /\ t \in Seq(Byte) /\ at \in Nat
      BY <2>1
    <3> HIDE DEF t
    <3>2. /\ Buffer(t, at, P - 1) \in Seq(Byte)
          /\ Len(Buffer(t, at, P - 1)) = P - 1
          /\ \A i \in 1 .. P - 1 :
                Buffer(t, at, P - 1)[i] =
                   IF at + i <= Len(t) THEN t[at + i] ELSE Nul
      BY <3>1, BufferIs, Sizes
    <3> HIDE DEF d
    <3> QED
      BY <3>1, <3>2 DEF t
  <2> HIDE DEF d
  <2>3. \A i \in 1 .. Len(shm') :
           shm'[i] = IF i \in at + 1 .. at + Len(d) THEN d[i - at]
                     ELSE IF i <= Len(shm) THEN shm[i] ELSE Nul
    <3>1. shm \in Seq(Byte) /\ at \in Nat /\ d \in Seq(Byte)
      BY <1>0, <2>1, <2>2
    <3> HIDE DEF TypeOK, PhaseInv, NewInv
    <3>2. \A i \in 1 .. Len(WriteAt(shm, at, d)) :
             WriteAt(shm, at, d)[i] =
                IF i \in at + 1 .. at + Len(d) THEN d[i - at]
                ELSE IF i <= Len(shm) THEN shm[i] ELSE Nul
      BY <3>1, WriteAtIs
    <3>3. shm' = WriteAt(shm, at, d)
      BY <2>1
    <3> QED
      BY ONLY <3>2, <3>3
  <2>4. ASSUME NEW i \in 1 .. Len(shm')
        PROVE  shm'[i] <= 100 * opens + i
    <3>0. i \in Nat \ {0} /\ Len(shm) \in Nat /\ P - 1 \in Nat
      BY <1>0, Sizes
    <3>1. CASE i \in at + 1 .. at + Len(d)
      <4>1. i - at \in 1 .. P - 1 /\ at + (i - at) = i
        BY <2>1, <2>2, <3>0, <3>1
      <4>2. d[i - at] = IF i <= Len(text[copying])
                        THEN text[copying][i] ELSE Nul
        BY <2>2, <4>1
      <4>3. i <= Len(text[copying]) => text[copying][i] <= 100 * opens + i
        BY <2>1, <3>0 DEF NewInv
      <4>4. shm'[i] = d[i - at]
        BY <2>3, <3>1
      <4> QED
        BY <1>0, <3>0, <4>2, <4>3, <4>4
    <3>2. CASE i \notin at + 1 .. at + Len(d)
      <4>1. shm'[i] = IF i <= Len(shm) THEN shm[i] ELSE Nul
        BY <2>3, <3>2
      <4>2. i <= Len(shm) => shm[i] <= 100 * opens + i
        BY <3>0 DEF NewInv
      <4> QED
        BY <1>0, <3>0, <4>1, <4>2
    <3> QED
      BY <3>1, <3>2
  <2> QED
    BY <2>1, <2>4 DEF NewInv
<1>5. CASE Hide
  BY <1>5 DEF Hide, sendVars, serverVars, history, NewInv, Filled
<1>6. ASSUME NEW b \in todo, SendBlock(b) PROVE NewInv'
  BY <1>6 DEF SendBlock, hookVars, serverVars, history, NewInv, Filled
<1>7. ASSUME NEW b \in todo, SendFails(b) PROVE NewInv'
  BY <1>7 DEF SendFails, hookVars, serverVars, NewInv, Filled
<1>8. ASSUME NEW b \in flight, StoreBlock(b) PROVE NewInv'
  <2> DEFINE s == backup[b.file]
  <2>1. /\ backup' = [backup EXCEPT ![b.file] = WriteAt(s, b.left, b.data)]
        /\ flight' = flight \ {b}
        /\ UNCHANGED <<opens, text, todo, shm>> /\ Filled' = Filled
    BY <1>8 DEF StoreBlock, hookVars, history, Filled
  <2>2. /\ b.file \in Files /\ b.left \in Nat /\ b.data \in Seq(Byte)
        /\ s \in Seq(Byte)
    BY DEF TypeOK, Blocks
  <2>3. ASSUME NEW i \in 1 .. Len(backup'[b.file])
        PROVE  backup'[b.file][i] <= 100 * opens + i
    <3>0. i \in Nat \ {0} /\ Len(s) \in Nat /\ Len(b.data) \in Nat
      BY <2>2
    <3>1. backup'[b.file] = WriteAt(s, b.left, b.data)
      BY <1>0, <2>1, <2>2
    <3>2. backup'[b.file][i] =
             IF i \in b.left + 1 .. b.left + Len(b.data)
             THEN b.data[i - b.left]
             ELSE IF i <= Len(s) THEN s[i] ELSE Nul
      BY <2>2, <3>1, WriteAtIs
    <3>3. i <= Len(s) => s[i] <= 100 * opens + i
      BY <2>2, <3>0 DEF NewInv
    <3>4. CASE i \in b.left + 1 .. b.left + Len(b.data)
      <4>1. i - b.left \in 1 .. Len(b.data) /\ b.left + (i - b.left) = i
        BY <2>2, <3>0, <3>4
      <4>2. b.data[i - b.left] <= 100 * opens + b.left + (i - b.left)
        BY <4>1 DEF NewInv
      <4>3. 100 * opens + b.left + (i - b.left) = 100 * opens + i
        BY <1>0, <2>2, <3>0
      <4> QED
        BY <3>2, <3>4, <4>2, <4>3
    <3>5. CASE i \notin b.left + 1 .. b.left + Len(b.data)
      BY <1>0, <3>0, <3>2, <3>3, <3>5
    <3> QED
      BY <3>4, <3>5
  <2>4. \A g \in Files : g # b.file => backup'[g] = backup[g]
    BY <1>0, <2>1
  <2> HIDE DEF s
  <2>5. \A g \in Files : \A i \in 1 .. Len(backup'[g]) :
           backup'[g][i] <= 100 * opens' + i
    BY <2>1, <2>3, <2>4 DEF NewInv
  <2> QED
    BY <2>1, <2>5 DEF NewInv
<1>9. CASE ReadChunk
  BY <1>9 DEF ReadChunk, hookVars, sendVars, history, NewInv, Filled
<1>10. CASE EndOfBackup
  BY <1>10 DEF EndOfBackup, hookVars, sendVars, history, NewInv, Filled
<1>11. CASE Recv
  BY <1>11 DEF Recv, hookVars, sendVars, serverVars, history, NewInv, Filled
<1>12. CASE UNCHANGED vars
  BY <1>12 DEF vars, hookVars, sendVars, serverVars, history, NewInv, Filled
<1> QED
  BY <1>1, <1>2, <1>3, <1>4, <1>5, <1>6, <1>7, <1>8, <1>9, <1>10, <1>11,
     <1>12, <1>13
  DEF Next

-----------------------------------------------------------------------------
(***************************************************************************)
(* What the client finds in the shared memory                              *)
(***************************************************************************)

\* One piece: of P bytes read, P - 1 are moved.
LEMMA PieceStep ==
    ASSUME TypeOK, PhaseInv, CopyInv, CopyPiece, NEW f \in Files,
           state[f] = "open"
    PROVE  /\ at' <= Len(text[f])
           /\ at' < Len(text[f]) => \E k \in 0 .. at' : at' = k * P
           /\ \A i \in 1 .. Len(shm') :
                 shm'[i] = IF i <= at' /\ Moved(i) THEN text[f][i] ELSE Nul
           /\ \A i \in 1 .. at' : Moved(i) => i <= Len(shm')
<1> DEFINE t == text[f]  n == Len(t)  d == Buffer(t, at, P - 1)
<1>1. /\ copying = f /\ local[f] = t
      /\ t \in Seq(Byte) /\ shm \in Seq(Byte) /\ at \in Nat
  BY DEF CopyPiece, PhaseInv, TypeOK
<1>2. at < n /\ shm' = WriteAt(shm, at, d) /\ at' = Min({at + P, n})
  BY <1>1 DEF CopyPiece
<1>3. /\ n \in Nat /\ Len(shm) \in Nat
      /\ P \in Nat /\ P >= 2 /\ P - 1 \in Nat /\ P \in Nat \ {0}
  BY <1>1, Sizes
<1>4. PICK k \in 0 .. at : at = k * P
  BY <1>2 DEF CopyInv
<1>5. /\ \A i \in 1 .. Len(shm) :
            shm[i] = IF i <= at /\ Moved(i) THEN t[i] ELSE Nul
      /\ \A i \in 1 .. at : Moved(i) => i <= Len(shm)
  BY DEF CopyInv
<1>6. /\ d \in Seq(Byte) /\ Len(d) = P - 1
      /\ \A i \in 1 .. P - 1 :
            d[i] = IF at + i <= n THEN t[at + i] ELSE Nul
  <2> HIDE DEF t
  <2> QED
    BY <1>1, <1>3, BufferIs
<1> HIDE DEF t, n, d
<1>7. /\ Len(shm') = IF Len(shm) >= at + (P - 1) THEN Len(shm)
                     ELSE at + (P - 1)
      /\ \A i \in 1 .. Len(shm') :
            shm'[i] = IF i \in at + 1 .. at + (P - 1) THEN d[i - at]
                      ELSE IF i <= Len(shm) THEN shm[i] ELSE Nul
  BY <1>1, <1>2, <1>6, WriteAtIs
<1>8. at' = IF at + P <= n THEN at + P ELSE n
  BY <1>1, <1>2, <1>3, MinTwo
<1>9. /\ \A i \in at + 1 .. at + (P - 1) : Moved(i)
      /\ ~Moved(at + P)
  <2>1. \A r \in 0 .. P - 1 : (at + r) % P = r
    BY <1>3, <1>4, ModOfByte
  <2>2. ASSUME NEW i \in at + 1 .. at + (P - 1) PROVE Moved(i)
    <3>1. i - 1 - at \in 0 .. P - 1 /\ at + (i - 1 - at) = i - 1
      BY <1>1, <1>3
    <3>2. (i - 1) % P = i - 1 - at
      BY <2>1, <3>1
    <3>3. i - 1 - at # P - 1
      BY <1>1, <1>3
    <3> QED
      BY <3>2, <3>3 DEF Moved
  <2>3. ~Moved(at + P)
    <3> DEFINE x == (at + P) - 1  r == P - 1
    <3>1. r \in 0 .. P - 1 /\ x = at + r
      BY <1>1, <1>3
    <3> HIDE DEF x, r
    <3>2. x % P = r
      BY <2>1, <3>1
    <3>3. Moved(at + P) <=> x % P # r
      BY DEF Moved, x, r
    <3> QED
      BY <3>2, <3>3
  <2> QED
    BY <2>2, <2>3
<1>10. at' <= n /\ at' \in Nat /\ at <= at' /\ at' <= at + P
  BY <1>1, <1>2, <1>3, <1>8
<1>11. ASSUME at' < n PROVE \E j \in 0 .. at' : at' = j * P
  <2>1. at' = at + P
    BY <1>1, <1>3, <1>8, <1>11
  <2>2. at + P = (k + 1) * P
    BY <1>3, <1>4
  <2>3. k + 1 \in 0 .. at + P
    BY <1>1, <1>3
  <2> QED
    BY <2>1, <2>2, <2>3
<1>12. ASSUME NEW i \in 1 .. Len(shm')
       PROVE  shm'[i] = IF i <= at' /\ Moved(i) THEN t[i] ELSE Nul
  <2>0. i \in Nat \ {0}
    BY <1>1, <1>3, <1>7
  <2>1. CASE i \in at + 1 .. at + (P - 1)
    <3>1. i - at \in 1 .. P - 1 /\ at + (i - at) = i
      BY <1>1, <1>3, <2>1
    <3>2. shm'[i] = IF i <= n THEN t[i] ELSE Nul
      BY <1>6, <1>7, <2>1, <3>1
    <3>3. i <= at' <=> i <= n
      BY <1>1, <1>3, <1>8, <2>1
    <3> QED
      BY <1>9, <2>1, <3>2, <3>3
  <2>2. CASE i <= at
    <3>1. shm'[i] = IF i <= Len(shm) THEN shm[i] ELSE Nul
      BY <1>1, <1>3, <1>7, <2>0, <2>2
    <3>2. i <= Len(shm) => shm[i] = IF Moved(i) THEN t[i] ELSE Nul
      BY <1>5, <2>0, <2>2
    <3>3. Moved(i) => i <= Len(shm)
      BY <1>1, <1>5, <2>0, <2>2
    <3>4. i <= at'
      BY <1>1, <1>10, <2>0, <2>2
    <3> QED
      BY <3>1, <3>2, <3>3, <3>4
  <2>3. CASE i >= at + P
    <3>1. shm'[i] = IF i <= Len(shm) THEN shm[i] ELSE Nul
      BY <1>1, <1>3, <1>7, <2>0, <2>3
    <3>2. i <= Len(shm) => shm[i] = Nul
      BY <1>1, <1>3, <1>5, <2>0, <2>3
    <3>3. i <= at' => i = at + P
      BY <1>1, <1>3, <1>10, <2>0, <2>3
    <3> QED
      BY <1>9, <3>1, <3>2, <3>3
  <2> QED
    BY <1>1, <1>3, <2>0, <2>1, <2>2, <2>3
<1>13. ASSUME NEW i \in 1 .. at', Moved(i) PROVE i <= Len(shm')
  <2>1. i # at + P
    BY <1>9, <1>13
  <2> QED
    BY <1>1, <1>3, <1>7, <1>10, <2>1
<1> QED
  BY <1>10, <1>11, <1>12, <1>13 DEF n, t

LEMMA CopyStep == TypeOK /\ PhaseInv /\ CopyInv /\ [Next]_vars => CopyInv'
<1> SUFFICES ASSUME TypeOK, PhaseInv, CopyInv, [Next]_vars PROVE CopyInv'
  OBVIOUS
<1>1. ASSUME NEW f \in Files, OpenFile(f) PROVE CopyInv'
  <2>1. /\ at' = 0 /\ shm' = <<>> /\ copying' = f
        /\ \A g \in Files \ {f} : state'[g] # "open"
    BY <1>1 DEF OpenFile, TypeOK
  <2>2. Len(text'[f]) \in Nat
    <3>1. text' \in [Files -> Seq(Byte)]
      BY <1>1, TypeStep DEF TypeOK, Next
    <3> QED
      BY <3>1
  <2>3. 0 = 0 * P
    BY Sizes
  <2> QED
    BY <2>1, <2>2, <2>3 DEF CopyInv
<1>13. ASSUME NEW f \in Files, CutBlock(f) PROVE CopyInv'
  BY <1>13 DEF CutBlock, hookVars, CopyInv, Moved
<1>2. ASSUME NEW f \in Files, StartThreads(f) PROVE CopyInv'
  <2>1. \A g \in Files : state'[g] # "open"
    BY <1>2 DEF StartThreads, PhaseInv, TypeOK
  <2> QED
    BY <2>1 DEF CopyInv
<1>3. ASSUME NEW f \in Files, Ask(f) PROVE CopyInv'
  BY <1>3 DEF Ask, hookVars, CopyInv, TypeOK
<1>4. CASE CopyPiece
  <2>1. UNCHANGED <<copying, state, text>>
    BY <1>4 DEF CopyPiece, history
  <2>2. \A f \in Files : state[f] = "open" => copying = f
    BY <1>4 DEF CopyPiece, PhaseInv
  <2>3. ASSUME NEW f \in Files, state[f] = "open"
        PROVE  /\ at' <= Len(text[f])
               /\ at' < Len(text[f]) => \E k \in 0 .. at' : at' = k * P
               /\ \A i \in 1 .. Len(shm') :
                     shm'[i] = IF i <= at' /\ Moved(i)
                               THEN text[f][i] ELSE Nul
               /\ \A i \in 1 .. at' : Moved(i) => i <= Len(shm')
    BY <1>4, <2>3, PieceStep
  <2> QED
    BY <2>1, <2>2, <2>3 DEF CopyInv, Moved
<1>5. CASE Hide
  <2>1. /\ at = Len(text[copying]) /\ copying \in Files
        /\ UNCHANGED <<at, shm, state, text>>
    BY <1>5 DEF Hide, history, PhaseInv, TypeOK
  <2>2. \A f \in Files : state[f] = "open" => copying = f
    BY <2>1, TransferAssumption DEF PhaseInv
  <2>3. \A f \in Files : state[f] = "open" => ~(at < Len(text[f]))
    BY <2>1, <2>2 DEF TypeOK
  <2> QED
    BY <2>1, <2>3 DEF CopyInv, Moved
<1>6. ASSUME NEW b \in todo, SendBlock(b) PROVE CopyInv'
  BY <1>6 DEF SendBlock, hookVars, history, CopyInv, Moved
<1>7. ASSUME NEW b \in todo, SendFails(b) PROVE CopyInv'
  BY <1>7 DEF SendFails, hookVars, CopyInv, Moved
<1>8. ASSUME NEW b \in flight, StoreBlock(b) PROVE CopyInv'
  BY <1>8 DEF StoreBlock, hookVars, history, CopyInv, Moved
<1>9. CASE ReadChunk
  BY <1>9 DEF ReadChunk, hookVars, history, CopyInv, Moved
<1>10. CASE EndOfBackup
  BY <1>10 DEF EndOfBackup, hookVars, history, CopyInv, Moved, TypeOK
<1>11. CASE Recv
  BY <1>11 DEF Recv, hookVars, history, CopyInv, Moved
<1>12. CASE UNCHANGED vars
  BY <1>12 DEF vars, hookVars, history, CopyInv, Moved
<1> QED
  BY <1>1, <1>2, <1>3, <1>4, <1>5, <1>6, <1>7, <1>8, <1>9, <1>10, <1>11,
     <1>12, <1>13
  DEF Next

-----------------------------------------------------------------------------
(***************************************************************************)
(* What the server has when a text is new                                  *)
(***************************************************************************)

\* A byte of the file after b was written to it is b's, or was there before.
LEMMA StoredByte ==
    ASSUME TypeOK, NEW b \in flight, StoreBlock(b), NEW i \in Nat \ {0},
           NEW x \in Int, x # Nul
    PROVE  Has(backup'[b.file], i, x) <=>
              IF i \in b.left + 1 .. b.left + Len(b.data)
              THEN b.data[i - b.left] = x
              ELSE Has(backup[b.file], i, x)
<1> DEFINE s == backup[b.file]  w == backup'[b.file]
<1>1. /\ b.file \in Files /\ b.left \in Nat /\ b.data \in Seq(Byte)
      /\ s \in Seq(Byte)
  BY DEF TypeOK, Blocks
<1>2. w = WriteAt(s, b.left, b.data)
  BY <1>1 DEF StoreBlock, TypeOK
<1> HIDE DEF s, w
<1>3. /\ Len(w) = IF Len(s) >= b.left + Len(b.data) THEN Len(s)
                  ELSE b.left + Len(b.data)
      /\ \A k \in 1 .. Len(w) :
            w[k] = IF k \in b.left + 1 .. b.left + Len(b.data)
                   THEN b.data[k - b.left]
                   ELSE IF k <= Len(s) THEN s[k] ELSE Nul
  <2> DEFINE u == WriteAt(s, b.left, b.data)
  <2>1. /\ Len(u) = IF Len(s) >= b.left + Len(b.data) THEN Len(s)
                    ELSE b.left + Len(b.data)
        /\ \A k \in 1 .. Len(u) :
              u[k] = IF k \in b.left + 1 .. b.left + Len(b.data)
                     THEN b.data[k - b.left]
                     ELSE IF k <= Len(s) THEN s[k] ELSE Nul
    BY <1>1, WriteAtIs
  <2> HIDE DEF u
  <2> QED
    BY <1>2, <2>1 DEF u
<1>4. Len(s) \in Nat /\ Len(b.data) \in Nat
  BY <1>1
<1>5. CASE i \in b.left + 1 .. b.left + Len(b.data)
  <2>1. i \in 1 .. Len(w) /\ w[i] = b.data[i - b.left]
    BY <1>1, <1>3, <1>4, <1>5
  <2> QED
    BY <1>5, <2>1 DEF Has, w
<1>6. CASE i \notin b.left + 1 .. b.left + Len(b.data)
  <2>1. i <= Len(w) => w[i] = IF i <= Len(s) THEN s[i] ELSE Nul
    BY <1>1, <1>3, <1>4, <1>6
  <2>2. i <= Len(s) => i <= Len(w)
    BY <1>1, <1>3, <1>4
  <2> QED
    BY <1>6, <2>1, <2>2 DEF Has, w, s
<1> QED
  BY <1>5, <1>6

LEMMA OldStep ==
    TypeOK /\ PhaseInv /\ NewInv /\ OldInv /\ [Next]_vars => OldInv'
<1> SUFFICES ASSUME TypeOK, PhaseInv, NewInv, OldInv, [Next]_vars
             PROVE  OldInv'
  OBVIOUS
<1>1. ASSUME NEW f \in Files, OpenFile(f) PROVE OldInv'
  <2>1. PICK n \in Lengths : text' = [text EXCEPT ![f] = Text(opens + 1, n)]
    BY <1>1 DEF OpenFile
  <2>2. n \in Nat /\ opens \in Nat /\ opens + 1 \in Nat
    BY TransferAssumption DEF TypeOK
  <2>3. text'[f] = Text(opens + 1, n)
    BY <2>1 DEF TypeOK
  <2> DEFINE t == text'[f]
  <2>4. Len(t) = n /\ \A i \in 1 .. n : t[i] = 100 * (opens + 1) + i
    <3> DEFINE u == Text(opens + 1, n)
    <3>1. Len(u) = n /\ \A k \in 1 .. n : u[k] = 100 * (opens + 1) + k
      BY <2>2, TextIs
    <3> HIDE DEF u
    <3> QED
      BY <2>3, <3>1 DEF u
  <2>5. /\ UNCHANGED <<backup, flight>>
        /\ \A g \in Files \ {f} : state'[g] # "open"
    BY <1>1 DEF OpenFile, sendVars, serverVars, TypeOK
  <2> HIDE DEF t
  <2>6. ASSUME NEW i \in 1 .. Len(t) PROVE ~Has(backup[f], i, t[i])
    <3>1. i \in Nat \ {0} /\ t[i] = 100 * (opens + 1) + i
      BY <2>2, <2>4
    <3>2. backup[f] \in Seq(Byte)
      BY DEF TypeOK
    <3>3. ASSUME i <= Len(backup[f]) PROVE backup[f][i] # t[i]
      <4>1. i \in 1 .. Len(backup[f])
        BY <3>1, <3>2, <3>3
      <4>2. backup[f][i] \in Int
        BY <3>2, <4>1, ByteAt
      <4>3. backup[f][i] <= 100 * opens + i
        BY <4>1 DEF NewInv
      <4> QED
        BY <2>2, <3>1, <4>2, <4>3
    <3> QED
      BY <3>3 DEF Has
  <2>7. ASSUME NEW b \in flight, NEW i \in 1 .. Len(t), i > b.left
        PROVE  ~Has(b.data, i - b.left, t[i])
    <3>1. i \in Nat \ {0} /\ t[i] = 100 * (opens + 1) + i
      BY <2>2, <2>4
    <3>2. b.left \in Nat /\ b.data \in Seq(Byte)
      BY DEF TypeOK, Blocks
    <3> DEFINE j == i - b.left
    <3>3. ASSUME j <= Len(b.data) PROVE b.data[j] # t[i]
      <4>1. j \in 1 .. Len(b.data) /\ b.left + j = i
        BY <2>7, <3>1, <3>2, <3>3
      <4>2. b.data[j] \in Int
        BY <3>2, <4>1, ByteAt
      <4>3. b.data[j] <= 100 * opens + b.left + j
        BY <4>1 DEF NewInv
      <4> HIDE DEF j
      <4>4. 100 * opens + b.left + j = 100 * opens + i /\ j \in Int
        BY <2>2, <3>2, <4>1
      <4> QED
        BY <2>2, <3>1, <4>2, <4>3, <4>4
    <3> QED
      BY <3>3 DEF Has
  <2> QED
    BY <2>5, <2>6, <2>7 DEF OldInv, t
<1>13. ASSUME NEW f \in Files, CutBlock(f) PROVE OldInv'
  BY <1>13 DEF CutBlock, serverVars, OldInv
<1>2. ASSUME NEW f \in Files, StartThreads(f) PROVE OldInv'
  <2>1. \A g \in Files : state'[g] # "open"
    BY <1>2 DEF StartThreads, PhaseInv, TypeOK
  <2> QED
    BY <2>1 DEF OldInv
<1>3. ASSUME NEW f \in Files, Ask(f) PROVE OldInv'
  BY <1>3 DEF Ask, sendVars, OldInv, TypeOK
<1>4. CASE CopyPiece
  BY <1>4 DEF CopyPiece, sendVars, serverVars, history, OldInv
<1>5. CASE Hide
  BY <1>5 DEF Hide, sendVars, serverVars, history, OldInv
<1>6. ASSUME NEW b \in todo, SendBlock(b) PROVE OldInv'
  <2>1. \A g \in Files : state[g] # "open"
    BY DEF PhaseInv
  <2> QED
    BY <1>6, <2>1 DEF SendBlock, OldInv
<1>7. ASSUME NEW b \in todo, SendFails(b) PROVE OldInv'
  BY <1>7 DEF SendFails, serverVars, OldInv
<1>8. ASSUME NEW b \in flight, StoreBlock(b) PROVE OldInv'
  <2>1. /\ flight' = flight \ {b}
        /\ \A g \in Files \ {b.file} : backup'[g] = backup[g]
        /\ UNCHANGED <<state, text>>
        /\ b.file \in Files /\ b.left \in Nat /\ b.data \in Seq(Byte)
    BY <1>8 DEF StoreBlock, history, TypeOK, Blocks
  <2>2. ASSUME NEW f \in Files, state[f] = "open", NEW i \in 1 .. Len(text[f])
        PROVE  ~Has(backup'[f], i, text[f][i])
    <3>1. ~Has(backup[f], i, text[f][i])
      BY <2>2 DEF OldInv
    <3>2. CASE f # b.file
      BY <2>1, <3>1, <3>2
    <3>3. CASE f = b.file
      <4>1. text[f] \in Seq(Byte)
        BY DEF TypeOK
      <4>2. i \in Nat \ {0} /\ text[f][i] \in Int
        BY <4>1, ByteAt
      <4>3. text[f][i] # Nul
        BY <4>2 DEF NewInv, Nul
      <4>4. Has(backup'[f], i, text[f][i]) <=>
               IF i \in b.left + 1 .. b.left + Len(b.data)
               THEN b.data[i - b.left] = text[f][i]
               ELSE Has(backup[f], i, text[f][i])
        BY <1>8, <3>3, <4>2, <4>3, StoredByte
      <4>5. ASSUME i \in b.left + 1 .. b.left + Len(b.data)
            PROVE  b.data[i - b.left] # text[f][i]
        <5>1. i > b.left /\ i - b.left <= Len(b.data)
          BY <2>1, <4>2, <4>5
        <5>2. ~Has(b.data, i - b.left, text[f][i])
          BY <2>2, <3>3, <5>1 DEF OldInv
        <5> QED
          BY <5>1, <5>2 DEF Has
      <4> QED
        BY <3>1, <4>4, <4>5
    <3> QED
      BY <3>2, <3>3
  <2> QED
    BY <2>1, <2>2 DEF OldInv, Has
<1>9. CASE ReadChunk
  BY <1>9 DEF ReadChunk, sendVars, history, OldInv
<1>10. CASE EndOfBackup
  BY <1>10 DEF EndOfBackup, sendVars, history, OldInv, TypeOK
<1>11. CASE Recv
  BY <1>11 DEF Recv, sendVars, serverVars, history, OldInv
<1>12. CASE UNCHANGED vars
  BY <1>12 DEF vars, sendVars, serverVars, history, OldInv
<1> QED
  BY <1>1, <1>2, <1>3, <1>4, <1>5, <1>6, <1>7, <1>8, <1>9, <1>10, <1>11,
     <1>12, <1>13
  DEF Next

-----------------------------------------------------------------------------
(***************************************************************************)
(* What a block holds                                                      *)
(***************************************************************************)

\* The bytes of a block are those of its part that survive.
LEMMA BlockBytes ==
    ASSUME NEW t \in Seq(Byte), NEW c,
           NEW b \in Blocks, RightBlock(b, t, c), NEW i \in 1 .. Len(t)
    PROVE  i \in b.left + 1 .. b.left + Len(b.data)
           <=> /\ (i - 1) \div (B - 1) = b.left \div (B - 1)
               /\ Survives(Len(t), i - 1) /\ i <= c
<1> DEFINE d == B - 1  n == Len(t)  m == Len(b.data)
<1>1. d \in Nat \ {0} /\ n \in Nat /\ i \in Nat \ {0} /\ i - 1 \in Nat
  BY Sizes
<1>2. m \in Nat /\ b.left \in Nat
  BY DEF Blocks
<1>3. PICK k \in 0 .. n \div B : b.left = k * d
  BY DEF RightBlock
<1>4. k \in Nat /\ k <= n \div B
  <2> HIDE DEF n
  <2>1. n \div B \in Nat
    BY <1>1, Sizes, DivNat
  <2> QED
    BY <2>1
<1>5. b.left \div d = k
  <2> HIDE DEF d
  <2>1. 0 \in 0 .. d - 1 /\ b.left = k * d + 0
    BY <1>1, <1>3, <1>4
  <2>2. (k * d + 0) \div d = k
    BY <1>1, <1>4, <2>1, BlockOfByte
  <2> QED
    BY <2>1, <2>2
<1>6. /\ m <= d
      /\ \A j \in 1 .. d :
            j <= m <=> /\ b.left + j <= c
                       /\ \A h \in b.left .. b.left + j - 1 : h % P # P - 1
  BY DEF RightBlock
<1>7. Survives(n, i - 1) <=>
         LET q == (i - 1) \div d
         IN  q <= n \div B /\ \A h \in q * d .. i - 1 : h % P # P - 1
  BY DEF Survives
<1> HIDE DEF d, n, m
<1>8. ASSUME i \in b.left + 1 .. b.left + m
      PROVE  (i - 1) \div d = k /\ Survives(n, i - 1) /\ i <= c
  <2> DEFINE j == i - b.left
  <2>1. /\ j \in 1 .. d /\ j <= m /\ b.left + j = i
        /\ j - 1 \in 0 .. d - 1 /\ b.left + (j - 1) = i - 1
    BY <1>1, <1>2, <1>6, <1>8
  <2> HIDE DEF j
  <2>2. (k * d + (j - 1)) \div d = k
    BY <1>1, <1>4, <2>1, BlockOfByte
  <2>3. (i - 1) \div d = k
    BY <1>3, <2>1, <2>2
  <2>4. i <= c /\ \A h \in b.left .. i - 1 : h % P # P - 1
    BY <1>6, <2>1
  <2> QED
    BY <1>3, <1>4, <1>7, <2>3, <2>4
<1>9. ASSUME (i - 1) \div d = k, Survives(n, i - 1), i <= c
      PROVE  i \in b.left + 1 .. b.left + m
  <2> DEFINE r == (i - 1) % d  j == r + 1
  <2>1. r \in 0 .. d - 1 /\ i - 1 = k * d + r
    BY <1>1, <1>9, DivMod
  <2> HIDE DEF r
  <2>2. j \in 1 .. d /\ b.left + j = i /\ b.left + (j - 1) = i - 1
    BY <1>1, <1>2, <1>3, <2>1
  <2> HIDE DEF j
  <2>3. \A h \in b.left .. i - 1 : h % P # P - 1
    BY <1>3, <1>7, <1>9
  <2>4. j <= m
    BY <1>6, <1>9, <2>2, <2>3
  <2> QED
    BY <1>1, <1>2, <2>2, <2>4
<1> QED
  BY <1>5, <1>8, <1>9 DEF d, n, m

\* The k-th block starts in block k.
LEMMA StartOfBlock ==
    ASSUME NEW k \in Nat
    PROVE  (k * (B - 1)) \div (B - 1) = k
<1> DEFINE d == B - 1
<1>1. d \in Nat \ {0} /\ 0 \in 0 .. d - 1
  BY Sizes
<1> HIDE DEF d
<1>2. (k * d + 0) \div d = k
  BY <1>1, BlockOfByte
<1>3. (k * d) \div d = k
  BY <1>1, <1>2
<1> QED
  BY <1>3 DEF d

\* Blocks of one file with different offsets have different numbers.
LEMMA BlockNumber ==
    ASSUME NEW t \in Seq(Byte), NEW b, NEW c, NEW x, NEW y,
           RightBlock(b, t, x), RightBlock(c, t, y),
           b.left \div (B - 1) = c.left \div (B - 1)
    PROVE  b.left = c.left
<1>1. Len(t) \div B \in Nat
  <2> DEFINE n == Len(t)
  <2>1. n \in Nat
    OBVIOUS
  <2> HIDE DEF n
  <2>2. n \div B \in Nat
    BY <2>1, Sizes, DivNat
  <2> QED
    BY <2>2 DEF n
<1>2. ASSUME NEW k \in 0 .. Len(t) \div B
      PROVE  (k * (B - 1)) \div (B - 1) = k
  <2>1. k \in Nat
    BY <1>1
  <2> QED
    BY <2>1, StartOfBlock
<1>3. PICK k \in 0 .. Len(t) \div B : b.left = k * (B - 1)
  BY DEF RightBlock
<1>4. PICK l \in 0 .. Len(t) \div B : c.left = l * (B - 1)
  BY DEF RightBlock
<1>5. b.left \div (B - 1) = k /\ c.left \div (B - 1) = l
  BY <1>2, <1>3, <1>4
<1>6. k = l
  BY <1>5
<1> QED
  BY <1>3, <1>4, <1>6

\* A block just cut holds what has been copied of its part.
LEMMA FreshBlock ==
    ASSUME TypeOK, NewInv, CopyInv, NEW f \in Files, state[f] = "open",
           NEW k \in 0 .. Len(text[f]) \div B, NEW b, b = Block(f, k)
    PROVE  RightBlock(b, text[f], at)
<1> DEFINE n == k * (B - 1)  m == Len(b.data)  t == text[f]
<1>1. k \in Nat /\ B - 1 \in Nat /\ n \in Nat
  BY Sizes
<1>2. /\ t \in Seq(Byte) /\ shm \in Seq(Byte) /\ at \in Nat
      /\ Len(shm) \in Nat /\ Len(t) \in Nat
  BY DEF TypeOK
<1>3. /\ at <= Len(t)
      /\ \A i \in 1 .. Len(shm) :
            shm[i] = IF i <= at /\ Moved(i) THEN t[i] ELSE Nul
      /\ \A i \in 1 .. at : Moved(i) => i <= Len(shm)
  BY DEF CopyInv
<1>4. /\ b.left = n /\ m \in 0 .. B - 1
      /\ \A j \in 1 .. m :
            n + j <= Len(shm) /\ b.data[j] = shm[n + j] /\ b.data[j] # Nul
      /\ m < B - 1 /\ n + m + 1 <= Len(shm) => shm[n + m + 1] = Nul
  <2>1. b = BlockAt(f, n)
    BY DEF Block
  <2> HIDE DEF n
  <2> QED
    BY <1>1, <2>1, BlockData
<1>5. \A i \in 1 .. Len(t) : t[i] # Nul
  <2> SUFFICES ASSUME NEW i \in 1 .. Len(t) PROVE t[i] # Nul
    OBVIOUS
  <2>1. 0 < t[i]
    BY DEF NewInv
  <2>2. t[i] \in Int
    BY <1>2, ByteAt
  <2> QED
    BY <2>1, <2>2 DEF Nul
<1>6. b.left = k * (B - 1)
  BY <1>4
<1> HIDE DEF n, m, t
<1>7. ASSUME NEW j \in 1 .. m
      PROVE  n + j <= at /\ Moved(n + j) /\ b.data[j] = t[n + j]
  <2>1. n + j \in 1 .. Len(shm) /\ b.data[j] = shm[n + j] /\ shm[n + j] # Nul
    BY <1>1, <1>2, <1>4
  <2> QED
    BY <1>3, <2>1
<1>8. ASSUME NEW j \in 1 .. B - 1, j <= m,
             NEW h \in n .. n + j - 1
      PROVE  h % P # P - 1
  <2> DEFINE l == h - n + 1
  <2>1. l \in 1 .. m /\ (n + l) - 1 = h
    BY <1>1, <1>4, <1>8
  <2> HIDE DEF l
  <2>2. Moved(n + l)
    BY <1>7, <2>1
  <2> QED
    BY <2>1, <2>2 DEF Moved
<1>9. ASSUME NEW j \in 1 .. B - 1, n + j <= at,
             \A h \in n .. n + j - 1 : h % P # P - 1
      PROVE  j <= m
  <2> SUFFICES ASSUME ~(j <= m) PROVE FALSE
    OBVIOUS
  <2>1. m < B - 1 /\ n + m + 1 \in 1 .. at /\ n + m \in n .. n + j - 1
    BY <1>1, <1>2, <1>4, <1>9
  <2>2. Moved(n + m + 1)
    <3>1. (n + m + 1) - 1 = n + m
      BY <1>1, <1>4
    <3>2. (n + m) % P # P - 1
      BY <1>9, <2>1
    <3> QED
      BY <3>1, <3>2 DEF Moved
  <2>3. n + m + 1 <= Len(shm)
    BY <1>3, <2>1, <2>2
  <2>4. shm[n + m + 1] = t[n + m + 1] /\ t[n + m + 1] # Nul
    BY <1>2, <1>3, <1>5, <2>1, <2>2, <2>3
  <2> QED
    BY <1>4, <2>1, <2>3, <2>4
<1>10. \A j \in 1 .. B - 1 :
          j <= m <=> /\ n + j <= at
                     /\ \A h \in n .. n + j - 1 : h % P # P - 1
  <2> SUFFICES ASSUME NEW j \in 1 .. B - 1
               PROVE  j <= m <=> /\ n + j <= at
                                 /\ \A h \in n .. n + j - 1 : h % P # P - 1
    OBVIOUS
  <2>1. j <= m => j \in 1 .. m
    BY <1>1, <1>4
  <2> QED
    BY <1>7, <1>8, <1>9, <2>1
<1> QED
  BY <1>4, <1>6, <1>7, <1>10 DEF RightBlock, n, m, t

LEMMA CutKeep ==
    ASSUME NEW f \in Files, CutInv, state[f] = "open",
           UNCHANGED <<text[f], cut[f], blocks>>
    PROVE  CutRight(f)'
BY DEF CutInv, CutRight, BlockCount, RightBlock

\* One turn of the cutting loop: the block is cut of what is copied by now.
LEMMA CutTurn ==
    ASSUME TypeOK, NewInv, CopyInv, CutInv, NEW f \in Files, CutBlock(f)
    PROVE  CutRight(f)'
<1> DEFINE m == Len(blocks)  b == Block(f, m)
<1>1. /\ state[f] = "open" /\ m < BlockCount(f) /\ text' = text
      /\ blocks' = Append(blocks, b) /\ blocks \in Seq(Blocks)
      /\ cut'[f] = Append(cut[f], at) /\ cut[f] \in Seq(Nat)
      /\ m \in Nat /\ m = Len(cut[f])
  BY DEF CutBlock, TypeOK, CutInv, CutRight
<1>2. /\ Len(text[f]) \div B \in Nat
      /\ BlockCount(f) = Len(text[f]) \div B + 1
      /\ BlockCount(f)' = BlockCount(f)
  <2> DEFINE n == Len(text[f])
  <2>1. n \in Nat
    BY DEF TypeOK
  <2> HIDE DEF n
  <2>2. n \div B \in Nat
    BY <2>1, Sizes, DivNat
  <2> QED
    BY <1>1, <2>2 DEF n, BlockCount
<1>3. m \in 0 .. Len(text[f]) \div B
  BY <1>1, <1>2
<1>4. RightBlock(b, text[f], at)
  BY <1>1, <1>3, FreshBlock
<1>5. b.left = m * (B - 1)
  BY DEF Block, BlockAt
<1> HIDE DEF b, m
<1>6. /\ Len(blocks') = m + 1 /\ Len(cut'[f]) = m + 1
      /\ \A k \in 1 .. m + 1 :
            /\ blocks'[k] = IF k <= m THEN blocks[k] ELSE b
            /\ cut'[f][k] = IF k <= m THEN cut[f][k] ELSE at
  BY <1>1 DEF m
<1>7. ASSUME NEW k \in 1 .. m + 1
      PROVE  /\ blocks'[k].left = (k - 1) * (B - 1)
             /\ RightBlock(blocks'[k], text'[f], cut'[f][k])
  <2>1. CASE k <= m
    <3>1. k \in 1 .. m
      BY <1>1, <2>1
    <3>2. /\ blocks[k].left = (k - 1) * (B - 1)
          /\ RightBlock(blocks[k], text[f], cut[f][k])
      BY <1>1, <3>1 DEF CutInv, CutRight, m
    <3> QED
      BY <1>1, <1>6, <2>1, <3>2
  <2>2. CASE ~(k <= m)
    <3>1. k = m + 1 /\ k - 1 = m
      BY <1>1, <2>2
    <3> QED
      BY <1>1, <1>4, <1>5, <1>6, <2>2, <3>1
  <2> QED
    BY <2>1, <2>2
<1> QED
  <2>1. Len(cut'[f]) = Len(blocks') /\ Len(blocks') = m + 1
    BY <1>6
  <2>2. Len(blocks') <= BlockCount(f)'
    BY <1>1, <1>2, <1>3, <2>1
  <2> QED
    BY <1>7, <2>1, <2>2 DEF CutRight, RightBlock

LEMMA CutStep ==
    TypeOK /\ PhaseInv /\ NewInv /\ CopyInv /\ CutInv /\ [Next]_vars
        => CutInv'
<1> SUFFICES ASSUME TypeOK, PhaseInv, NewInv, CopyInv, CutInv, [Next]_vars,
                    NEW f \in Files, state'[f] = "open"
             PROVE  CutRight(f)'
  BY DEF CutInv
<1>1. ASSUME NEW g \in Files, OpenFile(g) PROVE CutRight(f)'
  <2>1. /\ f = g /\ \A h \in Files : state[h] # "open"
        /\ cut'[f] = <<>> /\ blocks' = blocks
    BY <1>1 DEF OpenFile, sendVars, TypeOK
  <2>2. blocks' = <<>>
    BY <2>1 DEF PhaseInv
  <2>3. Len(text'[f]) \div B + 1 \in Nat
    <3> DEFINE n == Len(text'[f])
    <3>1. n \in Nat
      BY TypeStep DEF TypeOK
    <3> HIDE DEF n
    <3>2. n \div B \in Nat
      BY <3>1, Sizes, DivNat
    <3> QED
      BY <3>2 DEF n
  <2> QED
    BY <2>1, <2>2, <2>3 DEF CutRight, BlockCount
<1>2. ASSUME NEW g \in Files, CutBlock(g) PROVE CutRight(f)'
  <2>1. f = g
    BY <1>2 DEF CutBlock, PhaseInv
  <2> QED
    BY <1>2, <2>1, CutTurn
<1>3. ASSUME NEW g \in Files, StartThreads(g) PROVE CutRight(f)'
  BY <1>3 DEF StartThreads, PhaseInv, TypeOK
<1>4. ASSUME NEW g \in Files, Ask(g) PROVE CutRight(f)'
  <2>1. /\ state[f] = "open" /\ UNCHANGED <<text[f], cut[f], blocks>>
    BY <1>4 DEF Ask, sendVars, TypeOK
  <2> QED
    BY <2>1, CutKeep
<1>5. CASE CopyPiece
  <2>1. state[f] = "open" /\ UNCHANGED <<text[f], cut[f], blocks>>
    BY <1>5 DEF CopyPiece, sendVars, history
  <2> QED
    BY <2>1, CutKeep
<1>6. CASE Hide
  <2>1. state[f] = "open" /\ UNCHANGED <<text[f], cut[f], blocks>>
    BY <1>6 DEF Hide, sendVars, history
  <2> QED
    BY <2>1, CutKeep
<1>7. ASSUME NEW b \in todo, SendBlock(b) PROVE CutRight(f)'
  <2>1. state[f] = "open" /\ UNCHANGED <<text[f], cut[f], blocks>>
    BY <1>7 DEF SendBlock, history
  <2> QED
    BY <2>1, CutKeep
<1>8. ASSUME NEW b \in todo, SendFails(b) PROVE CutRight(f)'
  <2>1. state[f] = "open" /\ UNCHANGED <<text[f], cut[f], blocks>>
    BY <1>8 DEF SendFails
  <2> QED
    BY <2>1, CutKeep
<1>9. ASSUME NEW b \in flight, StoreBlock(b) PROVE CutRight(f)'
  <2>1. state[f] = "open" /\ UNCHANGED <<text[f], cut[f], blocks>>
    BY <1>9 DEF StoreBlock, history
  <2> QED
    BY <2>1, CutKeep
<1>10. CASE ReadChunk
  <2>1. state[f] = "open" /\ UNCHANGED <<text[f], cut[f], blocks>>
    BY <1>10 DEF ReadChunk, sendVars, history
  <2> QED
    BY <2>1, CutKeep
<1>11. CASE EndOfBackup
  <2>1. state[f] = "open" /\ UNCHANGED <<text[f], cut[f], blocks>>
    BY <1>11 DEF EndOfBackup, sendVars, history, TypeOK
  <2> QED
    BY <2>1, CutKeep
<1>12. CASE Recv
  <2>1. state[f] = "open" /\ UNCHANGED <<text[f], cut[f], blocks>>
    BY <1>12 DEF Recv, sendVars, history
  <2> QED
    BY <2>1, CutKeep
<1>13. CASE UNCHANGED vars
  <2>1. state[f] = "open" /\ UNCHANGED <<text[f], cut[f], blocks>>
    BY <1>13 DEF vars, sendVars, history
  <2> QED
    BY <2>1, CutKeep
<1> QED
  BY <1>1, <1>2, <1>3, <1>4, <1>5, <1>6, <1>7, <1>8, <1>9, <1>10, <1>11,
     <1>12, <1>13
  DEF Next

LEMMA BlockKeep ==
    ASSUME NEW f \in Files, BlocksRight(f),
           UNCHANGED <<text[f], cut[f], lost[f]>>,
           \A b \in todo' \union flight' : b.file = f =>
              b \in todo \union flight,
           \A b \in todo' \intersect flight' : b.file = f =>
              b \in todo \intersect flight
    PROVE  BlocksRight(f)'
BY DEF BlocksRight, CutOf, BlockCount

LEMMA BlockStep ==
    TypeOK /\ PhaseInv /\ CutInv /\ BlockInv /\ [Next]_vars => BlockInv'
<1> SUFFICES ASSUME TypeOK, PhaseInv, CutInv, BlockInv, [Next]_vars,
                    NEW f \in Files, state'[f] = "sent", ~late'[f]
             PROVE  BlocksRight(f)'
  BY DEF BlockInv
<1>1. ASSUME NEW g \in Files, OpenFile(g) PROVE BlocksRight(f)'
  <2>1. /\ f # g /\ state[f] = "sent" /\ ~late[f]
        /\ UNCHANGED <<text[f], cut[f], lost[f], todo, flight>>
    BY <1>1 DEF OpenFile, sendVars, TypeOK
  <2> QED
    BY <2>1, BlockKeep DEF BlockInv
<1>13. ASSUME NEW g \in Files, CutBlock(g) PROVE BlocksRight(f)'
  <2>1. /\ f # g /\ state[f] = "sent" /\ ~late[f]
        /\ UNCHANGED <<text[f], cut[f], lost[f], todo, flight>>
    BY <1>13 DEF CutBlock, TypeOK
  <2> QED
    BY <2>1, BlockKeep DEF BlockInv
<1>2. ASSUME NEW g \in Files, StartThreads(g) PROVE BlocksRight(f)'
  <2>1. /\ state[g] = "open" /\ todo = {}
        /\ Len(blocks) = BlockCount(g)
        /\ todo' = Filled
        /\ UNCHANGED <<flight, text, lost, cut>>
        /\ state' = [state EXCEPT ![g] = "sent"]
        /\ late' = [late EXCEPT ![g] = \E b \in flight : b.file = g]
    BY <1>2 DEF StartThreads, Filled, PhaseInv
  <2>2. \A b \in todo' : b.file = g
    BY <2>1 DEF PhaseInv
  <2>3. CASE f # g
    <3>1. /\ state[f] = "sent" /\ ~late[f]
          /\ UNCHANGED <<text[f], cut[f], lost[f]>>
      BY <2>1, <2>3 DEF TypeOK
    <3> QED
      BY <2>1, <2>2, <2>3, <3>1, BlockKeep DEF BlockInv
  <2>4. CASE f = g
    <3>1. /\ \A b \in flight : b.file # f
          /\ lost'[f] = {}
      BY <2>1, <2>4 DEF TypeOK, PhaseInv
    <3>2. ASSUME NEW k \in 1 .. Len(blocks)
          PROVE  /\ blocks[k].left = (k - 1) * (B - 1)
                 /\ RightBlock(blocks[k], text[f], CutOf(f, blocks[k]))
      <4>1. /\ blocks[k].left = (k - 1) * (B - 1)
            /\ RightBlock(blocks[k], text[f], cut[f][k])
        BY <2>1, <2>4 DEF CutInv, CutRight
      <4>2. blocks[k].left \div (B - 1) + 1 = k
        <5>1. k - 1 \in Nat /\ (k - 1) + 1 = k
          BY DEF TypeOK
        <5> QED
          BY <4>1, <5>1, StartOfBlock
      <4> QED
        BY <4>1, <4>2 DEF CutOf
    <3>3. \A b \in todo' : RightBlock(b, text[f], CutOf(f, b))
      BY <2>1, <3>2 DEF Filled
    <3>4. ASSUME NEW b \in todo', NEW c \in todo', b.left = c.left
          PROVE  b = c
      <4>1. PICK k \in 1 .. Len(blocks) : b = blocks[k]
        BY <2>1 DEF Filled
      <4>2. PICK l \in 1 .. Len(blocks) : c = blocks[l]
        BY <2>1 DEF Filled
      <4>3. k - 1 \in Nat /\ l - 1 \in Nat
        BY DEF TypeOK
      <4>4. k - 1 = l - 1
        BY <3>2, <3>4, <4>1, <4>2, <4>3, StartOfBlock
      <4>5. k = l
        BY <4>4 DEF TypeOK
      <4> QED
        BY <4>1, <4>2, <4>5
    <3>5. Len(cut'[f]) = BlockCount(f)'
      BY <2>1, <2>4 DEF CutInv, CutRight, BlockCount
    <3> QED
      BY <2>1, <3>1, <3>3, <3>4, <3>5 DEF BlocksRight, CutOf
  <2> QED
    BY <2>3, <2>4
<1>3. ASSUME NEW g \in Files, Ask(g) PROVE BlocksRight(f)'
  <2>1. /\ state[f] = "sent" /\ ~late[f]
        /\ UNCHANGED <<text[f], cut[f], lost[f], todo, flight>>
    BY <1>3 DEF Ask, sendVars, TypeOK
  <2> QED
    BY <2>1, BlockKeep DEF BlockInv
<1>4. CASE CopyPiece
  <2>1. UNCHANGED <<state, late, text, cut, lost, todo, flight>>
    BY <1>4 DEF CopyPiece, sendVars, history
  <2> QED
    BY <2>1, BlockKeep DEF BlockInv
<1>5. CASE Hide
  <2>1. UNCHANGED <<state, late, text, cut, lost, todo, flight>>
    BY <1>5 DEF Hide, sendVars, history
  <2> QED
    BY <2>1, BlockKeep DEF BlockInv
<1>6. ASSUME NEW b \in todo, SendBlock(b) PROVE BlocksRight(f)'
  <2>1. /\ UNCHANGED <<state, late, text, cut, lost>>
        /\ todo' = todo \ {b} /\ flight' \subseteq flight \union {b}
    BY <1>6 DEF SendBlock, history
  <2> QED
    BY <2>1, BlockKeep DEF BlockInv
<1>7. ASSUME NEW b \in todo, SendFails(b) PROVE BlocksRight(f)'
  <2>1. /\ UNCHANGED <<state, late, text, cut, flight>>
        /\ todo' = todo \ {b}
        /\ lost' = [lost EXCEPT ![b.file] =
                       @ \union {b.left \div (B - 1)}]
    BY <1>7 DEF SendFails
  <2>2. BlocksRight(f)
    BY <2>1 DEF BlockInv
  <2>3. CASE b.file # f
    <3>1. lost'[f] = lost[f]
      BY <2>1, <2>3 DEF TypeOK
    <3> QED
      BY <2>1, <2>2, <2>3, <3>1, BlockKeep
  <2>4. CASE b.file = f
    <3>1. lost'[f] = lost[f] \union {b.left \div (B - 1)}
      BY <2>1, <2>4 DEF TypeOK
    <3>2. ASSUME NEW c \in todo' \union flight', c.file = f
          PROVE  c.left \div (B - 1) # b.left \div (B - 1)
      <4>1. c # b /\ c \in todo \union flight
        BY <2>1, <2>2, <2>4 DEF BlocksRight
      <4>2. c.left # b.left
        BY <2>2, <2>4, <3>2, <4>1 DEF BlocksRight
      <4>3. /\ RightBlock(c, text[f], CutOf(f, c))
            /\ RightBlock(b, text[f], CutOf(f, b))
            /\ text[f] \in Seq(Byte)
        BY <2>2, <2>4, <3>2, <4>1 DEF BlocksRight, TypeOK
      <4> QED
        BY <4>2, <4>3, BlockNumber
    <3> QED
      BY <2>1, <2>2, <3>1, <3>2 DEF BlocksRight, CutOf, BlockCount
  <2> QED
    BY <2>3, <2>4
<1>8. ASSUME NEW b \in flight, StoreBlock(b) PROVE BlocksRight(f)'
  <2>1. /\ UNCHANGED <<state, late, text, cut, lost, todo>>
        /\ flight' = flight \ {b}
    BY <1>8 DEF StoreBlock, history
  <2> QED
    BY <2>1, BlockKeep DEF BlockInv
<1>9. CASE ReadChunk
  <2>1. UNCHANGED <<state, late, text, cut, lost, todo, flight>>
    BY <1>9 DEF ReadChunk, sendVars, history
  <2> QED
    BY <2>1, BlockKeep DEF BlockInv
<1>10. CASE EndOfBackup
  <2>1. /\ UNCHANGED <<late, text, cut, lost, todo, flight>>
        /\ state[f] = "sent"
    BY <1>10 DEF EndOfBackup, sendVars, history, TypeOK
  <2> QED
    BY <2>1, BlockKeep DEF BlockInv
<1>11. CASE Recv
  <2>1. UNCHANGED <<state, late, text, cut, lost, todo, flight>>
    BY <1>11 DEF Recv, sendVars, history
  <2> QED
    BY <2>1, BlockKeep DEF BlockInv
<1>12. CASE UNCHANGED vars
  <2>1. UNCHANGED <<state, late, text, cut, lost, todo, flight>>
    BY <1>12 DEF vars, sendVars, history
  <2> QED
    BY <2>1, BlockKeep DEF BlockInv
<1> QED
  BY <1>1, <1>2, <1>3, <1>4, <1>5, <1>6, <1>7, <1>8, <1>9, <1>10, <1>11,
     <1>12, <1>13
  DEF Next

-----------------------------------------------------------------------------
(***************************************************************************)
(* What the backup holds                                                   *)
(***************************************************************************)

\* A step that neither writes the backup nor loses or finishes a block.
LEMMA StoreKeep ==
    ASSUME NEW f \in Files, NEW i \in Nat, StoredSoFar(f, i),
           UNCHANGED <<text[f], cut[f], lost[f], backup[f]>>,
           Waits(f, i)' <=> Waits(f, i)
    PROVE  StoredSoFar(f, i)'
BY DEF StoredSoFar, Has, Survives, CutAt

\* All parts of a new text wait when the threads begin to send it.
LEMMA CutWaits ==
    ASSUME TypeOK, PhaseInv, CutInv, NEW f \in Files, StartThreads(f),
           NEW i \in 1 .. Len(text[f]), Survives(Len(text[f]), i - 1)
    PROVE  Waits(f, i)'
<1> DEFINE n == Len(text[f])  d == B - 1  k == (i - 1) \div d
           b == blocks[k + 1]
<1>1. n \in Nat /\ d \in Nat \ {0} /\ i - 1 \in Nat
  BY Sizes DEF TypeOK
<1>2. k <= n \div B
  BY DEF Survives
<1>3. k \in Nat
  <2> HIDE DEF d
  <2> QED
    BY <1>1, DivNat
<1>4. n \div B \in Nat
  <2> HIDE DEF n
  <2> QED
    BY <1>1, Sizes, DivNat
<1>5. /\ state[f] = "open" /\ Len(blocks) = n \div B + 1
      /\ todo' = Filled
  BY DEF StartThreads, BlockCount, Filled
<1>6. b \in todo' /\ b.file = f /\ b.left = k * d
  <2> HIDE DEF k, n
  <2>1. k + 1 \in 1 .. Len(blocks) /\ (k + 1) - 1 = k
    BY <1>2, <1>3, <1>4, <1>5
  <2>2. b.left = ((k + 1) - 1) * d
    BY <1>5, <2>1 DEF CutInv, CutRight
  <2>3. b \in todo'
    BY <1>5, <2>1 DEF Filled
  <2> QED
    BY <1>5, <2>1, <2>2, <2>3 DEF PhaseInv
<1>7. b.left \div d = k
  <2> HIDE DEF k
  <2> QED
    BY <1>3, <1>6, StartOfBlock
<1> HIDE DEF b
<1> QED
  BY <1>6, <1>7 DEF Waits

LEMMA StoreStep ==
    TypeOK /\ PhaseInv /\ NewInv /\ OldInv /\ CutInv /\ BlockInv /\ StoreInv
        /\ [Next]_vars => StoreInv'
<1> SUFFICES ASSUME TypeOK, PhaseInv, NewInv, OldInv, CutInv, BlockInv,
                    StoreInv, [Next]_vars,
                    NEW f \in Files, state'[f] = "sent", ~late'[f],
                    NEW i \in 1 .. Len(text'[f])
             PROVE  StoredSoFar(f, i)'
  BY DEF StoreInv
<1>0. i \in Nat \ {0}
  <2>1. text'[f] \in Seq(Byte)
    BY TypeStep DEF TypeOK
  <2> QED
    BY <2>1, ByteAt
<1>1. ASSUME NEW g \in Files, OpenFile(g) PROVE StoredSoFar(f, i)'
  <2>1. /\ f # g /\ state[f] = "sent" /\ ~late[f]
        /\ UNCHANGED <<text[f], cut[f], lost[f], backup[f], todo, flight>>
    BY <1>1 DEF OpenFile, sendVars, serverVars, TypeOK
  <2>2. Waits(f, i)' <=> Waits(f, i)
    BY <2>1 DEF Waits
  <2> QED
    BY <1>0, <2>1, <2>2, StoreKeep DEF StoreInv
<1>13. ASSUME NEW g \in Files, CutBlock(g) PROVE StoredSoFar(f, i)'
  <2>1. /\ f # g /\ state[f] = "sent" /\ ~late[f]
        /\ UNCHANGED <<text[f], cut[f], lost[f], backup[f], todo, flight>>
    BY <1>13 DEF CutBlock, serverVars, TypeOK
  <2>2. Waits(f, i)' <=> Waits(f, i)
    BY <2>1 DEF Waits
  <2> QED
    BY <1>0, <2>1, <2>2, StoreKeep DEF StoreInv
<1>2. ASSUME NEW g \in Files, StartThreads(g) PROVE StoredSoFar(f, i)'
  <2>1. /\ state[g] = "open" /\ todo = {}
        /\ todo' = Filled
        /\ UNCHANGED <<flight, text, cut, lost, backup>>
        /\ state' = [state EXCEPT ![g] = "sent"]
        /\ late' = [late EXCEPT ![g] = \E b \in flight : b.file = g]
    BY <1>2 DEF StartThreads, Filled, serverVars, PhaseInv
  <2>2. \A b \in todo' : b.file = g
    BY <2>1 DEF PhaseInv
  <2>3. CASE f # g
    <3>1. /\ state[f] = "sent" /\ ~late[f]
          /\ UNCHANGED <<text[f], cut[f], lost[f], backup[f]>>
      BY <2>1, <2>3 DEF TypeOK
    <3>2. Waits(f, i)' <=> Waits(f, i)
      BY <2>1, <2>2, <2>3 DEF Waits
    <3> QED
      BY <1>0, <3>1, <3>2, StoreKeep DEF StoreInv
  <2>4. CASE f = g
    <3>1. ~Has(backup'[f], i, text'[f][i])
      BY <2>1, <2>4 DEF OldInv
    <3>2. Survives(Len(text'[f]), i - 1) => Waits(f, i)'
      BY <1>2, <2>1, <2>4, CutWaits
    <3> QED
      BY <3>1, <3>2 DEF StoredSoFar, Has, Survives, CutAt
  <2> QED
    BY <2>3, <2>4
<1>3. ASSUME NEW g \in Files, Ask(g) PROVE StoredSoFar(f, i)'
  <2>1. /\ state[f] = "sent" /\ ~late[f]
        /\ UNCHANGED <<text[f], cut[f], lost[f], backup[f], todo, flight>>
    BY <1>3 DEF Ask, sendVars, TypeOK
  <2>2. Waits(f, i)' <=> Waits(f, i)
    BY <2>1 DEF Waits
  <2> QED
    BY <1>0, <2>1, <2>2, StoreKeep DEF StoreInv
<1>4. CASE CopyPiece
  <2>1. UNCHANGED <<state, late, text, cut, lost, backup, todo, flight>>
    BY <1>4 DEF CopyPiece, sendVars, serverVars, history
  <2>2. Waits(f, i)' <=> Waits(f, i)
    BY <2>1 DEF Waits
  <2> QED
    BY <1>0, <2>1, <2>2, StoreKeep DEF StoreInv
<1>5. CASE Hide
  <2>1. UNCHANGED <<state, late, text, cut, lost, backup, todo, flight>>
    BY <1>5 DEF Hide, sendVars, serverVars, history
  <2>2. Waits(f, i)' <=> Waits(f, i)
    BY <2>1 DEF Waits
  <2> QED
    BY <1>0, <2>1, <2>2, StoreKeep DEF StoreInv
<1>6. ASSUME NEW b \in todo, SendBlock(b) PROVE StoredSoFar(f, i)'
  <2>1. /\ UNCHANGED <<state, late, text, cut, lost, backup>>
        /\ todo' = todo \ {b}
        /\ flight' = IF b.data = <<>> THEN flight ELSE flight \union {b}
    BY <1>6 DEF SendBlock, serverVars, history
  <2>2. /\ BlocksRight(f) /\ StoredSoFar(f, i) /\ b \in Blocks
        /\ text[f] \in Seq(Byte)
        /\ i \in 1 .. Len(text[f])
    BY <2>1 DEF BlockInv, StoreInv, TypeOK
  <2>3. CASE /\ b.data = <<>> /\ b.file = f
             /\ b.left \div (B - 1) = (i - 1) \div (B - 1)
    <3>1. RightBlock(b, text[f], CutOf(f, b))
      BY <2>2, <2>3 DEF BlocksRight
    <3>2. i \notin b.left + 1 .. b.left + Len(b.data)
      BY <2>2, <2>3 DEF Blocks
    <3>3. ~(Survives(Len(text[f]), i - 1) /\ i <= CutAt(f, i))
      BY <2>2, <2>3, <3>1, <3>2, BlockBytes DEF CutOf, CutAt, BlockOf
    <3> QED
      BY <2>1, <2>2, <3>3 DEF StoredSoFar, Has, Survives, CutAt
  <2>4. CASE ~(/\ b.data = <<>> /\ b.file = f
               /\ b.left \div (B - 1) = (i - 1) \div (B - 1))
    <3>1. Waits(f, i)' <=> Waits(f, i)
      BY <2>1, <2>4 DEF Waits
    <3> QED
      BY <1>0, <2>1, <2>2, <3>1, StoreKeep
  <2> QED
    BY <2>3, <2>4
<1>7. ASSUME NEW b \in todo, SendFails(b) PROVE StoredSoFar(f, i)'
  <2>1. /\ UNCHANGED <<state, late, text, cut, flight, backup>>
        /\ todo' = todo \ {b}
        /\ lost' = [lost EXCEPT ![b.file] =
                       @ \union {b.left \div (B - 1)}]
    BY <1>7 DEF SendFails, serverVars
  <2>2. StoredSoFar(f, i)
    BY <2>1 DEF StoreInv
  <2>3. CASE b.file # f \/ b.left \div (B - 1) # (i - 1) \div (B - 1)
    <3>1. (i - 1) \div (B - 1) \in lost'[f]
          <=> (i - 1) \div (B - 1) \in lost[f]
      BY <2>1, <2>3 DEF TypeOK
    <3>2. Waits(f, i)' <=> Waits(f, i)
      BY <2>1, <2>3 DEF Waits
    <3> QED
      BY <2>1, <2>2, <3>1, <3>2 DEF StoredSoFar, Has, Survives, CutAt
  <2>4. CASE b.file = f /\ b.left \div (B - 1) = (i - 1) \div (B - 1)
    <3>1. (i - 1) \div (B - 1) \in lost'[f]
      BY <2>1, <2>4 DEF TypeOK
    <3>2. Waits(f, i)
      BY <2>4 DEF Waits
    <3> QED
      BY <2>1, <2>2, <3>1, <3>2 DEF StoredSoFar, Has, CutAt
  <2> QED
    BY <2>3, <2>4
<1>8. ASSUME NEW b \in flight, StoreBlock(b) PROVE StoredSoFar(f, i)'
  <2>1. /\ UNCHANGED <<state, late, text, cut, lost, todo>>
        /\ flight' = flight \ {b}
        /\ \A g \in Files \ {b.file} : backup'[g] = backup[g]
    BY <1>8 DEF StoreBlock, history, TypeOK
  <2>2. /\ BlocksRight(f) /\ StoredSoFar(f, i) /\ b \in Blocks
        /\ text[f] \in Seq(Byte)
        /\ i \in 1 .. Len(text[f])
    BY <2>1 DEF BlockInv, StoreInv, TypeOK
  <2>3. CASE b.file # f
    <3>1. Waits(f, i)' <=> Waits(f, i)
      BY <2>1, <2>3 DEF Waits
    <3> QED
      BY <1>0, <2>1, <2>2, <2>3, <3>1, StoreKeep
  <2>4. CASE b.file = f
    <3> DEFINE x == text[f][i]
               In == i \in b.left + 1 .. b.left + Len(b.data)
    <3>1. x \in Int /\ x # Nul
      <4>1. x \in Int
        BY <2>2, ByteAt
      <4>2. 0 < x
        BY <2>2 DEF NewInv
      <4> QED
        BY <4>1, <4>2 DEF Nul
    <3>2. /\ RightBlock(b, text[f], CutOf(f, b))
          /\ b.left \div (B - 1) \notin lost[f]
      BY <2>2, <2>4 DEF BlocksRight
    <3>3. In <=> /\ (i - 1) \div (B - 1) = b.left \div (B - 1)
                 /\ Survives(Len(text[f]), i - 1) /\ i <= CutAt(f, i)
      BY <2>2, <3>2, BlockBytes DEF CutOf, CutAt, BlockOf
    <3>4. Has(backup'[f], i, x) <=>
             IF In THEN b.data[i - b.left] = x ELSE Has(backup[f], i, x)
      BY <1>0, <1>8, <2>4, <3>1, StoredByte
    <3>5. CASE In
      <4>1. i - b.left \in 1 .. Len(b.data) /\ b.left + (i - b.left) = i
        BY <1>0, <2>2, <3>5 DEF Blocks
      <4>2. b.data[i - b.left] = x
        BY <3>2, <4>1 DEF RightBlock
      <4>3. ASSUME NEW c \in todo' \union flight', c.file = f
            PROVE  c.left \div (B - 1) # (i - 1) \div (B - 1)
        <5>1. c # b /\ c \in todo \union flight
          BY <2>1, <2>2, <2>4 DEF BlocksRight
        <5>2. c.left # b.left
          BY <2>2, <2>4, <4>3, <5>1 DEF BlocksRight
        <5>3. RightBlock(c, text[f], CutOf(f, c))
          BY <2>2, <4>3, <5>1 DEF BlocksRight
        <5>4. c.left \div (B - 1) # b.left \div (B - 1)
          BY <2>2, <3>2, <5>2, <5>3, BlockNumber
        <5> QED
          BY <3>3, <3>5, <5>4
      <4>4. ~Waits(f, i)'
        BY <4>3 DEF Waits
      <4> HIDE DEF x, In
      <4>5. /\ Has(backup'[f], i, x)
            /\ Survives(Len(text[f]), i - 1) /\ i <= CutAt(f, i)
            /\ (i - 1) \div (B - 1) \notin lost[f]
        BY <3>2, <3>3, <3>4, <3>5, <4>2
      <4> QED
        BY <2>1, <4>4, <4>5 DEF StoredSoFar, Has, Survives, CutAt, x
    <3>6. CASE ~In /\ (i - 1) \div (B - 1) = b.left \div (B - 1)
      <4>1. Waits(f, i)
        BY <2>4, <3>6 DEF Waits
      <4>2. ~Has(backup'[f], i, x)
        BY <2>2, <3>4, <3>6, <4>1 DEF StoredSoFar
      <4>3. ~(Survives(Len(text[f]), i - 1) /\ i <= CutAt(f, i))
        BY <3>3, <3>6
      <4> QED
        BY <2>1, <4>2, <4>3 DEF StoredSoFar, Has, Survives, CutAt
    <3>7. CASE ~In /\ (i - 1) \div (B - 1) # b.left \div (B - 1)
      <4>1. Waits(f, i)' <=> Waits(f, i)
        BY <2>1, <3>7 DEF Waits
      <4>2. Has(backup'[f], i, x) <=> Has(backup[f], i, x)
        BY <3>4, <3>7
      <4> QED
        BY <2>1, <2>2, <4>1, <4>2 DEF StoredSoFar, Has, Survives, CutAt
    <3> QED
      BY <3>5, <3>6, <3>7
  <2> QED
    BY <2>3, <2>4
<1>9. CASE ReadChunk
  <2>1. UNCHANGED <<state, late, text, cut, lost, backup, todo, flight>>
    BY <1>9 DEF ReadChunk, sendVars, history
  <2>2. Waits(f, i)' <=> Waits(f, i)
    BY <2>1 DEF Waits
  <2> QED
    BY <1>0, <2>1, <2>2, StoreKeep DEF StoreInv
<1>10. CASE EndOfBackup
  <2>1. /\ UNCHANGED <<late, text, cut, lost, backup, todo, flight>>
        /\ state[f] = "sent"
    BY <1>10 DEF EndOfBackup, sendVars, history, TypeOK
  <2>2. Waits(f, i)' <=> Waits(f, i)
    BY <2>1 DEF Waits
  <2> QED
    BY <1>0, <2>1, <2>2, StoreKeep DEF StoreInv
<1>11. CASE Recv
  <2>1. UNCHANGED <<state, late, text, cut, lost, backup, todo, flight>>
    BY <1>11 DEF Recv, sendVars, serverVars, history
  <2>2. Waits(f, i)' <=> Waits(f, i)
    BY <2>1 DEF Waits
  <2> QED
    BY <1>0, <2>1, <2>2, StoreKeep DEF StoreInv
<1>12. CASE UNCHANGED vars
  <2>1. UNCHANGED <<state, late, text, cut, lost, backup, todo, flight>>
    BY <1>12 DEF vars, sendVars, serverVars, history
  <2>2. Waits(f, i)' <=> Waits(f, i)
    BY <2>1 DEF Waits
  <2> QED
    BY <1>0, <2>1, <2>2, StoreKeep DEF StoreInv
<1> QED
  BY <1>1, <1>2, <1>3, <1>4, <1>5, <1>6, <1>7, <1>8, <1>9, <1>10, <1>11,
     <1>12, <1>13
  DEF Next

ByteInv ==
    /\ PhaseInv /\ NewInv /\ CopyInv /\ OldInv
    /\ CutInv /\ BlockInv /\ StoreInv

LEMMA ByteInvariant == Spec => [](TypeOK /\ ByteInv)
<1>1. Init => TypeOK /\ ByteInv
  <2> SUFFICES ASSUME Init PROVE TypeOK /\ ByteInv
    OBVIOUS
  <2>1. TypeOK
    BY TransferAssumption DEF Init, TypeOK, Byte
  <2>2. /\ \A f \in Files : state[f] = "plain" /\ text[f] = <<>>
        /\ \A f \in Files : backup[f] = <<>>
        /\ blocks = <<>> /\ todo = {} /\ flight = {}
        /\ wire = <<>> /\ shm = <<>>
        /\ copying = "none" /\ reading = "none"
    BY DEF Init
  <2>3. PhaseInv
    BY <2>2, TransferAssumption DEF PhaseInv, Filled
  <2>4. NewInv
    BY <2>2 DEF NewInv, Filled
  <2>5. CopyInv /\ OldInv /\ CutInv /\ BlockInv /\ StoreInv
    BY <2>2 DEF CopyInv, OldInv, CutInv, BlockInv, StoreInv
  <2> QED
    BY <2>1, <2>3, <2>4, <2>5 DEF ByteInv
<1>2. TypeOK /\ ByteInv /\ [Next]_vars => TypeOK' /\ ByteInv'
  BY TypeStep, PhaseStep, NewStep, CopyStep, OldStep, CutStep, BlockStep,
     StoreStep
  DEF ByteInv
<1> QED
  BY <1>1, <1>2, PTL DEF Spec

(***************************************************************************)
(* Exactly the bytes that survive the copying in pieces and the cutting    *)
(* into blocks are stored, each at its place, as far as they had been      *)
(* copied when their own block was cut: for any sizes of pieces and        *)
(* blocks, any length of the text, any interleaving of the copying with    *)
(* the cutting of one block after another, and any order in which the      *)
(* blocks are sent and stored.                                             *)
(***************************************************************************)
THEOREM TextsStored == Spec => []StoredExactly
<1>1. TypeOK /\ ByteInv => StoredExactly
  <2> SUFFICES ASSUME StoreInv, NEW f \in Files, Stored(f), ~late[f],
                      NEW i \in 1 .. Len(text[f])
               PROVE  (i <= Len(backup[f]) /\ backup[f][i] = text[f][i])
                      <=> /\ Survives(Len(text[f]), i - 1)
                          /\ i <= CutAt(f, i)
                          /\ (i - 1) \div (B - 1) \notin lost[f]
    BY DEF ByteInv, StoredExactly, BlockOf
  <2>1. StoredSoFar(f, i) /\ ~Waits(f, i)
    BY DEF Stored, StoreInv, Waits
  <2> QED
    BY <2>1 DEF StoredSoFar, Has
<1> QED
  BY <1>1, ByteInvariant, PTL

-----------------------------------------------------------------------------
(***************************************************************************)
(* A short text comes back                                                 *)
(***************************************************************************)

\* All bytes of a text shorter than a piece survive.
LEMMA ShortSurvives ==
    ASSUME NEW n \in Nat, n < P, NEW i \in 1 .. n
    PROVE  Survives(n, i - 1) /\ (i - 1) \div (B - 1) = 0
<1>1. i - 1 \in 0 .. B - 2 /\ i - 1 \in Nat /\ i - 1 < P - 1
  BY Sizes
<1>2. (i - 1) \div (B - 1) = 0
  <2> DEFINE d == B - 1  r == i - 1
  <2>1. d \in Nat \ {0} /\ r \in 0 .. d - 1 /\ 0 * d + r = r
    BY <1>1, Sizes
  <2> HIDE DEF d, r
  <2>2. (0 * d + r) \div d = 0
    BY <2>1, BlockOfByte
  <2>3. r \div d = 0
    BY <2>1, <2>2
  <2> QED
    BY <2>3 DEF d, r
<1>3. n \div B \in Nat
  BY Sizes, DivNat
<1>4. ASSUME NEW h \in 0 .. i - 1 PROVE h % P # P - 1
  <2>1. h \in 0 .. P - 1 /\ 0 * P + h = h /\ h # P - 1
    BY <1>1, Sizes
  <2>2. (0 * P + h) % P = h
    BY <2>1, Sizes, ModOfByte
  <2> QED
    BY <2>1, <2>2
<1>5. 0 * (B - 1) = 0 /\ 0 <= n \div B
  BY <1>3, Sizes
<1> QED
  BY <1>2, <1>4, <1>5 DEF Survives

\* A packet holds a text that fits into it.
LEMMA ShortPacket ==
    ASSUME NEW t \in Seq(Byte), Len(t) < P,
           \A i \in 1 .. Len(t) : t[i] # Nul
    PROVE  CString(Buffer(t, 0, B - 1)) = t
<1> DEFINE s == Buffer(t, 0, B - 1)  c == CString(s)
<1>1. /\ s \in Seq(Byte) /\ Len(s) = B - 1
      /\ \A i \in 1 .. B - 1 : s[i] = IF i <= Len(t) THEN t[i] ELSE Nul
  <2> DEFINE z == 0
  <2>1. z \in Nat /\ B - 1 \in Nat /\ \A i \in Int : z + i = i
    BY Sizes
  <2> HIDE DEF z
  <2>2. /\ Buffer(t, z, B - 1) \in Seq(Byte)
        /\ Len(Buffer(t, z, B - 1)) = B - 1
        /\ \A i \in 1 .. B - 1 :
              Buffer(t, z, B - 1)[i] =
                 IF z + i <= Len(t) THEN t[z + i] ELSE Nul
    BY <2>1, BufferIs
  <2>3. s = Buffer(t, z, B - 1)
    BY DEF z
  <2> HIDE DEF s
  <2> QED
    BY <2>1, <2>2, <2>3
<1> HIDE DEF s
<1>2. /\ c \in Seq(Byte) /\ Len(c) <= B - 1
      /\ \A i \in 1 .. Len(c) : c[i] = s[i] /\ s[i] # Nul
      /\ Len(c) < B - 1 => s[Len(c) + 1] = Nul
  BY <1>1, CStringIs
<1> HIDE DEF c
<1>3. Len(c) \in Nat /\ Len(t) \in Nat /\ B - 1 \in Nat /\ Len(t) < B - 1
  BY <1>2, Sizes
<1>4. Len(c) = Len(t)
  <2>1. ASSUME Len(c) < Len(t) PROVE FALSE
    <3>1. Len(c) + 1 \in 1 .. Len(t) /\ Len(c) + 1 \in 1 .. B - 1
      BY <1>3, <2>1
    <3>2. s[Len(c) + 1] = t[Len(c) + 1]
      BY <1>1, <1>3, <3>1
    <3> QED
      BY <1>2, <1>3, <2>1, <3>1, <3>2
  <2>2. ASSUME Len(c) > Len(t) PROVE FALSE
    <3>1. Len(c) \in 1 .. B - 1 /\ ~(Len(c) <= Len(t))
      BY <1>2, <1>3, <2>2
    <3>2. s[Len(c)] = Nul
      BY <1>1, <3>1
    <3> QED
      BY <1>2, <1>3, <3>1, <3>2
  <2> QED
    BY <1>3, <2>1, <2>2
<1>5. \A i \in 1 .. Len(t) : c[i] = t[i]
  BY <1>1, <1>2, <1>3, <1>4
<1> QED
  BY <1>2, <1>4, <1>5, SeqEqual DEF c, s

\* What has been stored completely is the text.
LEMMA FitIsText ==
    ASSUME TypeOK, ByteInv, NEW f \in Files, state[f] = "sent", todo = {},
           \A k \in 1 .. Len(cut[f]) : cut[f][k] = Len(text[f]),
           ~late[f], lost[f] = {},
           \A b \in flight : b.file # f,
           Len(backup[f]) = Len(text[f]), Len(text[f]) < P
    PROVE  backup[f] = text[f]
<1>1. backup[f] \in Seq(Byte) /\ text[f] \in Seq(Byte)
  BY DEF TypeOK
<1>2. ASSUME NEW i \in 1 .. Len(text[f]) PROVE backup[f][i] = text[f][i]
  <2>1. StoredSoFar(f, i) /\ ~Waits(f, i)
    BY DEF ByteInv, StoreInv, Waits
  <2>2. Survives(Len(text[f]), i - 1) /\ (i - 1) \div (B - 1) = 0
    BY <1>1, ShortSurvives
  <2>3. i <= CutAt(f, i)
    <3>1. Len(cut[f]) = Len(text[f]) \div B + 1
      BY DEF ByteInv, BlockInv, BlocksRight, BlockCount
    <3>2. Len(text[f]) \div B \in Nat
      <4> DEFINE n == Len(text[f])
      <4>1. n \in Nat
        BY <1>1
      <4> HIDE DEF n
      <4>2. n \div B \in Nat
        BY <4>1, Sizes, DivNat
      <4> QED
        BY <4>2 DEF n
    <3>3. 1 \in 1 .. Len(cut[f])
      BY <3>1, <3>2
    <3>4. CutAt(f, i) = cut[f][1]
      BY <2>2 DEF CutAt, BlockOf
    <3> QED
      BY <1>1, <3>3, <3>4
  <2> QED
    BY <2>1, <2>2, <2>3 DEF StoredSoFar, Has
<1> QED
  BY <1>1, <1>2, SeqEqual

LEMMA ReturnKeep ==
    ASSUME NEW f \in Files, Returns(f),
           UNCHANGED <<text[f], state[f], backup[f], local[f], reading, off,
                       wire, count>>,
           \A b \in flight' : b.file = f => b \in flight
    PROVE  Returns(f)'
BY DEF Returns

LEMMA ReturnStep ==
    TypeOK /\ ByteInv /\ ReturnInv /\ [Next]_vars => ReturnInv'
<1> SUFFICES ASSUME TypeOK, ByteInv, ReturnInv, [Next]_vars,
                    NEW f \in Files, fit'[f], Len(text'[f]) < P
             PROVE  Returns(f)'
  BY DEF ReturnInv
<1>0. PhaseInv /\ "none" \notin Files
  BY TransferAssumption DEF ByteInv
<1>1. ASSUME NEW g \in Files, OpenFile(g) PROVE Returns(f)'
  <2>1. f # g
    BY <1>1 DEF OpenFile, TypeOK
  <2>2. /\ fit[f]
        /\ UNCHANGED <<text[f], state[f], backup[f], local[f], reading, off,
                       wire, count, flight>>
    BY <1>1, <2>1
    DEF OpenFile, sendVars, serverVars, recvVars, TypeOK
  <2> QED
    BY <2>2, ReturnKeep DEF ReturnInv
<1>13. ASSUME NEW g \in Files, CutBlock(g) PROVE Returns(f)'
  <2>1. UNCHANGED <<fit, text, state, backup, local, reading, off, wire,
                    count, flight>>
    BY <1>13 DEF CutBlock, hookVars, serverVars, recvVars
  <2> QED
    BY <2>1, ReturnKeep DEF ReturnInv
<1>2. ASSUME NEW g \in Files, StartThreads(g) PROVE Returns(f)'
  <2>1. /\ state[g] = "open"
        /\ state' = [state EXCEPT ![g] = "sent"]
        /\ UNCHANGED <<fit, text, backup, local, reading, off, wire, count,
                       flight>>
    BY <1>2 DEF StartThreads, hookVars, serverVars, recvVars
  <2>2. Returns(f)
    BY <2>1 DEF ReturnInv
  <2>3. f # g
    BY <2>1, <2>2 DEF Returns
  <2>4. state'[f] = state[f]
    BY <2>1, <2>3 DEF TypeOK
  <2> QED
    BY <2>1, <2>2, <2>4, ReturnKeep
<1>3. ASSUME NEW g \in Files, Ask(g) PROVE Returns(f)'
  <2>1. /\ state[g] = "sent" /\ todo = {} /\ reading = "none"
        /\ state' = [state EXCEPT ![g] = "asked"]
        /\ reading' = g /\ off' = 0 /\ backup[g] # <<>>
        /\ UNCHANGED <<text, backup, local, wire, count, flight>>
    BY <1>3 DEF Ask, hookVars, sendVars, recvVars
  <2>2. CASE f # g
    <3>1. fit[f] /\ state'[f] = state[f]
      BY <1>3, <2>1, <2>2 DEF Ask, TypeOK
    <3>2. Returns(f)
      BY <2>1, <3>1 DEF ReturnInv
    <3>3. state[f] = "plain"
      BY <1>0, <2>1, <3>2 DEF Returns, PhaseInv
    <3> QED
      BY <2>1, <2>2, <3>1, <3>2, <3>3 DEF Returns
  <2>3. CASE f = g
    <3>1. /\ \A k \in 1 .. Len(cut[f]) : cut[f][k] = Len(text[f])
          /\ ~late[f] /\ lost[f] = {}
          /\ \A b \in flight : b.file # f
          /\ Len(backup[f]) = Len(text[f])
      BY <1>3, <2>3 DEF Ask, TypeOK
    <3>2. backup[f] = text[f]
      BY <2>1, <2>3, <3>1, FitIsText
    <3>3. \A i \in 1 .. Len(wire) : wire[i].file # f
      BY <1>0, <2>1, <2>3 DEF PhaseInv
    <3>4. Len(text[f]) # 0
      BY <2>1, <2>3, <3>2, EmptySeq DEF TypeOK
    <3>5. state'[f] = "asked"
      BY <2>1, <2>3 DEF TypeOK
    <3> QED
      BY <2>1, <2>3, <3>1, <3>2, <3>3, <3>4, <3>5 DEF Returns
  <2> QED
    BY <2>2, <2>3
<1>4. CASE CopyPiece
  <2>1. UNCHANGED <<fit, text, state, backup, local, reading, off, wire,
                    count, flight>>
    BY <1>4 DEF CopyPiece, sendVars, serverVars, recvVars, history
  <2> QED
    BY <2>1, ReturnKeep DEF ReturnInv
<1>5. CASE Hide
  <2>1. /\ copying # "none" /\ local' = [local EXCEPT ![copying] = Secret]
        /\ UNCHANGED <<fit, text, state, backup, reading, off, wire,
                       count, flight>>
    BY <1>5 DEF Hide, sendVars, serverVars, recvVars, history
  <2>2. Returns(f)
    BY <2>1 DEF ReturnInv
  <2>3. copying # f
    BY <1>0, <2>1, <2>2 DEF Returns, PhaseInv
  <2>4. local'[f] = local[f]
    BY <2>1, <2>3 DEF TypeOK
  <2> QED
    BY <2>1, <2>2, <2>4, ReturnKeep
<1>6. ASSUME NEW b \in todo, SendBlock(b) PROVE Returns(f)'
  <2>1. /\ UNCHANGED <<fit, text, state, backup, local, reading, off, wire,
                       count>>
        /\ flight' \subseteq flight \union {b}
    BY <1>6 DEF SendBlock, hookVars, serverVars, recvVars, history
  <2>2. Returns(f)
    BY <2>1 DEF ReturnInv
  <2>3. b.file # f
    BY <1>0, <2>2 DEF Returns, PhaseInv
  <2> QED
    BY <2>1, <2>2, <2>3, ReturnKeep
<1>7. ASSUME NEW b \in todo, SendFails(b) PROVE Returns(f)'
  <2>1. UNCHANGED <<fit, text, state, backup, local, reading, off, wire,
                    count, flight>>
    BY <1>7 DEF SendFails, hookVars, serverVars, recvVars
  <2> QED
    BY <2>1, ReturnKeep DEF ReturnInv
<1>8. ASSUME NEW b \in flight, StoreBlock(b) PROVE Returns(f)'
  <2>1. /\ UNCHANGED <<fit, text, state, local, reading, off, wire, count>>
        /\ flight' = flight \ {b}
        /\ \A g \in Files \ {b.file} : backup'[g] = backup[g]
    BY <1>8 DEF StoreBlock, hookVars, recvVars, history, TypeOK
  <2>2. Returns(f)
    BY <2>1 DEF ReturnInv
  <2>3. backup'[f] = backup[f]
    BY <2>1, <2>2 DEF Returns
  <2> QED
    BY <2>1, <2>2, <2>3, ReturnKeep
<1>9. CASE ReadChunk
  <2> DEFINE p == [file |-> reading,
                   data |-> CString(Buffer(backup[reading], off, B - 1))]
             n == Len(text[f])
  <2>1. /\ wire' = Append(wire, p) /\ reading # "none"
        /\ off < Len(backup[reading])
        /\ off' = Min({off + B - 1, Len(backup[reading])})
        /\ UNCHANGED <<fit, text, state, backup, local, reading, count,
                       flight>>
    BY <1>9 DEF ReadChunk, hookVars, sendVars, history
  <2>2. /\ Returns(f) /\ n \in Nat /\ text[f] \in Seq(Byte)
        /\ Len(wire) \in Nat
    BY <2>1 DEF ReturnInv, TypeOK
  <2>3. p.file = reading
    OBVIOUS
  <2>4. ASSUME reading = f
        PROVE  p.data = text[f] /\ off' = n /\ off = 0
    <3>1. backup[reading] = text[f] /\ off = 0
      BY <2>1, <2>2, <2>4 DEF Returns
    <3>2. \A i \in 1 .. n : text[f][i] # Nul
      <4> SUFFICES ASSUME NEW i \in 1 .. n PROVE text[f][i] # Nul
        OBVIOUS
      <4>1. 0 < text[f][i]
        BY DEF ByteInv, NewInv
      <4>2. text[f][i] \in Int
        BY <2>2, ByteAt
      <4> QED
        BY <4>1, <4>2 DEF Nul
    <3>3. n < P
      BY <2>1
    <3>4. CString(Buffer(text[f], 0, B - 1)) = text[f]
      BY <2>2, <3>2, <3>3, ShortPacket
    <3>5. off' = Min({0 + B - 1, n})
      BY <2>1, <3>1
    <3>6. 0 + B - 1 \in Int /\ ~(0 + B - 1 <= n)
      BY <2>2, <3>3, Sizes
    <3>7. off' = n
      BY <2>2, <3>5, <3>6, MinTwo
    <3> QED
      BY <3>1, <3>4, <3>7
  <2> HIDE DEF p
  <2>5. /\ Len(wire') = Len(wire) + 1
        /\ \A i \in 1 .. Len(wire) + 1 :
              wire'[i] = IF i <= Len(wire) THEN wire[i] ELSE p
    <3>1. wire \in Seq([file : Files, data : Seq(Byte)])
      BY DEF TypeOK
    <3> QED
      BY <2>1, <3>1
  <2>6. \A i \in 1 .. Len(wire') :
           wire'[i].file = f => wire'[i].data = text[f]
    BY <2>2, <2>3, <2>4, <2>5 DEF Returns
  <2>7. CASE reading = f
    <3>1. Len(wire) + 1 \in 1 .. Len(wire') /\ wire'[Len(wire) + 1].file = f
      BY <2>2, <2>3, <2>5, <2>7
    <3> QED
      BY <2>1, <2>2, <2>4, <2>6, <2>7, <3>1 DEF Returns
  <2>8. CASE reading # f
    <3>1. state[f] = "plain"
      BY <1>0, <2>2, <2>8 DEF Returns, PhaseInv
    <3>2. \A i \in 1 .. Len(wire) : i \in 1 .. Len(wire') /\ wire'[i] = wire[i]
      BY <2>2, <2>5
    <3> QED
      BY <2>1, <2>2, <2>6, <2>8, <3>1, <3>2 DEF Returns
  <2> QED
    BY <2>7, <2>8
<1>10. CASE EndOfBackup
  <2>1. /\ reading # "none" /\ off = Len(backup[reading])
        /\ state' = [state EXCEPT ![reading] = "plain"]
        /\ reading' = "none"
        /\ UNCHANGED <<fit, text, backup, local, off, wire, count, flight>>
    BY <1>10 DEF EndOfBackup, hookVars, sendVars, recvVars, history
  <2>2. Returns(f)
    BY <2>1 DEF ReturnInv
  <2>3. state'[f] = "plain"
    BY <1>0, <2>1, <2>2 DEF Returns, PhaseInv, TypeOK
  <2>4. state[f] = "plain" \/ off = Len(text[f])
    BY <1>0, <2>1, <2>2 DEF Returns, PhaseInv
  <2> QED
    BY <1>0, <2>1, <2>2, <2>3, <2>4 DEF Returns
<1>11. CASE Recv
  <2> DEFINE p == Head(wire)
  <2>1. /\ wire # <<>> /\ wire' = Tail(wire)
        /\ count' = count + Len(p.data)
        /\ local' = [local EXCEPT ![p.file] = Received(count', @, p.data)]
        /\ UNCHANGED <<fit, text, state, backup, reading, off, flight>>
    BY <1>11 DEF Recv, hookVars, sendVars, serverVars, history
  <2>2. Returns(f)
    BY <2>1 DEF ReturnInv
  <2>3. /\ p = wire[1] /\ Len(wire) \in Nat \ {0}
        /\ Len(wire') = Len(wire) - 1
        /\ \A i \in 1 .. Len(wire') : wire'[i] = wire[i + 1]
        /\ p.file \in Files /\ Len(p.data) \in Nat
    <3>1. wire \in Seq([file : Files, data : Seq(Byte)])
      BY DEF TypeOK
    <3>2. p \in [file : Files, data : Seq(Byte)]
      BY <2>1, <3>1, HeadTailProperties
    <3>3. p.file \in Files /\ p.data \in Seq(Byte)
      BY <3>2
    <3>4. Len(p.data) \in Nat
      BY <3>3
    <3> HIDE DEF p
    <3>5. p = wire[1]
      BY <2>1 DEF p
    <3>6. /\ Len(wire) \in Nat \ {0} /\ Len(Tail(wire)) = Len(wire) - 1
          /\ \A i \in 1 .. Len(Tail(wire)) : Tail(wire)[i] = wire[i + 1]
      BY <2>1, <3>1
    <3>7. wire' = Tail(wire)
      BY <2>1
    <3> QED
      BY <3>3, <3>4, <3>5, <3>6, <3>7
  <2>4. count \in Nat /\ B \in Nat /\ count' >= count
    <3>1. count \in Nat
      BY DEF TypeOK
    <3> HIDE DEF p
    <3> QED
      BY <2>1, <2>3, <3>1, Sizes
  <2> HIDE DEF p
  <2>5. \A i \in 1 .. Len(wire') :
           wire'[i].file = f => wire'[i].data = text[f]
    BY <2>2, <2>3 DEF Returns
  <2>6. CASE p.file = f
    <3>1. p.data = text[f]
      BY <2>2, <2>3, <2>6 DEF Returns
    <3>2. local'[f] = Received(count', local[f], text[f])
      BY <2>1, <2>6, <3>1 DEF TypeOK
    <3>3. local'[f] = text[f] \/ count' > B
      BY <2>1, <2>3, <2>4, <3>2 DEF Received
    <3> QED
      BY <2>1, <2>2, <2>5, <3>3 DEF Returns
  <2>7. CASE p.file # f
    <3>1. local'[f] = local[f]
      BY <2>1, <2>7 DEF TypeOK
    <3>2. ASSUME NEW i \in 1 .. Len(wire), wire[i].file = f
          PROVE  \E j \in 1 .. Len(wire') : wire'[j].file = f
      <4>1. i - 1 \in 1 .. Len(wire') /\ (i - 1) + 1 = i
        BY <2>3, <2>7, <3>2
      <4> QED
        BY <2>3, <3>2, <4>1
    <3>3. count > B => count' > B
      BY <2>1, <2>3, <2>4
    <3> QED
      BY <2>1, <2>2, <2>5, <3>1, <3>2, <3>3 DEF Returns
  <2> QED
    BY <2>6, <2>7
<1>12. CASE UNCHANGED vars
  <2>1. UNCHANGED <<fit, text, state, backup, local, reading, off, wire,
                    count, flight>>
    BY <1>12
    DEF vars, hookVars, sendVars, serverVars, recvVars, history
  <2> QED
    BY <2>1, ReturnKeep DEF ReturnInv
<1> QED
  BY <1>1, <1>2, <1>3, <1>4, <1>5, <1>6, <1>7, <1>8, <1>9, <1>10, <1>11,
     <1>12, <1>13
  DEF Next

(***************************************************************************)
(* A text shorter than a piece comes back as it was written, in whatever   *)
(* order the packets of several files are handled, as long as the client's *)
(* count has not passed B.                                                 *)
(***************************************************************************)
THEOREM ShortTextsReturn == Spec => []ShortComesBack
<1>1. Init => ReturnInv
  BY DEF Init, ReturnInv
<1>2. TypeOK /\ ReturnInv => ShortComesBack
  <2> SUFFICES ASSUME TypeOK, ReturnInv, NEW f \in Files, fit[f],
                      Len(text[f]) < P, count <= B, state[f] = "plain",
                      \A i \in 1 .. Len(wire) : wire[i].file # f
               PROVE  local[f] = text[f]
    BY DEF ShortComesBack
  <2>1. Returns(f)
    BY DEF ReturnInv
  <2>2. ~(count > B)
    BY Sizes DEF TypeOK
  <2> QED
    BY <2>1, <2>2 DEF Returns
<1> QED
  BY <1>1, <1>2, ByteInvariant, ReturnStep, PTL DEF Spec
=============================================================================
