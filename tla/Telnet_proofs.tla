---------------------------- MODULE Telnet_proofs ----------------------------
(***************************************************************************)
(* Theorems about Telnet, for any phrases, any cuts of the stream and any  *)
(* sizes of the reads and of the scanner's buffer.  The folds are unfolded *)
(* first, by Induction; then what the processor makes of a phrase is shown *)
(* not to depend on how its bytes come; then the invariant is.             *)
(***************************************************************************)
EXTENDS Telnet, SequenceTheorems, Induction

-----------------------------------------------------------------------------
(* The processor                                                           *)

\* What the listener is told, and every state of the processor.
Messages == [code : Bytes, data : Seq(Bytes)]

Processors == [state : {"Base", "InIAC", "InSB", "CapSB", "EscIAC"}, sb : Bytes,
               sub : Seq(Bytes), clean : Seq(Bytes), heard : Seq(Messages)]

\* A character is at most two bytes.
LEMMA Utf8IsBytes ==
    ASSUME NEW b \in Bytes
    PROVE  Utf8(b) \in Seq(Bytes) /\ (b = LF => Utf8(b) = <<LF>>)
           /\ (b # LF => \A i \in 1..Len(Utf8(b)) : Utf8(b)[i] # LF)
<1>1. CASE b < 128
  BY <1>1 DEF Utf8, Bytes, LF
<1>2. CASE ~(b < 128)
  <2>1. 192 + (b \div 64) \in 192..255 /\ 128 + (b % 64) \in 128..191
    BY <1>2 DEF Bytes
  <2>2. Utf8(b) = <<192 + (b \div 64), 128 + (b % 64)>>
    BY <1>2 DEF Utf8
  <2> DEFINE x == 192 + (b \div 64)
             y == 128 + (b % 64)
  <2> HIDE DEF x, y
  <2>3. x \in 192..255 /\ y \in 128..191 /\ Utf8(b) = <<x, y>>
    BY <2>1, <2>2 DEF x, y
  <2>4. QED BY <1>2, <2>3 DEF LF, Bytes
<1>3. QED BY <1>1, <1>2

\* AddByte, state by state.
LEMMA AddByteIs ==
    ASSUME NEW p \in Processors, NEW b \in Bytes
    PROVE  /\ p.state = "Base" /\ b # IAC => AddByte(p, b) = [p EXCEPT !.clean = @ \o Utf8(b)]
           /\ p.state = "Base" /\ b = IAC => AddByte(p, b) = [p EXCEPT !.state = "InIAC"]
           /\ p.state = "InIAC" => AddByte(p, b) = AddInIAC(p, b)
           /\ p.state = "InSB" => AddByte(p, b) = AddInSB(p, b)
           /\ p.state = "CapSB" /\ b = IAC => AddByte(p, b) = [p EXCEPT !.state = "EscIAC"]
           /\ p.state = "CapSB" /\ b # IAC => AddByte(p, b) = CaptureSubData(p, b)
           /\ p.state = "EscIAC" /\ b = IAC => AddByte(p, b) = CaptureSubData(p, b)
           /\ p.state = "EscIAC" /\ b # IAC => AddByte(p, b) = SubDataFinished(p, b)
<1>1. CASE p.state = "Base"
  BY <1>1 DEF AddByte, DontCapture
<1>2. CASE p.state = "InIAC"
  BY <1>2 DEF AddByte
<1>3. CASE p.state = "InSB"
  BY <1>3 DEF AddByte
<1>4. CASE p.state = "CapSB"
  BY <1>4 DEF AddByte
<1>5. CASE p.state = "EscIAC"
  BY <1>5 DEF AddByte
<1>6. p.state \in {"Base", "InIAC", "InSB", "CapSB", "EscIAC"}
  BY DEF Processors
<1>7. QED BY <1>1, <1>2, <1>3, <1>4, <1>5, <1>6

\* The same, field by field.
Follows(x, p, b) ==
    /\ p.state = "Base" /\ b # IAC =>
          /\ x.state = "Base" /\ x.sb = p.sb /\ x.sub = p.sub
          /\ x.clean = p.clean \o Utf8(b) /\ x.heard = p.heard
    /\ p.state = "Base" /\ b = IAC =>
          /\ x.state = "InIAC" /\ x.sb = p.sb /\ x.sub = p.sub
          /\ x.clean = p.clean /\ x.heard = p.heard
    /\ p.state = "InIAC" =>
          /\ x.state =
                 IF b \in Verbs THEN "InIAC" ELSE IF b = SB THEN "InSB" ELSE "Base"
          /\ x.sb = p.sb /\ x.sub = p.sub
          /\ x.clean = p.clean /\ x.heard = p.heard
    /\ p.state = "InSB" =>
          /\ x.state = "CapSB" /\ x.sb = b /\ x.sub = << >>
          /\ x.clean = p.clean /\ x.heard = p.heard
    /\ p.state = "CapSB" /\ b = IAC =>
          /\ x.state = "EscIAC" /\ x.sb = p.sb /\ x.sub = p.sub
          /\ x.clean = p.clean /\ x.heard = p.heard
    /\ (p.state = "CapSB" /\ b # IAC) \/ (p.state = "EscIAC" /\ b = IAC) =>
          /\ x.state = "CapSB" /\ x.sb = p.sb
          /\ x.sub = Append(p.sub, b)
          /\ x.clean = p.clean /\ x.heard = p.heard
    /\ p.state = "EscIAC" /\ b # IAC =>
          /\ x.state =
                 IF b \in Verbs THEN "InIAC" ELSE IF b = SB THEN "InSB" ELSE "Base"
          /\ x.sb = NUL /\ x.sub = p.sub
          /\ x.clean = p.clean
          /\ x.heard = Append(p.heard, [code |-> p.sb, data |-> p.sub])

\* A byte changes the fields that it should, and no other.
LEMMA AddByteFields ==
    ASSUME NEW p \in Processors, NEW b \in Bytes
    PROVE  Follows(AddByte(p, b), p, b)
<1> DEFINE B == Seq(Bytes)
           M == Seq(Messages)
           States == {"Base", "InIAC", "InSB", "CapSB", "EscIAC"}
<1>1. Processors = [state : States, sb : Bytes, sub : B, clean : B, heard : M]
  BY DEF Processors
<1>2. p.state = "Base" /\ b # IAC => AddByte(p, b) = [p EXCEPT !.clean = @ \o Utf8(b)]
  BY AddByteIs
<1>3. p.state = "Base" /\ b = IAC => AddByte(p, b) = [p EXCEPT !.state = "InIAC"]
  BY AddByteIs
<1>4. p.state = "InIAC" => AddByte(p, b) = AddInIAC(p, b)
  BY AddByteIs
<1>5. p.state = "InSB" => AddByte(p, b) = AddInSB(p, b)
  BY AddByteIs
<1>6. p.state = "CapSB" /\ b = IAC => AddByte(p, b) = [p EXCEPT !.state = "EscIAC"]
  BY AddByteIs
<1>7. (p.state = "CapSB" /\ b # IAC) \/ (p.state = "EscIAC" /\ b = IAC) => AddByte(p, b) = CaptureSubData(p, b)
  BY AddByteIs
<1>8. p.state = "EscIAC" /\ b # IAC => AddByte(p, b) = SubDataFinished(p, b)
  BY AddByteIs
<1> DEFINE u == Utf8(b)
           sub == Append(p.sub, b)
           heard == Append(p.heard, [code |-> p.sb, data |-> p.sub])
<1> HIDE DEF B, M, Bytes
<1>9. /\ [p EXCEPT !.clean = @ \o u].state = p.state /\ [p EXCEPT !.clean = @ \o u].sb = p.sb
      /\ [p EXCEPT !.clean = @ \o u].sub = p.sub /\ [p EXCEPT !.clean = @ \o u].clean = p.clean \o u
      /\ [p EXCEPT !.clean = @ \o u].heard = p.heard
  <2> HIDE DEF u
  <2>1. QED BY <1>1
<1>10. \A x \in States :
         /\ [p EXCEPT !.state = x].state = x /\ [p EXCEPT !.state = x].sb = p.sb
         /\ [p EXCEPT !.state = x].sub = p.sub /\ [p EXCEPT !.state = x].clean = p.clean
         /\ [p EXCEPT !.state = x].heard = p.heard
  BY <1>1
<1>11. /\ AddInSB(p, b).state = "CapSB" /\ AddInSB(p, b).sb = b /\ AddInSB(p, b).sub = << >>
       /\ AddInSB(p, b).clean = p.clean /\ AddInSB(p, b).heard = p.heard
  BY <1>1 DEF AddInSB
<1>12. /\ CaptureSubData(p, b).state = "CapSB" /\ CaptureSubData(p, b).sb = p.sb
       /\ CaptureSubData(p, b).sub = sub
       /\ CaptureSubData(p, b).clean = p.clean /\ CaptureSubData(p, b).heard = p.heard
  BY <1>1 DEF CaptureSubData
<1>13. /\ SubDataFinished(p, b).state =
             IF b \in Verbs THEN "InIAC" ELSE IF b = SB THEN "InSB" ELSE "Base"
       /\ SubDataFinished(p, b).sb = NUL /\ SubDataFinished(p, b).sub = p.sub
       /\ SubDataFinished(p, b).clean = p.clean /\ SubDataFinished(p, b).heard = heard
  BY <1>1 DEF SubDataFinished, AddInIAC
<1> DEFINE x == AddByte(p, b)
<1>14. x = AddByte(p, b)
  OBVIOUS
<1> HIDE DEF u, sub, heard, x
<1>15. SUFFICES Follows(x, p, b)
  BY <1>14
<1>16. CASE p.state = "Base" /\ b # IAC
  BY <1>2, <1>9, <1>14, <1>16 DEF u, Follows
<1>17. CASE p.state = "Base" /\ b = IAC
  BY <1>3, <1>10, <1>14, <1>17 DEF Follows
<1>18. CASE p.state = "InIAC"
  <2> DEFINE st == IF b \in Verbs THEN "InIAC" ELSE IF b = SB THEN "InSB" ELSE "Base"
  <2>1. x = [p EXCEPT !.state = st]
    BY <1>4, <1>14, <1>18 DEF AddInIAC
  <2>2. st \in States
    OBVIOUS
  <2> HIDE DEF st, States
  <2>3. x.state = st /\ x.sb = p.sb /\ x.sub = p.sub /\ x.clean = p.clean /\ x.heard = p.heard
    BY <1>10, <2>1, <2>2
  <2>4. QED BY <1>18, <2>3 DEF Follows, st
<1>19. CASE p.state = "InSB"
  BY <1>5, <1>11, <1>14, <1>19 DEF Follows
<1>20. CASE p.state = "CapSB" /\ b = IAC
  BY <1>6, <1>10, <1>14, <1>20 DEF Follows
<1>21. CASE (p.state = "CapSB" /\ b # IAC) \/ (p.state = "EscIAC" /\ b = IAC)
  BY <1>7, <1>12, <1>14, <1>21 DEF sub, Follows
<1>22. CASE p.state = "EscIAC" /\ b # IAC
  BY <1>8, <1>13, <1>14, <1>22 DEF heard, Follows
<1>23. /\ p.state \in {"Base", "InIAC", "InSB", "CapSB", "EscIAC"}
       /\ b = IAC \/ b # IAC
  BY <1>1
<1> HIDE DEF States
<1>24. QED BY <1>16, <1>17, <1>18, <1>19, <1>20, <1>21, <1>22, <1>23

\* A processor stays one.
LEMMA AddByteStays ==
    ASSUME NEW p \in Processors, NEW b \in Bytes
    PROVE  AddByte(p, b) \in Processors
<1> DEFINE B == Seq(Bytes)
           M == Seq(Messages)
<1>1. /\ p.state \in {"Base", "InIAC", "InSB", "CapSB", "EscIAC"} /\ p.sb \in Bytes
      /\ p.sub \in B /\ p.clean \in B /\ p.heard \in M
      /\ p = [state |-> p.state, sb |-> p.sb, sub |-> p.sub, clean |-> p.clean, heard |-> p.heard]
  BY DEF Processors
<1>2. Utf8(b) \in B /\ << >> \in B /\ NUL \in Bytes
  <2>1. NUL \in Bytes
    BY DEF NUL, Bytes
  <2>2. QED BY <2>1, Utf8IsBytes
<1>3. Append(p.heard, [code |-> p.sb, data |-> p.sub]) \in M
  <2>1. [code |-> p.sb, data |-> p.sub] \in Messages
    BY <1>1 DEF Messages
  <2> HIDE DEF Messages
  <2>2. QED BY <1>1, <2>1
<1>4. p.clean \o Utf8(b) \in B /\ Append(p.sub, b) \in B
  BY <1>1, <1>2
<1> DEFINE States == {"Base", "InIAC", "InSB", "CapSB", "EscIAC"}
<1>5. Processors = [state : States, sb : Bytes, sub : B, clean : B, heard : M]
  BY DEF Processors
<1>6. \A q \in Processors :
         /\ \A x \in States : [q EXCEPT !.state = x] \in Processors
         /\ \A x \in B : [q EXCEPT !.clean = x] \in Processors
         /\ \A x \in States, y \in B : [q EXCEPT !.state = x, !.sub = y] \in Processors
         /\ \A x \in States, y \in Bytes, z \in B :
                [q EXCEPT !.state = x, !.sb = y, !.sub = z] \in Processors
         /\ \A x \in M, y \in Bytes : [q EXCEPT !.heard = x, !.sb = y] \in Processors
  <2> HIDE DEF B, M, Bytes, States
  <2>1. QED BY <1>5
<1> HIDE DEF B, M, Bytes
<1>7. ASSUME NEW q \in Processors PROVE AddInIAC(q, b) \in Processors
  BY <1>6, <1>7 DEF AddInIAC
<1>8. CaptureSubData(p, b) \in Processors /\ AddInSB(p, b) \in Processors
  BY <1>2, <1>4, <1>6 DEF CaptureSubData, AddInSB
<1>9. SubDataFinished(p, b) \in Processors
  BY <1>2, <1>3, <1>6, <1>7 DEF SubDataFinished
<1>10. [p EXCEPT !.clean = @ \o Utf8(b)] \in Processors /\ [p EXCEPT !.state = "InIAC"] \in Processors
       /\ [p EXCEPT !.state = "EscIAC"] \in Processors
  BY <1>4, <1>6
<1>11. QED BY <1>1, <1>7, <1>8, <1>9, <1>10, AddByteIs

\* AddBytes, byte by byte.
ByteStep == [z \in Processors \X Bytes |-> AddByte(z[1], z[2])]

\* The recursive definition of AddBytes, unfolded.
LEMMA AddBytesFolds ==
    ASSUME NEW p \in Processors, NEW s \in Seq(Bytes)
    PROVE  AddBytes(p, s) = Folded(ByteStep, p, s) /\ Steps(ByteStep, Processors, Bytes)
<1> DEFINE n == Len(s)
           B == [z \in Processors \X (1..n) |-> AddByte(z[1], s[z[2]])]
           Fits(g) == g = [S \in SUBSET (1..n) |->
                              IF S = {} THEN p ELSE AddByte(g[S \ {Max(S)}], s[Max(S)])]
           g == CHOOSE h : Fits(h)
<1>1. n \in Nat /\ DOMAIN s = 1..n /\ \A k \in 1..n : s[k] \in Bytes
  BY LenProperties, ElementOfSeq
<1>2. \E h : Fits(h)
  <2>1. B \in [Processors \X (1..n) -> Processors]
    BY <1>1, AddByteStays
  <2> HIDE DEF n, B
  <2>2. n \in Nat
    BY <1>1
  <2>3. PICK h \in [SUBSET (1..n) -> Processors] : IsLeftFold(h, n, B, p)
    BY <2>1, <2>2, LeftFoldExists
  <2>4. Fits(h)
    BY <2>3 DEF B, IsLeftFold
  <2> HIDE DEF Fits
  <2>5. QED BY <2>4
<1>3. Fits(g)
  <2> HIDE DEF Fits
  <2>1. QED BY <1>2
<1>4. AddBytes(p, s) = g[1..n]
  BY <1>1 DEF AddBytes, FoldLeft, MapThenFoldSet
<1> HIDE DEF g
<1>5. Steps(ByteStep, Processors, Bytes)
  BY AddByteStays DEF Steps, ByteStep
<1>6. g[{}] = p
  <2>1. {} \in SUBSET (1..n)
    OBVIOUS
  <2>2. QED BY <1>3, <2>1
<1>7. ASSUME NEW S \in SUBSET (1..n), S # {}, g[S \ {Max(S)}] \in Processors
      PROVE  g[S] = ByteStep[<<g[S \ {Max(S)}], s[Max(S)]>>]
  <2>1. Max(S) \in 1..n
    BY <1>1, <1>7, MaxOfSome
  <2>2. g[S] = AddByte(g[S \ {Max(S)}], s[Max(S)])
    BY <1>3, <1>7
  <2>3. QED BY <1>1, <1>7, <2>1, <2>2 DEF ByteStep
<1>8. g[1..n] = Folded(ByteStep, p, s)
  <2>1. FoldsOver(g, ByteStep, Processors, p, s)
    BY <1>6, <1>7 DEF FoldsOver
  <2>2. QED BY <1>5, <2>1, FoldedOver
<1>9. QED BY <1>4, <1>5, <1>8

\* Bytes one after the other.
LEMMA AddBytesIs ==
    ASSUME NEW p \in Processors, NEW s \in Seq(Bytes)
    PROVE  /\ AddBytes(p, s) \in Processors
           /\ AddBytes(p, << >>) = p
           /\ \A b \in Bytes : AddBytes(p, <<b>>) = AddByte(p, b)
           /\ \A u \in Seq(Bytes) : AddBytes(p, s \o u) = AddBytes(AddBytes(p, s), u)
<1>1. Steps(ByteStep, Processors, Bytes)
  BY AddBytesFolds
<1>2. AddBytes(p, s) = Folded(ByteStep, p, s)
  BY AddBytesFolds
<1>3. Folded(ByteStep, p, s) \in Processors
  <2>1. << >> \in Seq(Bytes)
    OBVIOUS
  <2>2. QED BY <1>1, <2>1, FoldedConcat
<1>4. AddBytes(p, << >>) = p
  <2>1. AddBytes(p, << >>) = Folded(ByteStep, p, << >>)
    <3>1. << >> \in Seq(Bytes)
      OBVIOUS
    <3>2. QED BY <3>1, AddBytesFolds
  <2>2. Folded(ByteStep, p, << >>) = p
    BY <1>1, FoldedNone
  <2>3. QED BY <2>1, <2>2
<1>5. ASSUME NEW b \in Bytes PROVE AddBytes(p, <<b>>) = AddByte(p, b)
  <2>1. <<b>> \in Seq(Bytes)
    OBVIOUS
  <2>2. AddBytes(p, <<b>>) = Folded(ByteStep, p, <<b>>)
    BY <2>1, AddBytesFolds
  <2>3. Folded(ByteStep, p, <<b>>) = ByteStep[<<p, b>>]
    BY <1>1, FoldedOne
  <2>4. QED BY <2>2, <2>3 DEF ByteStep
<1>6. ASSUME NEW u \in Seq(Bytes) PROVE AddBytes(p, s \o u) = AddBytes(AddBytes(p, s), u)
  <2> DEFINE q == AddBytes(p, s)
             w == s \o u
  <2>1. q \in Processors /\ w \in Seq(Bytes)
    BY <1>2, <1>3, ConcatProperties
  <2>2. Folded(ByteStep, p, s \o u) = Folded(ByteStep, Folded(ByteStep, p, s), u)
    BY <1>1, FoldedConcat
  <2>3. Folded(ByteStep, p, w) = Folded(ByteStep, q, u)
    BY <1>2, <2>2
  <2> HIDE DEF q, w
  <2>4. AddBytes(p, w) = Folded(ByteStep, p, w) /\ AddBytes(q, u) = Folded(ByteStep, q, u)
    BY <2>1, AddBytesFolds
  <2>5. AddBytes(p, w) = AddBytes(q, u)
    BY <2>3, <2>4
  <2>6. QED BY <2>5 DEF q, w
<1>7. QED BY <1>2, <1>3, <1>4, <1>5, <1>6

\* What it has put out already does not matter to what it does next.
Preceded(q, c, h) == [q EXCEPT !.clean = c \o @, !.heard = h \o @]

\* What a byte adds to it.
Shown(p, b) == IF p.state = "Base" /\ b # IAC THEN Utf8(b) ELSE << >>
Told(p, b)  == IF p.state = "EscIAC" /\ b # IAC THEN << [code |-> p.sb, data |-> p.sub] >> ELSE << >>

\* What a byte adds comes after what was put out before.
LEMMA AddByteAdds ==
    ASSUME NEW p \in Processors, NEW b \in Bytes
    PROVE  /\ Shown(p, b) \in Seq(Bytes) /\ Told(p, b) \in Seq(Messages)
           /\ AddByte(p, b).clean = p.clean \o Shown(p, b)
           /\ AddByte(p, b).heard = p.heard \o Told(p, b)
<1> DEFINE B == Seq(Bytes)
           M == Seq(Messages)
           States == {"Base", "InIAC", "InSB", "CapSB", "EscIAC"}
           m == [code |-> p.sb, data |-> p.sub]
<1>1. Processors = [state : States, sb : Bytes, sub : B, clean : B, heard : M]
  BY DEF Processors
<1>2. p.state \in States /\ p.clean \in B /\ p.heard \in M /\ p.sub \in B /\ p.sb \in Bytes
  BY <1>1
<1>3. m \in Messages
  BY <1>2 DEF Messages
<1>4. Append(p.heard, m) = p.heard \o <<m>> /\ <<m>> \in M
  <2> HIDE DEF m, Messages
  <2>1. QED BY <1>2, <1>3, AppendIsConcat
<1>5. p.clean \o << >> = p.clean /\ p.heard \o << >> = p.heard /\ << >> \in B /\ << >> \in M
  <2> HIDE DEF Messages
  <2>1. QED BY <1>2, ConcatEmptySeq
<1>6. Utf8(b) \in B
  BY Utf8IsBytes
<1> HIDE DEF B, M, Bytes, m
<1>7. CASE p.state = "EscIAC" /\ b # IAC
  <2>1. Shown(p, b) = << >> /\ Told(p, b) = <<m>>
    BY <1>7 DEF Shown, Told, m
  <2>2. AddByte(p, b).clean = p.clean /\ AddByte(p, b).heard = Append(p.heard, m)
    BY <1>7, AddByteFields DEF m, Follows
  <2>3. QED BY <1>4, <1>5, <2>1, <2>2 DEF B, M
<1>8. CASE p.state = "Base" /\ b # IAC
  <2>1. Shown(p, b) = Utf8(b) /\ Told(p, b) = << >>
    BY <1>8 DEF Shown, Told
  <2>2. AddByte(p, b).clean = p.clean \o Utf8(b) /\ AddByte(p, b).heard = p.heard
    BY <1>8, AddByteFields DEF Follows
  <2>3. QED BY <1>5, <1>6, <2>1, <2>2 DEF B, M
<1>9. CASE ~(p.state = "EscIAC" /\ b # IAC) /\ ~(p.state = "Base" /\ b # IAC)
  <2>1. Shown(p, b) = << >> /\ Told(p, b) = << >>
    BY <1>9 DEF Shown, Told
  <2>2. p.state = "EscIAC" => b = IAC
    BY <1>9
  <2>3. p.state = "Base" => b = IAC
    BY <1>9
  <2>4. AddByte(p, b).clean = p.clean /\ AddByte(p, b).heard = p.heard
    <3>1. CASE p.state = "Base"
      BY <2>3, <3>1, AddByteFields DEF Follows
    <3>2. CASE p.state = "InIAC"
      BY <3>2, AddByteFields DEF Follows
    <3>3. CASE p.state = "InSB"
      BY <3>3, AddByteFields DEF Follows
    <3>4. CASE p.state = "CapSB"
      <4>1. CASE b = IAC
        BY <3>4, <4>1, AddByteFields DEF Follows
      <4>2. CASE b # IAC
        BY <3>4, <4>2, AddByteFields DEF Follows
      <4>3. QED BY <4>1, <4>2
    <3>5. CASE p.state = "EscIAC"
      BY <2>2, <3>5, AddByteFields DEF Follows
    <3>6. QED BY <1>2, <3>1, <3>2, <3>3, <3>4, <3>5
  <2>5. QED BY <1>5, <2>1, <2>4 DEF B, M
<1>10. QED BY <1>7, <1>8, <1>9

\* Where it goes does not depend on what it has put out.
LEMMA AddByteGoes ==
    ASSUME NEW p \in Processors, NEW q \in Processors, NEW b \in Bytes,
           p.state = q.state, p.sb = q.sb, p.sub = q.sub
    PROVE  /\ AddByte(p, b).state = AddByte(q, b).state
           /\ AddByte(p, b).sb = AddByte(q, b).sb
           /\ AddByte(p, b).sub = AddByte(q, b).sub
           /\ Shown(p, b) = Shown(q, b) /\ Told(p, b) = Told(q, b)
<1> DEFINE B == Seq(Bytes)
           M == Seq(Messages)
           States == {"Base", "InIAC", "InSB", "CapSB", "EscIAC"}
<1>1. Processors = [state : States, sb : Bytes, sub : B, clean : B, heard : M]
  BY DEF Processors
<1> HIDE DEF B, M, Bytes
<1>2. p.state \in States
  BY <1>1
<1>0. Follows(AddByte(p, b), p, b) /\ Follows(AddByte(q, b), q, b)
  BY AddByteFields
<1>3. Shown(p, b) = Shown(q, b) /\ Told(p, b) = Told(q, b)
  BY DEF Shown, Told
<1>4. CASE p.state = "Base"
  BY <1>3, <1>4, <1>0 DEF Follows
<1>5. CASE p.state = "InIAC"
  BY <1>3, <1>5, <1>0 DEF Follows
<1>6. CASE p.state = "InSB"
  BY <1>3, <1>6, <1>0 DEF Follows
<1>7. CASE p.state = "CapSB"
  <2>1. CASE b = IAC
    BY <1>3, <1>7, <2>1, <1>0 DEF Follows
  <2>2. CASE b # IAC
    BY <1>3, <1>7, <2>2, <1>0 DEF Follows
  <2>3. QED BY <2>1, <2>2
<1>8. CASE p.state = "EscIAC"
  BY <1>3, <1>8, <1>0 DEF Follows
<1>9. QED BY <1>2, <1>4, <1>5, <1>6, <1>7, <1>8

\* Its fields are all there is to a processor.
LEMMA SameProcessor ==
    ASSUME NEW p \in Processors, NEW q \in Processors,
           p.state = q.state, p.sb = q.sb, p.sub = q.sub, p.clean = q.clean, p.heard = q.heard
    PROVE  p = q
<1> DEFINE B == Seq(Bytes)
           M == Seq(Messages)
           States == {"Base", "InIAC", "InSB", "CapSB", "EscIAC"}
<1>1. Processors = [state : States, sb : Bytes, sub : B, clean : B, heard : M]
  BY DEF Processors
<1> HIDE DEF B, M, Bytes, States
<1>2. QED BY <1>1

\* Put before, field by field.
LEMMA BeforeIs ==
    ASSUME NEW q \in Processors, NEW c \in Seq(Bytes), NEW h \in Seq(Messages)
    PROVE  /\ Preceded(q, c, h) \in Processors
           /\ Preceded(q, c, h).state = q.state /\ Preceded(q, c, h).sb = q.sb /\ Preceded(q, c, h).sub = q.sub
           /\ Preceded(q, c, h).clean = c \o q.clean /\ Preceded(q, c, h).heard = h \o q.heard
<1> DEFINE B == Seq(Bytes)
           M == Seq(Messages)
           States == {"Base", "InIAC", "InSB", "CapSB", "EscIAC"}
<1>1. Processors = [state : States, sb : Bytes, sub : B, clean : B, heard : M]
  BY DEF Processors
<1>2. c \o q.clean \in B /\ h \o q.heard \in M
  <2>1. q.clean \in B /\ q.heard \in M
    BY <1>1
  <2> HIDE DEF Messages
  <2>2. QED BY <2>1
<1> HIDE DEF B, M, Bytes, States
<1>3. QED BY <1>1, <1>2 DEF Preceded

\* A byte does to it what it does without what was put out before, ...
LEMMA AddByteAfter ==
    ASSUME NEW q \in Processors, NEW c \in Seq(Bytes), NEW h \in Seq(Messages), NEW b \in Bytes
    PROVE  AddByte(Preceded(q, c, h), b) = Preceded(AddByte(q, b), c, h)
<1> DEFINE p == Preceded(q, c, h)
           x == AddByte(p, b)
           y == AddByte(q, b)
           z == Preceded(y, c, h)
<1>1. p \in Processors /\ p.state = q.state /\ p.sb = q.sb /\ p.sub = q.sub
      /\ p.clean = c \o q.clean /\ p.heard = h \o q.heard
  BY BeforeIs
<1> HIDE DEF p
<1>2. x \in Processors /\ y \in Processors
  BY <1>1, AddByteStays
<1>3. /\ x.state = y.state /\ x.sb = y.sb /\ x.sub = y.sub
      /\ Shown(p, b) = Shown(q, b) /\ Told(p, b) = Told(q, b)
  BY <1>1, AddByteGoes
<1>4. /\ x.clean = p.clean \o Shown(q, b) /\ x.heard = p.heard \o Told(q, b)
      /\ y.clean = q.clean \o Shown(q, b) /\ y.heard = q.heard \o Told(q, b)
      /\ Shown(q, b) \in Seq(Bytes) /\ Told(q, b) \in Seq(Messages)
  BY <1>1, <1>3, AddByteAdds
<1> HIDE DEF x, y
<1>5. /\ z \in Processors /\ z.state = y.state /\ z.sb = y.sb /\ z.sub = y.sub
      /\ z.clean = c \o y.clean /\ z.heard = h \o y.heard
  BY <1>2, BeforeIs
<1>6. q.clean \in Seq(Bytes) /\ q.heard \in Seq(Messages)
  BY DEF Processors
<1>7. x.clean = z.clean
  <2> DEFINE a == q.clean
             d == Shown(q, b)
  <2>1. a \in Seq(Bytes) /\ d \in Seq(Bytes) /\ c \in Seq(Bytes)
    BY <1>4, <1>6
  <2> HIDE DEF a, d
  <2>2. (c \o a) \o d = c \o (a \o d)
    BY ONLY <2>1, ConcatAssociative
  <2>3. QED BY <1>1, <1>4, <1>5, <2>2 DEF a, d
<1>8. x.heard = z.heard
  <2> DEFINE a == q.heard
             d == Told(q, b)
  <2>1. a \in Seq(Messages) /\ d \in Seq(Messages) /\ h \in Seq(Messages)
    BY <1>4, <1>6
  <2> HIDE DEF a, d
  <2>2. (h \o a) \o d = h \o (a \o d)
    BY ONLY <2>1, ConcatAssociative
  <2>3. QED BY <1>1, <1>4, <1>5, <2>2 DEF a, d
<1> HIDE DEF z
<1>9. x = z
  BY <1>2, <1>3, <1>5, <1>7, <1>8, SameProcessor
<1>10. QED BY <1>9 DEF x, y, z, p

\* ... and so do bytes.
LEMMA AddBytesAfter ==
    ASSUME NEW q \in Processors, NEW c \in Seq(Bytes), NEW h \in Seq(Messages), NEW s \in Seq(Bytes)
    PROVE  AddBytes(Preceded(q, c, h), s) = Preceded(AddBytes(q, s), c, h)
<1> DEFINE p == Preceded(q, c, h)
           P == {u \in Seq(Bytes) : AddBytes(p, u) = Preceded(AddBytes(q, u), c, h)}
<1>1. p \in Processors
  BY BeforeIs
<1> HIDE DEF p
<1>2. << >> \in P
  BY <1>1, AddBytesIs DEF p
<1>3. ASSUME NEW u \in P, NEW b \in Bytes PROVE Append(u, b) \in P
  <2>1. u \in Seq(Bytes) /\ <<b>> \in Seq(Bytes) /\ Append(u, b) = u \o <<b>> /\ u \o <<b>> \in Seq(Bytes)
        /\ AddBytes(p, u) = Preceded(AddBytes(q, u), c, h)
    BY AppendIsConcat, ConcatProperties
  <2> DEFINE r == AddBytes(q, u)
             w == AddBytes(p, u)
  <2>2. r \in Processors /\ w \in Processors
    BY <1>1, <2>1, AddBytesIs
  <2>3. AddBytes(q, u \o <<b>>) = AddBytes(r, <<b>>) /\ AddBytes(p, u \o <<b>>) = AddBytes(w, <<b>>)
    <3> DEFINE o == <<b>>
    <3>1. o \in Seq(Bytes)
      BY <2>1
    <3> HIDE DEF o
    <3>2. AddBytes(q, u \o o) = AddBytes(AddBytes(q, u), o)
          /\ AddBytes(p, u \o o) = AddBytes(AddBytes(p, u), o)
      BY <1>1, <2>1, <3>1, AddBytesIs
    <3>3. QED BY <3>2 DEF o
  <2>4. w = Preceded(r, c, h)
    BY <2>1
  <2> HIDE DEF r, w
  <2>5. AddBytes(r, <<b>>) = AddByte(r, b) /\ AddBytes(w, <<b>>) = AddByte(w, b)
    BY <2>1, <2>2, AddBytesIs
  <2>6. AddByte(w, b) = Preceded(AddByte(r, b), c, h)
    BY <2>2, <2>4, AddByteAfter
  <2>7. QED BY <2>1, <2>3, <2>5, <2>6
<1>4. P \in SUBSET Seq(Bytes)
  OBVIOUS
<1>5. P = Seq(Bytes)
  <2> HIDE DEF P, Bytes
  <2>1. QED BY <1>2, <1>3, <1>4, SeqSetInduction
<1>6. QED BY <1>5 DEF p

-----------------------------------------------------------------------------
(* The folds of the model                                                  *)

Texts == Seq(Bytes)

\* A byte of data more.
Double(s, b) == IF b = IAC THEN s \o <<IAC, IAC>> ELSE Append(s, b)

\* Doubled bytes are bytes.
LEMMA DoubleStays ==
    ASSUME NEW s \in Texts, NEW b \in Bytes
    PROVE  Double(s, b) \in Texts
<1>1. s \o <<IAC, IAC>> \in Texts
  <2>1. <<IAC, IAC>> \in Texts
    BY DEF Texts, Bytes, IAC
  <2>2. QED BY <2>1 DEF Texts
<1>2. Append(s, b) \in Texts
  BY DEF Texts
<1>3. QED BY <1>1, <1>2 DEF Double

\* Data, byte by byte.
DoubleStep == [z \in Texts \X Bytes |-> Double(z[1], z[2])]

\* The recursive definition of Doubled, unfolded.
LEMMA DoubledFolds ==
    ASSUME NEW s \in Seq(Bytes)
    PROVE  Doubled(s) = Folded(DoubleStep, << >>, s) /\ Steps(DoubleStep, Texts, Bytes)
<1> DEFINE n == Len(s)
           B == [z \in Texts \X (1..n) |-> Double(z[1], s[z[2]])]
           Fits(g) == g = [S \in SUBSET (1..n) |->
                              IF S = {} THEN << >> ELSE Double(g[S \ {Max(S)}], s[Max(S)])]
           g == CHOOSE h : Fits(h)
<1>1. n \in Nat /\ DOMAIN s = 1..n /\ (\A k \in 1..n : s[k] \in Bytes) /\ << >> \in Texts
  BY LenProperties, ElementOfSeq DEF Texts
<1>2. \E h : Fits(h)
  <2>1. B \in [Texts \X (1..n) -> Texts]
    BY <1>1, DoubleStays
  <2> HIDE DEF n, B
  <2>2. n \in Nat /\ << >> \in Texts
    BY <1>1
  <2>3. PICK h \in [SUBSET (1..n) -> Texts] : IsLeftFold(h, n, B, << >>)
    BY <2>1, <2>2, LeftFoldExists
  <2>4. Fits(h)
    BY <2>3 DEF B, IsLeftFold
  <2> HIDE DEF Fits
  <2>5. QED BY <2>4
<1>3. Fits(g)
  <2> HIDE DEF Fits
  <2>1. QED BY <1>2
<1>4. Doubled(s) = g[1..n]
  BY <1>1 DEF Doubled, Double, FoldLeft, MapThenFoldSet
<1> HIDE DEF g
<1>5. Steps(DoubleStep, Texts, Bytes)
  BY DoubleStays DEF Steps, DoubleStep
<1>6. g[{}] = << >>
  <2>1. {} \in SUBSET (1..n)
    OBVIOUS
  <2>2. QED BY <1>3, <2>1
<1>7. ASSUME NEW S \in SUBSET (1..n), S # {}, g[S \ {Max(S)}] \in Texts
      PROVE  g[S] = DoubleStep[<<g[S \ {Max(S)}], s[Max(S)]>>]
  <2>1. Max(S) \in 1..n
    BY <1>1, <1>7, MaxOfSome
  <2>2. g[S] = Double(g[S \ {Max(S)}], s[Max(S)])
    BY <1>3, <1>7
  <2>3. QED BY <1>1, <1>7, <2>1, <2>2 DEF DoubleStep
<1>8. g[1..n] = Folded(DoubleStep, << >>, s)
  <2>1. FoldsOver(g, DoubleStep, Texts, << >>, s)
    BY <1>6, <1>7 DEF FoldsOver
  <2>2. QED BY <1>1, <1>5, <2>1, FoldedOver
<1>9. QED BY <1>4, <1>5, <1>8

Windows == (0..510) \X (0..510)

\* A window is at most 510 columns and rows.
LEMMA HeardStays ==
    ASSUME NEW w \in Windows, NEW m \in Messages
    PROVE  Heard(w, m) \in Windows
<1>1. CASE m.code = WS /\ Len(m.data) = 4
  <2>1. \A i \in 1..4 : m.data[i] \in Bytes
    BY <1>1 DEF Messages
  <2>2. ASSUME NEW x \in Bytes, NEW y \in Bytes PROVE Size(x, y) \in 0..510
    <3>1. x \in Int /\ y \in 0..255 /\ 255 * x \in Int
      BY DEF Bytes
    <3>2. (255 * x) % 256 \in 0..255
      BY <3>1
    <3>3. QED BY <3>1, <3>2 DEF Size
  <2>3. /\ m.data[1] \in Bytes /\ m.data[2] \in Bytes /\ m.data[3] \in Bytes /\ m.data[4] \in Bytes
    BY <2>1
  <2>4. /\ Size(m.data[1], m.data[2]) \in 0..510 /\ Size(m.data[3], m.data[4]) \in 0..510
    BY <2>2, <2>3
  <2>5. QED BY <1>1, <2>4 DEF Heard, Windows
<1>2. CASE ~(m.code = WS /\ Len(m.data) = 4)
  BY <1>2 DEF Heard
<1>3. QED BY <1>1, <1>2

\* What is heard, message by message.
HeardStep == [z \in Windows \X Messages |-> Heard(z[1], z[2])]

\* The fold of Heard, unfolded.
LEMMA HeardFolds ==
    ASSUME NEW w \in Windows, NEW s \in Seq(Messages)
    PROVE  FoldLeft(Heard, w, s) = Folded(HeardStep, w, s) /\ Steps(HeardStep, Windows, Messages)
<1> DEFINE n == Len(s)
           B == [z \in Windows \X (1..n) |-> Heard(z[1], s[z[2]])]
           Fits(g) == g = [S \in SUBSET (1..n) |->
                              IF S = {} THEN w ELSE Heard(g[S \ {Max(S)}], s[Max(S)])]
           g == CHOOSE h : Fits(h)
<1>1. n \in Nat /\ DOMAIN s = 1..n /\ (\A k \in 1..n : s[k] \in Messages) /\ w \in Windows
  BY LenProperties, ElementOfSeq
<1>2. \E h : Fits(h)
  <2>1. B \in [Windows \X (1..n) -> Windows]
    BY <1>1, HeardStays
  <2> HIDE DEF n, B
  <2>2. n \in Nat /\ w \in Windows
    BY <1>1
  <2>3. PICK h \in [SUBSET (1..n) -> Windows] : IsLeftFold(h, n, B, w)
    BY <2>1, <2>2, LeftFoldExists
  <2>4. Fits(h)
    BY <2>3 DEF B, IsLeftFold
  <2> HIDE DEF Fits
  <2>5. QED BY <2>4
<1>3. Fits(g)
  <2> HIDE DEF Fits
  <2>1. QED BY <1>2
<1>4. FoldLeft(Heard, w, s) = g[1..n]
  BY <1>1 DEF FoldLeft, MapThenFoldSet
<1> HIDE DEF g
<1>5. Steps(HeardStep, Windows, Messages)
  BY HeardStays DEF Steps, HeardStep
<1>6. g[{}] = w
  <2>1. {} \in SUBSET (1..n)
    OBVIOUS
  <2>2. QED BY <1>3, <2>1
<1>7. ASSUME NEW S \in SUBSET (1..n), S # {}, g[S \ {Max(S)}] \in Windows
      PROVE  g[S] = HeardStep[<<g[S \ {Max(S)}], s[Max(S)]>>]
  <2>1. Max(S) \in 1..n
    BY <1>1, <1>7, MaxOfSome
  <2>2. g[S] = Heard(g[S \ {Max(S)}], s[Max(S)])
    BY <1>3, <1>7
  <2>3. QED BY <1>1, <1>7, <2>1, <2>2 DEF HeardStep
<1>8. g[1..n] = Folded(HeardStep, w, s)
  <2>1. FoldsOver(g, HeardStep, Windows, w, s)
    BY <1>6, <1>7 DEF FoldsOver
  <2>2. QED BY <1>1, <1>5, <2>1, FoldedOver
<1>9. QED BY <1>4, <1>5, <1>8

\* The text of a phrase is a text.
LEMMA TypedStays ==
    ASSUME NEW t \in Texts, NEW p \in Phrases
    PROVE  TextOf(p) \in Texts /\ t \o TextOf(p) \in Texts
<1>1. TextOf(p) \in Texts
  <2>1. CASE p.kind = "key"
    <3>1. p \in Keys
      BY <2>1, TelnetAssumption DEF TelnetAssumption, Keys, Signals, Requests, Reports
    <3>2. p.code \in Bytes
      BY <3>1 DEF Keys
    <3>3. QED BY <2>1, <3>2, Utf8IsBytes DEF TextOf, Texts
  <2>2. CASE p.kind # "key"
    BY <2>2 DEF TextOf, Texts
  <2>3. QED BY <2>1, <2>2
<1>2. QED BY <1>1 DEF Texts

\* What was typed, phrase by phrase.
TypedStep == [z \in Texts \X Phrases |-> z[1] \o TextOf(z[2])]

\* The recursive definition of Typed, unfolded.
LEMMA TypedFolds ==
    ASSUME NEW s \in Seq(Phrases)
    PROVE  Typed(s) = Folded(TypedStep, << >>, s) /\ Steps(TypedStep, Texts, Phrases)
<1> DEFINE n == Len(s)
           B == [z \in Texts \X (1..n) |-> z[1] \o TextOf(s[z[2]])]
           Fits(g) == g = [S \in SUBSET (1..n) |->
                              IF S = {} THEN << >> ELSE g[S \ {Max(S)}] \o TextOf(s[Max(S)])]
           g == CHOOSE h : Fits(h)
<1>1. n \in Nat /\ DOMAIN s = 1..n /\ (\A k \in 1..n : s[k] \in Phrases) /\ << >> \in Texts
  BY LenProperties, ElementOfSeq DEF Texts
<1>2. \E h : Fits(h)
  <2>1. B \in [Texts \X (1..n) -> Texts]
    BY <1>1, TypedStays
  <2> HIDE DEF n, B
  <2>2. n \in Nat /\ << >> \in Texts
    BY <1>1
  <2>3. PICK h \in [SUBSET (1..n) -> Texts] : IsLeftFold(h, n, B, << >>)
    BY <2>1, <2>2, LeftFoldExists
  <2>4. Fits(h)
    BY <2>3 DEF B, IsLeftFold
  <2> HIDE DEF Fits
  <2>5. QED BY <2>4
<1>3. Fits(g)
  <2> HIDE DEF Fits
  <2>1. QED BY <1>2
<1>4. Typed(s) = g[1..n]
  BY <1>1 DEF Typed, FoldLeft, MapThenFoldSet
<1> HIDE DEF g
<1>5. Steps(TypedStep, Texts, Phrases)
  BY TypedStays DEF Steps, TypedStep
<1>6. g[{}] = << >>
  <2>1. {} \in SUBSET (1..n)
    OBVIOUS
  <2>2. QED BY <1>3, <2>1
<1>7. ASSUME NEW S \in SUBSET (1..n), S # {}, g[S \ {Max(S)}] \in Texts
      PROVE  g[S] = TypedStep[<<g[S \ {Max(S)}], s[Max(S)]>>]
  <2>1. Max(S) \in 1..n
    BY <1>1, <1>7, MaxOfSome
  <2>2. g[S] = g[S \ {Max(S)}] \o TextOf(s[Max(S)])
    BY <1>3, <1>7
  <2>3. QED BY <1>1, <1>7, <2>1, <2>2 DEF TypedStep
<1>8. g[1..n] = Folded(TypedStep, << >>, s)
  <2>1. FoldsOver(g, TypedStep, Texts, << >>, s)
    BY <1>6, <1>7 DEF FoldsOver
  <2>2. QED BY <1>1, <1>5, <2>1, FoldedOver
<1>9. QED BY <1>4, <1>5, <1>8

\* A window announced.
Report(w, p) ==
    IF p.kind = "report" /\ p.code = WS
    THEN <<256 * p.data[1] + p.data[2], 256 * p.data[3] + p.data[4]>> ELSE w

Sizes == Nat \X Nat

\* The size of a window has four bytes.
LEMMA ReportStays ==
    ASSUME NEW w \in Sizes, NEW p \in Phrases
    PROVE  /\ p.kind = "report" => p \in Reports
           /\ p.kind = "report" /\ p.code = WS => Len(p.data) = 4 /\ \A i \in 1..4 : p.data[i] \in Bytes
           /\ Report(w, p) \in Sizes
<1>1. p.kind = "report" => p \in Reports
  BY TelnetAssumption DEF TelnetAssumption, Keys, Signals, Requests, Reports
<1>2. CASE p.kind = "report" /\ p.code = WS
  <2>1. Len(p.data) = 4 /\ p.data \in Seq(Bytes)
    BY <1>1, <1>2, TelnetAssumption DEF TelnetAssumption, Reports
  <2>2. \A i \in 1..4 : p.data[i] \in Bytes
    BY <2>1
  <2>3. 256 * p.data[1] + p.data[2] \in Nat /\ 256 * p.data[3] + p.data[4] \in Nat
    <3>1. \A x, y \in Bytes : 256 * x + y \in Nat
      BY DEF Bytes
    <3>2. p.data[1] \in Bytes /\ p.data[2] \in Bytes /\ p.data[3] \in Bytes /\ p.data[4] \in Bytes
      BY <2>2
    <3>3. QED BY <3>1, <3>2
  <2>4. QED BY <1>1, <1>2, <2>1, <2>2, <2>3 DEF Report, Sizes
<1>3. CASE ~(p.kind = "report" /\ p.code = WS)
  BY <1>1, <1>3 DEF Report
<1>4. QED BY <1>2, <1>3

\* What was announced, phrase by phrase.
ReportStep == [z \in Sizes \X Phrases |-> Report(z[1], z[2])]

\* The recursive definition of Announced, unfolded.
LEMMA AnnouncedFolds ==
    ASSUME NEW s \in Seq(Phrases)
    PROVE  Announced(s) = Folded(ReportStep, NoWindow, s) /\ Steps(ReportStep, Sizes, Phrases)
<1> DEFINE n == Len(s)
           B == [z \in Sizes \X (1..n) |-> Report(z[1], s[z[2]])]
           Fits(g) == g = [S \in SUBSET (1..n) |->
                              IF S = {} THEN NoWindow ELSE Report(g[S \ {Max(S)}], s[Max(S)])]
           g == CHOOSE h : Fits(h)
<1>1. n \in Nat /\ DOMAIN s = 1..n /\ (\A k \in 1..n : s[k] \in Phrases) /\ NoWindow \in Sizes
  BY LenProperties, ElementOfSeq DEF Sizes, NoWindow
<1>2. \E h : Fits(h)
  <2>1. B \in [Sizes \X (1..n) -> Sizes]
    BY <1>1, ReportStays
  <2> HIDE DEF n, B
  <2>2. n \in Nat /\ NoWindow \in Sizes
    BY <1>1
  <2>3. PICK h \in [SUBSET (1..n) -> Sizes] : IsLeftFold(h, n, B, NoWindow)
    BY <2>1, <2>2, LeftFoldExists
  <2>4. Fits(h)
    BY <2>3 DEF B, IsLeftFold
  <2> HIDE DEF Fits
  <2>5. QED BY <2>4
<1>3. Fits(g)
  <2> HIDE DEF Fits
  <2>1. QED BY <1>2
<1>4. Announced(s) = g[1..n]
  BY <1>1 DEF Announced, Report, FoldLeft, MapThenFoldSet
<1> HIDE DEF g
<1>5. Steps(ReportStep, Sizes, Phrases)
  BY ReportStays DEF Steps, ReportStep
<1>6. g[{}] = NoWindow
  <2>1. {} \in SUBSET (1..n)
    OBVIOUS
  <2>2. QED BY <1>3, <2>1
<1>7. ASSUME NEW S \in SUBSET (1..n), S # {}, g[S \ {Max(S)}] \in Sizes
      PROVE  g[S] = ReportStep[<<g[S \ {Max(S)}], s[Max(S)]>>]
  <2>1. Max(S) \in 1..n
    BY <1>1, <1>7, MaxOfSome
  <2>2. g[S] = Report(g[S \ {Max(S)}], s[Max(S)])
    BY <1>3, <1>7
  <2>3. QED BY <1>1, <1>7, <2>1, <2>2 DEF ReportStep
<1>8. g[1..n] = Folded(ReportStep, NoWindow, s)
  <2>1. FoldsOver(g, ReportStep, Sizes, NoWindow, s)
    BY <1>6, <1>7 DEF FoldsOver
  <2>2. QED BY <1>1, <1>5, <2>1, FoldedOver
<1>9. QED BY <1>4, <1>5, <1>8

\* A text in lines.
Cuttings == [line : Texts, got : Seq(Texts)]

\* A line got is the line without its CR.
LEMMA AnswerStays ==
    ASSUME NEW got \in Seq(Texts), NEW line \in Texts
    PROVE  /\ DropCR(line) \in Texts
           /\ Answer(got, line) = got \/ Answer(got, line) = Append(got, DropCR(line))
           /\ Answer(got, line) \in Seq(Texts)
<1>1. DropCR(line) \in Texts
  <2>1. CASE line # << >>
    <3>1. Front(line) \in Texts
      BY <2>1, SMT DEF Front, Texts
    <3>2. QED BY <3>1 DEF DropCR
  <2>2. CASE line = << >>
    BY <2>2 DEF DropCR
  <2>3. QED BY <2>1, <2>2
<1>2. QED BY <1>1 DEF Answer

\* A text cut is lines, and one that is open.
LEMMA CutStays ==
    ASSUME NEW c \in Cuttings, NEW b \in Bytes
    PROVE  Cut(c, b) \in Cuttings
<1> DEFINE G == Seq(Texts)
<1>1. c.line \in Texts /\ c.got \in G
  BY DEF Cuttings
<1>2. Answer(c.got, c.line) \in G /\ Append(c.line, b) \in Texts /\ << >> \in Texts
  <2>1. Answer(c.got, c.line) \in G
    BY <1>1, AnswerStays
  <2>2. QED BY <1>1, <2>1 DEF Texts
<1>3. Cuttings = [line : Texts, got : G]
  BY DEF Cuttings
<1> HIDE DEF G
<1>4. QED BY <1>1, <1>2, <1>3 DEF Cut

\* A text cut, byte by byte.
CutStep == [z \in Cuttings \X Bytes |-> Cut(z[1], z[2])]

\* The fold of Cut, unfolded.
LEMMA CutFolds ==
    ASSUME NEW c \in Cuttings, NEW s \in Seq(Bytes)
    PROVE  FoldLeft(Cut, c, s) = Folded(CutStep, c, s) /\ Steps(CutStep, Cuttings, Bytes)
<1> DEFINE n == Len(s)
           B == [z \in Cuttings \X (1..n) |-> Cut(z[1], s[z[2]])]
           Fits(g) == g = [S \in SUBSET (1..n) |->
                              IF S = {} THEN c ELSE Cut(g[S \ {Max(S)}], s[Max(S)])]
           g == CHOOSE h : Fits(h)
<1>1. n \in Nat /\ DOMAIN s = 1..n /\ (\A k \in 1..n : s[k] \in Bytes) /\ c \in Cuttings
  BY LenProperties, ElementOfSeq
<1>2. \E h : Fits(h)
  <2>1. B \in [Cuttings \X (1..n) -> Cuttings]
    BY <1>1, CutStays
  <2> HIDE DEF n, B
  <2>2. n \in Nat /\ c \in Cuttings
    BY <1>1
  <2>3. PICK h \in [SUBSET (1..n) -> Cuttings] : IsLeftFold(h, n, B, c)
    BY <2>1, <2>2, LeftFoldExists
  <2>4. Fits(h)
    BY <2>3 DEF B, IsLeftFold
  <2> HIDE DEF Fits
  <2>5. QED BY <2>4
<1>3. Fits(g)
  <2> HIDE DEF Fits
  <2>1. QED BY <1>2
<1>4. FoldLeft(Cut, c, s) = g[1..n]
  BY <1>1 DEF FoldLeft, MapThenFoldSet
<1> HIDE DEF g
<1>5. Steps(CutStep, Cuttings, Bytes)
  BY CutStays DEF Steps, CutStep
<1>6. g[{}] = c
  <2>1. {} \in SUBSET (1..n)
    OBVIOUS
  <2>2. QED BY <1>3, <2>1
<1>7. ASSUME NEW S \in SUBSET (1..n), S # {}, g[S \ {Max(S)}] \in Cuttings
      PROVE  g[S] = CutStep[<<g[S \ {Max(S)}], s[Max(S)]>>]
  <2>1. Max(S) \in 1..n
    BY <1>1, <1>7, MaxOfSome
  <2>2. g[S] = Cut(g[S \ {Max(S)}], s[Max(S)])
    BY <1>3, <1>7
  <2>3. QED BY <1>1, <1>7, <2>1, <2>2 DEF CutStep
<1>8. g[1..n] = Folded(CutStep, c, s)
  <2>1. FoldsOver(g, CutStep, Cuttings, c, s)
    BY <1>6, <1>7 DEF FoldsOver
  <2>2. QED BY <1>1, <1>5, <2>1, FoldedOver
<1>9. QED BY <1>4, <1>5, <1>8

-----------------------------------------------------------------------------
(* Phrases                                                                 *)

\* A fold of one element more.
LEMMA FoldedAppend ==
    ASSUME NEW V, NEW T, NEW B, Steps(B, V, T), NEW v \in V, NEW s \in Seq(T), NEW t \in T
    PROVE  /\ Folded(B, v, s) \in V
           /\ Folded(B, v, Append(s, t)) = B[<<Folded(B, v, s), t>>]
<1> DEFINE u == <<t>>
           w == Folded(B, v, s)
<1>1. u \in Seq(T) /\ Append(s, t) = s \o u
  BY AppendIsConcat
<1> HIDE DEF u
<1>2. w \in V /\ Folded(B, v, s \o u) = Folded(B, w, u)
  BY <1>1, FoldedConcat
<1> HIDE DEF w
<1>3. Folded(B, w, u) = B[<<w, t>>]
  BY <1>2, FoldedOne DEF u
<1>4. QED BY <1>1, <1>2, <1>3 DEF w

\* Data doubled: nothing of nothing, and a byte more.
LEMMA DoubledIs ==
    /\ Doubled(<< >>) = << >>
    /\ \A s \in Seq(Bytes), b \in Bytes :
           Doubled(s) \in Seq(Bytes) /\ Doubled(Append(s, b)) = Double(Doubled(s), b)
<1>1. << >> \in Seq(Bytes) /\ << >> \in Texts
  BY DEF Texts
<1>2. Steps(DoubleStep, Texts, Bytes)
  BY <1>1, DoubledFolds
<1>3. Doubled(<< >>) = << >>
  <2>1. Doubled(<< >>) = Folded(DoubleStep, << >>, << >>)
    BY <1>1, DoubledFolds
  <2>2. Folded(DoubleStep, << >>, << >>) = << >>
    BY <1>1, <1>2, FoldedNone
  <2>3. QED BY <2>1, <2>2
<1>4. ASSUME NEW s \in Seq(Bytes), NEW b \in Bytes
      PROVE  Doubled(s) \in Seq(Bytes) /\ Doubled(Append(s, b)) = Double(Doubled(s), b)
  <2> DEFINE a == Append(s, b)
             w == Folded(DoubleStep, << >>, s)
             e == << >>
  <2>0. e \in Texts
    BY <1>1
  <2>1. a \in Seq(Bytes)
    BY AppendProperties
  <2>2. w \in Texts /\ Folded(DoubleStep, << >>, a) = DoubleStep[<<w, b>>]
    <3> HIDE DEF e
    <3>1. Folded(DoubleStep, e, s) \in Texts
          /\ Folded(DoubleStep, e, Append(s, b)) = DoubleStep[<<Folded(DoubleStep, e, s), b>>]
      BY <1>2, <2>0, FoldedAppend
    <3>2. QED BY <3>1 DEF e
  <2> HIDE DEF a
  <2>3. Doubled(s) = w /\ Doubled(a) = Folded(DoubleStep, << >>, a)
    BY <2>1, DoubledFolds
  <2> HIDE DEF w
  <2>4. DoubleStep[<<w, b>>] = Double(w, b)
    BY <2>2 DEF DoubleStep
  <2>5. QED BY <2>2, <2>3, <2>4 DEF a, Texts
<1>5. QED BY <1>3, <1>4

\* Data goes into the processor as it was before it was doubled.
LEMMA DataIsTaken ==
    ASSUME NEW p \in Processors, p.state = "CapSB", p.sub = << >>, NEW d \in Seq(Bytes)
    PROVE  LET q == AddBytes(p, Doubled(d))
           IN  /\ q \in Processors /\ q.state = "CapSB" /\ q.sub = d
               /\ q.sb = p.sb /\ q.clean = p.clean /\ q.heard = p.heard
<1> DEFINE Good(q, s) == /\ q \in Processors /\ q.state = "CapSB" /\ q.sub = s
                         /\ q.sb = p.sb /\ q.clean = p.clean /\ q.heard = p.heard
           P == {s \in Seq(Bytes) : Good(AddBytes(p, Doubled(s)), s)}
<1>1. << >> \in P
  <2>1. << >> \in Seq(Bytes)
    OBVIOUS
  <2>2. AddBytes(p, << >>) = p
    BY <2>1, AddBytesIs
  <2>3. QED BY <2>1, <2>2, DoubledIs
<1>2. ASSUME NEW s \in P, NEW b \in Bytes PROVE Append(s, b) \in P
  <2> DEFINE D == Doubled(s)
             q == AddBytes(p, D)
  <2>1. s \in Seq(Bytes) /\ D \in Seq(Bytes) /\ Append(s, b) \in Seq(Bytes)
        /\ Doubled(Append(s, b)) = Double(D, b)
    BY DoubledIs, AppendProperties
  <2>2. Good(q, s)
    BY <1>2
  <2> HIDE DEF D
  <2>3. \A u \in Seq(Bytes) : AddBytes(p, D \o u) = AddBytes(q, u)
    BY <2>1, AddBytesIs
  <2> HIDE DEF q
  <2> DEFINE o == <<b>>
  <2>4. o \in Seq(Bytes)
    OBVIOUS
  <2>5. AddBytes(q, o) = AddByte(q, b)
    BY <2>2, <2>4, AddBytesIs
  <2>6. CASE b # IAC
    <3>1. Double(D, b) = D \o o
      BY <2>1, <2>6, AppendIsConcat DEF Double
    <3> HIDE DEF o
    <3> DEFINE x == AddByte(q, b)
    <3>2. Follows(x, q, b) /\ x \in Processors
      BY <2>2, AddByteFields, AddByteStays
    <3>3. AddBytes(p, Double(D, b)) = x
      BY <2>3, <2>4, <2>5, <3>1
    <3> HIDE DEF x
    <3>4. Good(x, Append(s, b))
      BY <2>2, <2>6, <3>2 DEF Follows
    <3>5. QED BY <2>1, <3>3, <3>4
  <2>7. CASE b = IAC
    <3> DEFINE w == <<IAC, IAC>>
    <3>1. Double(D, b) = D \o w /\ w = o \o o /\ w \in Seq(Bytes)
      BY <2>7 DEF Double
    <3> HIDE DEF o, w
    <3> DEFINE x == AddByte(q, b)
               y == AddByte(x, b)
    <3>2. Follows(x, q, b) /\ x \in Processors
      BY <2>2, AddByteFields, AddByteStays
    <3>3. AddBytes(q, w) = AddBytes(AddBytes(q, o), o)
      BY <2>2, <2>4, <3>1, AddBytesIs
    <3> HIDE DEF x
    <3>4. Follows(y, x, b) /\ y \in Processors
      BY <3>2, AddByteFields, AddByteStays
    <3>5. AddBytes(x, o) = y
      BY <2>4, <3>2, AddBytesIs DEF o
    <3>6. AddBytes(p, Double(D, b)) = y
      BY <2>3, <2>5, <3>1, <3>3, <3>5 DEF x
    <3> HIDE DEF y
    <3>7. Good(y, Append(s, b))
      BY <2>2, <2>7, <3>2, <3>4 DEF Follows
    <3>8. QED BY <2>1, <3>6, <3>7
  <2>8. QED BY <2>6, <2>7
<1>3. P \in SUBSET Seq(Bytes)
  OBVIOUS
<1>4. P = Seq(Bytes)
  <2> HIDE DEF P, Bytes
  <2>1. QED BY <1>1, <1>2, <1>3, SeqSetInduction
<1>5. Good(AddBytes(p, Doubled(d)), d)
  BY <1>4
<1>6. QED BY <1>5

\* Two bytes are one and then the other.
LEMMA TwoBytes ==
    ASSUME NEW p \in Processors, NEW a \in Bytes, NEW b \in Bytes
    PROVE  AddBytes(p, <<a, b>>) = AddByte(AddByte(p, a), b)
<1> DEFINE x == <<a>>
           y == <<b>>
           q == AddByte(p, a)
<1>1. x \in Seq(Bytes) /\ y \in Seq(Bytes) /\ <<a, b>> = x \o y
  <2>1. x \in Seq(Bytes) /\ y \in Seq(Bytes)
    OBVIOUS
  <2>2. <<a, b>> = Append(x, b)
    OBVIOUS
  <2>3. Append(x, b) = x \o <<b>>
    <3> HIDE DEF x
    <3>1. QED BY <2>1, AppendIsConcat
  <2>4. QED BY <2>1, <2>2, <2>3
<1>2. q \in Processors
  BY AddByteStays
<1>3. AddBytes(p, x) = q
  BY <1>1, AddBytesIs
<1> HIDE DEF x, q
<1>4. AddBytes(p, x \o y) = AddBytes(q, y)
  BY <1>1, <1>3, AddBytesIs
<1>5. AddBytes(q, y) = AddByte(q, b)
  BY <1>1, <1>2, AddBytesIs
<1>6. QED BY <1>1, <1>4, <1>5 DEF q

\* The report a phrase is to the listener.
MessageOf(f) == IF f.kind = "report" THEN << [code |-> f.code, data |-> f.data] >> ELSE << >>

\* What the processor makes of a phrase.
Taken(q, p, f) ==
    /\ q \in Processors /\ q.state = "Base"
    /\ q.clean = p.clean \o TextOf(f) /\ q.heard = p.heard \o MessageOf(f)

\* Between phrases the processor is at its base, and of a phrase it keeps the
\* text or hands on the report, whatever bytes are in its data.
LEMMA PhraseIsTaken ==
    ASSUME NEW p \in Processors, p.state = "Base", NEW f \in Phrases
    PROVE  /\ Encoded(f) \in Seq(Bytes) /\ MessageOf(f) \in Seq(Messages)
           /\ Taken(AddBytes(p, Encoded(f)), p, f)
<1>0. p.clean \in Seq(Bytes) /\ p.heard \in Seq(Messages)
      /\ p.clean \o << >> = p.clean /\ p.heard \o << >> = p.heard /\ << >> \in Seq(Messages)
  <2>1. p.clean \in Seq(Bytes) /\ p.heard \in Seq(Messages)
    BY DEF Processors
  <2> HIDE DEF Bytes, Messages
  <2>2. QED BY <2>1
<1>1. /\ IAC \in Bytes /\ SB \in Bytes /\ SE \in Bytes /\ IAC \notin Verbs /\ IAC # SB
      /\ SB \notin Verbs /\ SE \notin Verbs /\ SE # SB /\ SE # IAC /\ SB # IAC
  BY DEF IAC, SB, SE, Verbs, Bytes
<1>2. CASE f \in Keys
  <2>1. f.code \in Bytes /\ f.code # IAC /\ f.kind = "key"
    BY <1>2 DEF Keys
  <2>2. Encoded(f) = <<f.code>> /\ TextOf(f) = Utf8(f.code) /\ MessageOf(f) = << >>
    BY <2>1 DEF Encoded, TextOf, MessageOf
  <2>3. Encoded(f) \in Seq(Bytes)
    BY <2>1, <2>2
  <2> DEFINE q == AddByte(p, f.code)
  <2>4. AddBytes(p, Encoded(f)) = q
    BY <2>1, <2>2, <2>3, AddBytesIs
  <2>5. q \in Processors /\ Follows(q, p, f.code)
    BY <2>1, AddByteStays, AddByteFields
  <2> HIDE DEF q
  <2>6. q.state = "Base" /\ q.clean = p.clean \o Utf8(f.code) /\ q.heard = p.heard
    BY <2>1, <2>5 DEF Follows
  <2>7. Taken(q, p, f)
    BY <1>0, <2>2, <2>5, <2>6 DEF Taken
  <2>8. QED BY <1>0, <2>2, <2>3, <2>4, <2>7
<1>3. ASSUME f \in Signals \/ f \in Requests
      PROVE  /\ f.code \in Bytes /\ TextOf(f) = << >> /\ MessageOf(f) = << >>
             /\ Encoded(f) = <<IAC, f.code>> \o f.data
  <2>1. /\ f.kind = "signal" \/ f.kind = "request"
        /\ f.code \in Bytes
    BY <1>3 DEF Signals, Requests, Bytes, SE, SB, Verbs
  <2>2. QED BY <2>1 DEF Encoded, TextOf, MessageOf
<1>4. ASSUME f.code \in Bytes
      PROVE  LET x == AddBytes(p, <<IAC, f.code>>)
             IN  /\ x \in Processors /\ x.clean = p.clean /\ x.heard = p.heard
                 /\ x.state = IF f.code \in Verbs THEN "InIAC" ELSE IF f.code = SB THEN "InSB" ELSE "Base"
  <2> DEFINE a == AddByte(p, IAC)
             x == AddByte(a, f.code)
  <2>1. AddBytes(p, <<IAC, f.code>>) = x
    BY <1>1, <1>4, TwoBytes
  <2>2. a \in Processors /\ Follows(a, p, IAC)
    BY <1>1, AddByteStays, AddByteFields
  <2> HIDE DEF a
  <2>3. x \in Processors /\ Follows(x, a, f.code)
    BY <1>4, <2>2, AddByteStays, AddByteFields
  <2> HIDE DEF x
  <2>4. a.state = "InIAC" /\ a.clean = p.clean /\ a.heard = p.heard
    BY <2>2 DEF Follows
  <2>5. x.state = (IF f.code \in Verbs THEN "InIAC" ELSE IF f.code = SB THEN "InSB" ELSE "Base")
        /\ x.clean = p.clean /\ x.heard = p.heard
    BY <2>3, <2>4 DEF Follows
  <2>6. QED BY <2>1, <2>3, <2>5
<1>5. CASE f \in Signals
  <2> DEFINE x == AddBytes(p, <<IAC, f.code>>)
  <2>1. f.data = << >> /\ f.code \notin Verbs /\ f.code # SB
    BY <1>5 DEF Signals, Verbs, SB, SE
  <2>2. /\ f.code \in Bytes /\ TextOf(f) = << >> /\ MessageOf(f) = << >>
        /\ Encoded(f) = <<IAC, f.code>> \o f.data
    BY <1>3, <1>5
  <2>3. Encoded(f) = <<IAC, f.code>> /\ <<IAC, f.code>> \in Seq(Bytes)
    BY <1>1, <2>1, <2>2
  <2>4. x \in Processors /\ x.clean = p.clean /\ x.heard = p.heard /\ x.state = "Base"
    BY <1>4, <2>1, <2>2
  <2> HIDE DEF x
  <2>5. Taken(x, p, f)
    BY <1>0, <2>2, <2>4 DEF Taken
  <2>6. QED BY <1>0, <2>2, <2>3, <2>5 DEF x
<1>6. CASE f \in Requests
  <2> DEFINE e == <<IAC, f.code>>
             x == AddBytes(p, e)
  <2>1. PICK o \in Bytes \ (SB..254) : f.data = <<o>>
    BY <1>6 DEF Requests
  <2>2. o \in Bytes /\ o \notin Verbs /\ o # SB /\ f.code \in Verbs
    BY <1>6, <2>1 DEF Requests, Verbs, SB, Bytes
  <2>3. /\ f.code \in Bytes /\ TextOf(f) = << >> /\ MessageOf(f) = << >>
        /\ Encoded(f) = e \o <<o>>
    BY <1>3, <1>6, <2>1
  <2>4. e \in Seq(Bytes) /\ <<o>> \in Seq(Bytes) /\ Encoded(f) \in Seq(Bytes)
    BY <1>1, <2>2, <2>3
  <2>5. x \in Processors /\ x.clean = p.clean /\ x.heard = p.heard /\ x.state = "InIAC"
    BY <1>4, <2>2, <2>3
  <2> HIDE DEF e
  <2>6. AddBytes(p, e \o <<o>>) = AddBytes(x, <<o>>)
    <3> DEFINE u == <<o>>
    <3>1. u \in Seq(Bytes)
      BY <2>4
    <3> HIDE DEF u
    <3>2. AddBytes(p, e \o u) = AddBytes(AddBytes(p, e), u)
      BY <2>4, <3>1, AddBytesIs
    <3>3. QED BY <3>2 DEF u
  <2> HIDE DEF x
  <2> DEFINE y == AddByte(x, o)
  <2>7. AddBytes(x, <<o>>) = y
    BY <2>2, <2>4, <2>5, AddBytesIs
  <2>8. y \in Processors /\ Follows(y, x, o)
    BY <2>2, <2>5, AddByteStays, AddByteFields
  <2> HIDE DEF y
  <2>9. y.state = "Base" /\ y.clean = p.clean /\ y.heard = p.heard
    BY <2>2, <2>5, <2>8 DEF Follows
  <2>10. Taken(y, p, f)
    BY <1>0, <2>3, <2>8, <2>9 DEF Taken
  <2>11. QED BY <1>0, <2>3, <2>4, <2>6, <2>7, <2>10
<1>7. CASE f \in Reports
  <2>1. f.kind = "report" /\ f.code \in Bytes /\ f.data \in Seq(Bytes)
    BY <1>7 DEF Reports
  <2>2. /\ TextOf(f) = << >> /\ MessageOf(f) = << [code |-> f.code, data |-> f.data] >>
        /\ Encoded(f) = (<<IAC, SB, f.code>> \o Doubled(f.data)) \o <<IAC, SE>>
    BY <2>1 DEF TextOf, MessageOf, Encoded
  <2>3. MessageOf(f) \in Seq(Messages)
    <3>1. [code |-> f.code, data |-> f.data] \in Messages
      BY <2>1 DEF Messages
    <3> HIDE DEF Messages
    <3>2. QED BY <2>2, <3>1
  <2> DEFINE m == [code |-> f.code, data |-> f.data]
             e == <<IAC, SB, f.code>>
             d == Doubled(f.data)
             u == <<IAC, SE>>
             h == <<IAC, SB>>
             k == <<f.code>>
  <2>4. /\ e \in Seq(Bytes) /\ d \in Seq(Bytes) /\ u \in Seq(Bytes) /\ h \in Seq(Bytes) /\ k \in Seq(Bytes)
        /\ e = h \o k
    BY <1>1, <2>1, DoubledIs
  <2> DEFINE v == AddBytes(p, h)
             w == AddByte(v, f.code)
             x == AddBytes(w, d)
             y == AddByte(x, IAC)
             z == AddByte(y, SE)
  <2>5. v \in Processors /\ v.clean = p.clean /\ v.heard = p.heard /\ v.state = "InSB"
    <3> DEFINE a == AddByte(p, IAC)
               b == AddByte(a, SB)
    <3>1. v = b
      BY <1>1, TwoBytes
    <3>2. a \in Processors /\ Follows(a, p, IAC)
      BY <1>1, AddByteStays, AddByteFields
    <3> HIDE DEF a
    <3>3. b \in Processors /\ Follows(b, a, SB)
      BY <1>1, <3>2, AddByteStays, AddByteFields
    <3> HIDE DEF b
    <3>4. a.state = "InIAC" /\ a.clean = p.clean /\ a.heard = p.heard
      BY <3>2 DEF Follows
    <3>5. b.state = "InSB" /\ b.clean = p.clean /\ b.heard = p.heard
      BY <1>1, <3>3, <3>4 DEF Follows
    <3>6. QED BY <3>1, <3>3, <3>5
  <2>6. AddBytes(p, e) = w
    <3>1. AddBytes(v, k) = w
      BY <2>1, <2>4, <2>5, AddBytesIs
    <3> HIDE DEF v, h, k, e, w
    <3>2. AddBytes(p, h \o k) = AddBytes(v, k)
      BY <2>4, AddBytesIs DEF v
    <3>3. QED BY <2>4, <3>1, <3>2
  <2> HIDE DEF v
  <2>7. w \in Processors /\ Follows(w, v, f.code)
    BY <2>1, <2>5, AddByteStays, AddByteFields
  <2> HIDE DEF w
  <2>8. w.state = "CapSB" /\ w.sub = << >> /\ w.sb = f.code /\ w.clean = p.clean /\ w.heard = p.heard
    BY <2>5, <2>7 DEF Follows
  <2>9. /\ x \in Processors /\ x.state = "CapSB" /\ x.sub = f.data
        /\ x.sb = f.code /\ x.clean = p.clean /\ x.heard = p.heard
    BY <2>1, <2>7, <2>8, DataIsTaken
  <2>10. AddBytes(p, (e \o d) \o u) = AddBytes(x, u)
    <3> HIDE DEF e, d, u
    <3>1. e \o d \in Seq(Bytes)
      BY <2>4
    <3>0. ASSUME NEW s \in Seq(Bytes), NEW r \in Seq(Bytes)
          PROVE  AddBytes(p, s \o r) = AddBytes(AddBytes(p, s), r)
      BY AddBytesIs
    <3>2. AddBytes(p, (e \o d) \o u) = AddBytes(AddBytes(p, e \o d), u)
      BY <2>4, <3>0, <3>1
    <3>3. AddBytes(p, e \o d) = x
      BY <2>4, <2>6, <3>0 DEF x
    <3>4. QED BY <3>2, <3>3
  <2> HIDE DEF x
  <2>11. AddBytes(x, u) = z
    BY <1>1, <2>9, TwoBytes
  <2>12. y \in Processors /\ Follows(y, x, IAC)
    BY <1>1, <2>9, AddByteStays, AddByteFields
  <2> HIDE DEF y
  <2>13. z \in Processors /\ Follows(z, y, SE)
    BY <1>1, <2>12, AddByteStays, AddByteFields
  <2> HIDE DEF z
  <2>14. /\ y.state = "EscIAC" /\ y.sub = f.data /\ y.sb = f.code
         /\ y.clean = p.clean /\ y.heard = p.heard
    BY <2>9, <2>12 DEF Follows
  <2>15. z.state = "Base" /\ z.clean = p.clean /\ z.heard = Append(p.heard, m)
    BY <1>1, <2>13, <2>14 DEF Follows
  <2>16. Append(p.heard, m) = p.heard \o <<m>>
    <3>1. m \in Messages
      BY <2>1 DEF Messages
    <3> HIDE DEF m, Messages
    <3>2. QED BY <1>0, <3>1, AppendIsConcat
  <2>17. Taken(z, p, f)
    BY <1>0, <2>2, <2>13, <2>15, <2>16 DEF Taken
  <2>18. Encoded(f) \in Seq(Bytes)
    <3> HIDE DEF e, d, u
    <3>1. (e \o d) \o u \in Seq(Bytes)
      BY <2>4
    <3>2. QED BY <2>2, <3>1 DEF e, d, u
  <2>19. AddBytes(p, Encoded(f)) = z
    BY <2>2, <2>10, <2>11
  <2>20. QED BY <2>3, <2>17, <2>18, <2>19
<1>8. f \in Keys \/ f \in Signals \/ f \in Requests \/ f \in Reports
  BY TelnetAssumption DEF TelnetAssumption
<1>9. QED BY <1>2, <1>5, <1>6, <1>7, <1>8

-----------------------------------------------------------------------------
(* What was typed, announced and read                                      *)

\* The windows that messages make one after another.
HeardAll(w, s) == FoldLeft(Heard, w, s)

\* Message after message.
LEMMA HeardAllIs ==
    ASSUME NEW w \in Windows, NEW s \in Seq(Messages)
    PROVE  /\ HeardAll(w, << >>) = w
           /\ HeardAll(w, s) \in Windows
           /\ \A u \in Seq(Messages) : HeardAll(w, s \o u) = HeardAll(HeardAll(w, s), u)
           /\ \A m \in Messages : HeardAll(w, <<m>>) = Heard(w, m)
<1> HIDE DEF Messages
<1> DEFINE e == << >>
<1>0. e \in Seq(Messages)
  OBVIOUS
<1>1. Steps(HeardStep, Windows, Messages)
  BY <1>0, HeardFolds
<1>2. ASSUME NEW v \in Windows, NEW r \in Seq(Messages) PROVE HeardAll(v, r) = Folded(HeardStep, v, r)
  BY HeardFolds DEF HeardAll
<1>3. HeardAll(w, e) = w
  BY <1>0, <1>1, <1>2, FoldedNone
<1>4. ASSUME NEW r \in Seq(Messages), NEW u \in Seq(Messages)
      PROVE  /\ Folded(HeardStep, w, r) \in Windows
             /\ Folded(HeardStep, w, r \o u) = Folded(HeardStep, Folded(HeardStep, w, r), u)
  BY <1>1, FoldedConcat
<1>5. HeardAll(w, s) \in Windows
  BY <1>0, <1>2, <1>4
<1>6. ASSUME NEW u \in Seq(Messages) PROVE HeardAll(w, s \o u) = HeardAll(HeardAll(w, s), u)
  <2> DEFINE x == HeardAll(w, s)
             r == s \o u
  <2>1. r \in Seq(Messages) /\ x \in Windows
    BY <1>5
  <2>2. x = Folded(HeardStep, w, s)
    BY <1>2
  <2>3. Folded(HeardStep, w, r) = Folded(HeardStep, x, u)
    BY <1>4, <2>2
  <2> HIDE DEF r, x
  <2>4. HeardAll(w, r) = HeardAll(x, u)
    BY <1>2, <2>1, <2>3
  <2>5. QED BY <2>4 DEF r, x
<1>7. ASSUME NEW m \in Messages PROVE HeardAll(w, <<m>>) = Heard(w, m)
  <2> DEFINE r == <<m>>
  <2>1. r \in Seq(Messages)
    OBVIOUS
  <2>2. Folded(HeardStep, w, r) = HeardStep[<<w, m>>]
    BY <1>1, FoldedOne
  <2> HIDE DEF r
  <2>3. HeardAll(w, r) = Folded(HeardStep, w, r)
    BY <1>2, <2>1
  <2>4. QED BY <2>2, <2>3 DEF r, HeardStep
<1>8. QED BY <1>3, <1>5, <1>6, <1>7

\* What was announced, and what was typed, with a phrase more.
LEMMA PhraseMore ==
    ASSUME NEW s \in Seq(Phrases), NEW f \in Phrases
    PROVE  /\ Announced(<< >>) = NoWindow /\ Typed(<< >>) = << >>
           /\ Announced(s) \in Sizes /\ Announced(Append(s, f)) = Report(Announced(s), f)
           /\ Typed(s) \in Texts /\ Typed(Append(s, f)) = Typed(s) \o TextOf(f)
<1> DEFINE e == << >>
           a == Append(s, f)
<1>1. e \in Seq(Phrases) /\ a \in Seq(Phrases) /\ e \in Texts /\ NoWindow \in Sizes
  <2>1. e \in Seq(Phrases) /\ e \in Texts
    BY DEF Texts
  <2>2. NoWindow \in Sizes
    BY DEF Sizes, NoWindow
  <2>3. QED BY <2>1, <2>2, AppendProperties
<1>2. Steps(ReportStep, Sizes, Phrases) /\ Steps(TypedStep, Texts, Phrases)
  BY AnnouncedFolds, TypedFolds
<1>3. ASSUME NEW r \in Seq(Phrases)
      PROVE  Announced(r) = Folded(ReportStep, NoWindow, r) /\ Typed(r) = Folded(TypedStep, e, r)
  BY AnnouncedFolds, TypedFolds
<1> HIDE DEF e
<1>4. Announced(e) = NoWindow /\ Typed(e) = e
  <2>1. Folded(ReportStep, NoWindow, << >>) = NoWindow /\ Folded(TypedStep, e, << >>) = e
    BY <1>1, <1>2, FoldedNone
  <2>2. QED BY <1>1, <1>3, <2>1 DEF e
<1>5. /\ Folded(ReportStep, NoWindow, s) \in Sizes
      /\ Folded(ReportStep, NoWindow, a) = ReportStep[<<Folded(ReportStep, NoWindow, s), f>>]
  BY <1>1, <1>2, FoldedAppend
<1>6. /\ Folded(TypedStep, e, s) \in Texts
      /\ Folded(TypedStep, e, a) = TypedStep[<<Folded(TypedStep, e, s), f>>]
  BY <1>1, <1>2, FoldedAppend
<1> HIDE DEF a
<1>7. Announced(s) \in Sizes /\ Announced(a) = ReportStep[<<Announced(s), f>>]
  BY <1>1, <1>3, <1>5
<1>8. Typed(s) \in Texts /\ Typed(a) = TypedStep[<<Typed(s), f>>]
  BY <1>1, <1>3, <1>6
<1>9. QED BY <1>4, <1>7, <1>8 DEF a, e, ReportStep, TypedStep

\* A text, cut.
CutAll(c, s) == FoldLeft(Cut, c, s)

\* Byte after byte.
LEMMA CutAllIs ==
    ASSUME NEW c \in Cuttings, NEW s \in Texts
    PROVE  /\ CutAll(c, << >>) = c
           /\ CutAll(c, s) \in Cuttings
           /\ \A u \in Texts : CutAll(c, s \o u) = CutAll(CutAll(c, s), u)
           /\ \A b \in Bytes : CutAll(c, Append(s, b)) = Cut(CutAll(c, s), b)
<1> DEFINE e == << >>
<1>0. e \in Texts
  BY DEF Texts
<1>1. Steps(CutStep, Cuttings, Bytes)
  BY <1>0, CutFolds DEF Texts
<1>2. ASSUME NEW v \in Cuttings, NEW r \in Texts PROVE CutAll(v, r) = Folded(CutStep, v, r)
  BY CutFolds DEF CutAll, Texts
<1>3. CutAll(c, e) = c
  BY <1>0, <1>1, <1>2, FoldedNone
<1>4. ASSUME NEW r \in Texts, NEW u \in Texts
      PROVE  /\ Folded(CutStep, c, r) \in Cuttings
             /\ Folded(CutStep, c, r \o u) = Folded(CutStep, Folded(CutStep, c, r), u)
  BY <1>1, FoldedConcat DEF Texts
<1>5. CutAll(c, s) \in Cuttings
  BY <1>0, <1>2, <1>4
<1>6. ASSUME NEW u \in Texts PROVE CutAll(c, s \o u) = CutAll(CutAll(c, s), u)
  <2> DEFINE x == CutAll(c, s)
             r == s \o u
  <2>1. r \in Texts /\ x \in Cuttings
    BY <1>5 DEF Texts
  <2>2. x = Folded(CutStep, c, s)
    BY <1>2
  <2>3. Folded(CutStep, c, r) = Folded(CutStep, x, u)
    BY <1>4, <2>2
  <2> HIDE DEF r, x
  <2>4. CutAll(c, r) = CutAll(x, u)
    BY <1>2, <2>1, <2>3
  <2>5. QED BY <2>4 DEF r, x
<1>7. ASSUME NEW b \in Bytes PROVE CutAll(c, Append(s, b)) = Cut(CutAll(c, s), b)
  <2> DEFINE x == CutAll(c, s)
             r == Append(s, b)
  <2>1. r \in Texts /\ x \in Cuttings
    BY <1>5 DEF Texts
  <2>2. x = Folded(CutStep, c, s)
    BY <1>2
  <2>3. Folded(CutStep, c, r) = CutStep[<<x, b>>]
    BY <1>1, <2>2, FoldedAppend DEF Texts
  <2> HIDE DEF r, x
  <2>4. CutAll(c, r) = CutStep[<<x, b>>]
    BY <1>2, <2>1, <2>3
  <2>5. QED BY <2>1, <2>4 DEF r, x, CutStep
<1>8. QED BY <1>3, <1>5, <1>6, <1>7

-----------------------------------------------------------------------------
(* A text read when lines g have been got: no byte but the last completes   *)
(* one more.                                                                *)

Readings == Cuttings \X BOOLEAN
ReadByte(g, y, b) == <<Cut(y[1], b), y[2] /\ y[1].got = g>>
ReadByteStep(g) == [z \in Readings \X Bytes |-> ReadByte(g, z[1], z[2])]
ReadText(g, x, s) == Folded(ReadByteStep(g), x, s)

\* A byte is read ...
LEMMA ReadByteSteps ==
    ASSUME NEW g
    PROVE  Steps(ReadByteStep(g), Readings, Bytes)
<1>1. \A z \in Readings \X Bytes : <<Cut(z[1][1], z[2]), z[1][2] /\ z[1][1].got = g>> \in Readings
  <2>1. ASSUME NEW z \in Readings \X Bytes
          PROVE  Cut(z[1][1], z[2]) \in Cuttings
    <3>1. z[1][1] \in Cuttings /\ z[2] \in Bytes
        BY DEF Readings
    <3>2. QED BY <3>1, CutStays
  <2>2. QED BY <2>1 DEF Readings
<1>2. QED BY <1>1 DEF Steps, ReadByteStep, ReadByte

\* ... after the others.
LEMMA ReadTextMore ==
    ASSUME NEW g, NEW x \in Readings, NEW s \in Texts, NEW b \in Bytes
    PROVE  ReadText(g, x, Append(s, b)) = ReadByte(g, ReadText(g, x, s), b)
<1> DEFINE B == ReadByteStep(g)
           y == Folded(B, x, s)
<1>1. Steps(B, Readings, Bytes)
  BY ReadByteSteps
<1> HIDE DEF B
<1>2. y \in Readings /\ Folded(B, x, Append(s, b)) = B[<<y, b>>]
  BY <1>1, FoldedAppend DEF Texts
<1> HIDE DEF y
<1>3. B[<<y, b>>] = ReadByte(g, y, b)
  BY <1>2 DEF B, ReadByteStep
<1>4. Folded(B, x, Append(s, b)) = ReadByte(g, y, b)
  BY <1>2, <1>3
<1>5. QED BY <1>4 DEF ReadText, B, y

\* Nothing read is nothing changed.
LEMMA ReadTextIs ==
    ASSUME NEW g, NEW x \in Readings, NEW s \in Texts
    PROVE  /\ ReadText(g, x, << >>) = x
           /\ ReadText(g, x, s) \in Readings
<1> DEFINE e == << >>
           B == ReadByteStep(g)
<1>0. e \in Texts
  BY DEF Texts
<1>1. Steps(B, Readings, Bytes)
  BY ReadByteSteps
<1> HIDE DEF B, e
<1>2. ReadText(g, x, e) = x
  BY <1>0, <1>1, FoldedNone DEF ReadText, B, e
<1>3. ASSUME NEW r \in Texts, NEW u \in Texts
      PROVE  /\ Folded(B, x, r) \in Readings
             /\ Folded(B, x, r \o u) = Folded(B, Folded(B, x, r), u)
  BY <1>1, FoldedConcat DEF Texts
<1>5. Folded(B, x, s) \in Readings
  BY <1>0, <1>3
<1>6. QED BY <1>2, <1>3, <1>5 DEF ReadText, B, e

\* One text is read after another.
LEMMA ReadTextOn ==
    ASSUME NEW g, NEW x \in Readings, NEW s \in Texts, NEW u \in Texts
    PROVE  ReadText(g, x, s \o u) = ReadText(g, ReadText(g, x, s), u)
<1> DEFINE B == ReadByteStep(g)
<1>1. Steps(B, Readings, Bytes)
  BY ReadByteSteps
<1> HIDE DEF B
<1>2. Folded(B, x, s \o u) = Folded(B, Folded(B, x, s), u)
  BY <1>1, FoldedConcat DEF Texts
<1>3. QED BY <1>2 DEF ReadText, B

\* However it is read, a text is cut alike.
LEMMA ReadTextCuts ==
    ASSUME NEW g, NEW x \in Readings, NEW s \in Texts
    PROVE  ReadText(g, x, s)[1] = CutAll(x[1], s)
<1> DEFINE P == {r \in Texts : ReadText(g, x, r)[1] = CutAll(x[1], r)}
<1>0. x[1] \in Cuttings
  BY DEF Readings
<1>9. ASSUME NEW r \in Texts, NEW b \in Bytes
      PROVE  ReadText(g, x, Append(r, b)) = ReadByte(g, ReadText(g, x, r), b)
  BY ReadTextMore
<1>1. << >> \in P
  <2>1. << >> \in Texts
    BY DEF Texts
  <2>2. QED BY <1>0, <2>1, ReadTextIs, CutAllIs
<1>2. ASSUME NEW r \in P, NEW b \in Bytes PROVE Append(r, b) \in P
  <2>1. r \in Texts /\ ReadText(g, x, r)[1] = CutAll(x[1], r)
    OBVIOUS
  <2>2. Append(r, b) \in Texts
    BY <2>1 DEF Texts
  <2>3. ReadText(g, x, Append(r, b))[1] = Cut(ReadText(g, x, r)[1], b)
    <3> DEFINE y == ReadText(g, x, r)
    <3>1. ReadText(g, x, Append(r, b)) = ReadByte(g, y, b)
      BY <2>1, <1>9
    <3> HIDE DEF y
    <3>2. ReadText(g, x, Append(r, b))[1] = Cut(y[1], b)
      BY <3>1 DEF ReadByte
    <3>3. QED BY <3>2 DEF y
  <2>4. CutAll(x[1], Append(r, b)) = Cut(CutAll(x[1], r), b)
    BY <1>0, <2>1, CutAllIs
  <2>5. QED BY <2>1, <2>2, <2>3, <2>4
<1>3. P = Texts
  <2>1. P \in SUBSET Seq(Bytes) /\ Texts = Seq(Bytes)
    BY DEF Texts
  <2> HIDE DEF P, Bytes, Texts
  <2>2. QED BY <1>1, <1>2, <2>1, SeqSetInduction
<1>4. QED BY <1>3

\* What has no end of line only makes the line longer.
LEMMA ReadTextNoEnd ==
    ASSUME NEW g, NEW x \in Readings, x[1].got = g, NEW s \in Texts,
           \A i \in 1..Len(s) : s[i] # LF
    PROVE  ReadText(g, x, s) = <<[line |-> x[1].line \o s, got |-> g], x[2]>>
<1> DEFINE Open(r) == <<[line |-> x[1].line \o r, got |-> g], x[2]>>
           P == {r \in Texts : (\A i \in 1..Len(r) : r[i] # LF) => ReadText(g, x, r) = Open(r)}
<1>0. x[1].line \in Texts /\ x[1] = [line |-> x[1].line, got |-> g] /\ x = <<x[1], x[2]>> /\ x[2] \in BOOLEAN
  BY DEF Readings, Cuttings
<1>9. ASSUME NEW r \in Texts, NEW b \in Bytes
      PROVE  ReadText(g, x, Append(r, b)) = ReadByte(g, ReadText(g, x, r), b)
  BY ReadTextMore
<1>1. << >> \in P
  <2>1. << >> \in Texts /\ x[1].line \o << >> = x[1].line
    BY <1>0 DEF Texts
  <2>2. ReadText(g, x, << >>) = x
    BY <2>1, ReadTextIs
  <2>3. QED BY <1>0, <2>1, <2>2
<1>2. ASSUME NEW r \in P, NEW b \in Bytes PROVE Append(r, b) \in P
  <2> DEFINE a == Append(r, b)
             y == ReadText(g, x, r)
  <2>1. r \in Texts
    OBVIOUS
  <2>2. a \in Texts /\ Len(a) = Len(r) + 1 /\ a[Len(r) + 1] = b /\ Len(r) \in Nat
        /\ \A i \in 1..Len(r) : a[i] = r[i]
    BY <2>1 DEF Texts
  <2>3. ASSUME \A i \in 1..Len(a) : a[i] # LF PROVE ReadText(g, x, a) = Open(a)
    <3>1. b # LF /\ \A i \in 1..Len(r) : r[i] # LF
      BY <2>2, <2>3
    <3>2. y = Open(r)
      BY <3>1
    <3>3. ReadText(g, x, a) = ReadByte(g, y, b)
      BY <2>1, <1>9
    <3>4. Cut(y[1], b) = [line |-> Append(x[1].line \o r, b), got |-> g]
      <4> DEFINE c == y[1]
                 l == x[1].line \o r
      <4>1. c = [line |-> l, got |-> g]
        BY <3>2
      <4> HIDE DEF c, l
      <4>2. Cut(c, b) = [line |-> Append(l, b), got |-> g]
        BY <3>1, <4>1 DEF Cut
      <4>3. QED BY <4>2 DEF c, l
    <3>5. Append(x[1].line \o r, b) = x[1].line \o a
      <4> DEFINE l == x[1].line
                 o == <<b>>
      <4>1. l \in Seq(Bytes) /\ r \in Seq(Bytes) /\ o \in Seq(Bytes) /\ l \o r \in Seq(Bytes)
        BY <1>0, <2>1 DEF Texts
      <4>2. Append(l \o r, b) = (l \o r) \o o /\ Append(r, b) = r \o o
        BY <4>1, AppendIsConcat
      <4> HIDE DEF l, o
      <4>3. (l \o r) \o o = l \o (r \o o)
        BY ONLY <4>1, ConcatAssociative
      <4>4. QED BY <4>2, <4>3 DEF l
    <3>6. (y[2] /\ y[1].got = g) = x[2]
      BY <1>0, <3>2
    <3>7. QED BY <3>3, <3>4, <3>5, <3>6 DEF ReadByte
  <2>4. QED BY <2>2, <2>3
<1>3. P = Texts
  <2>1. P \in SUBSET Seq(Bytes) /\ Texts = Seq(Bytes)
    BY DEF Texts
  <2> HIDE DEF P, Bytes, Texts
  <2>2. QED BY <1>1, <1>2, <2>1, SeqSetInduction
<1>4. QED BY <1>3

\* A line too many, and there is nothing after it.
LEMMA ReadTextFails ==
    ASSUME NEW g, NEW x \in Readings, x[1].got # g, NEW s \in Texts, ReadText(g, x, s)[2] = TRUE
    PROVE  s = << >>
<1> DEFINE P == {r \in Texts : r # << >> => ReadText(g, x, r)[2] = FALSE}
<1>9. ASSUME NEW r \in Texts, NEW b \in Bytes
      PROVE  ReadText(g, x, Append(r, b)) = ReadByte(g, ReadText(g, x, r), b)
  BY ReadTextMore
<1>1. << >> \in P
  BY DEF Texts
<1>2. ASSUME NEW r \in P, NEW b \in Bytes PROVE Append(r, b) \in P
  <2> DEFINE y == ReadText(g, x, r)
  <2>1. r \in Texts /\ Append(r, b) \in Texts
    BY DEF Texts
  <2>2. ReadText(g, x, Append(r, b)) = ReadByte(g, y, b)
    BY <2>1, <1>9
  <2>3. ReadText(g, x, Append(r, b))[2] = (y[2] /\ y[1].got = g)
    BY <2>2 DEF ReadByte
  <2>4. CASE r = << >>
    <3>1. y = x
      BY <2>4, <2>1, ReadTextIs
    <3>2. QED BY <2>1, <2>3, <3>1
  <2>5. CASE r # << >>
    <3>1. y[2] = FALSE
      BY <2>5
    <3>2. QED BY <2>1, <2>3, <3>1
  <2>6. QED BY <2>4, <2>5
<1>3. P = Texts
  <2>1. P \in SUBSET Seq(Bytes) /\ Texts = Seq(Bytes)
    BY DEF Texts
  <2> HIDE DEF P, Bytes, Texts
  <2>2. QED BY <1>1, <1>2, <2>1, SeqSetInduction
<1>4. QED BY <1>3

-----------------------------------------------------------------------------
(* The inductive invariant                                                 *)

\* Lines got, and a line of which nothing is read.
Fresh(g) == [line |-> << >>, got |-> g]

\* Reading on from lines g, the rest of the text gives what is to be got, and
\* one line of it at most.
ReadsOn(g, rest, text) == ReadText(g, <<Fresh(g), TRUE>>, rest) = <<CutAll(Fresh(<< >>), text), TRUE>>

\* Where a side announced is short, it is known.
Agrees(a, w) == \A side \in 1..2 : a[side] < 256 => w[side] = a[side]

\* What the processor will have made of the wire; the text not yet read.
Decoded   == AddBytes(processor, wire)
Remaining == scanner \o Decoded.clean

\* Types, and a processor that has told everything.
TelnetShape ==
    /\ wire \in Texts /\ processor \in Processors /\ processor.heard = << >>
    /\ scanner \in Texts /\ lines \in Seq(Texts) /\ window \in Windows
    /\ sent \in Seq(Phrases) /\ hungUp \in BOOLEAN /\ typedAhead \in BOOLEAN

\* The wire ends between phrases; the window is as announced once the wire is
\* read; and so are the lines got once the text is, if the client waits.
TelnetInv ==
    /\ TelnetShape
    /\ Decoded.state = "Base"
    /\ Agrees(Announced(sent), HeardAll(window, Decoded.heard))
    /\ (~typedAhead /\ ~hungUp) => ReadsOn(lines, Remaining, Typed(sent))

\* A new line is open.
LEMMA FreshIs ==
    ASSUME NEW g \in Seq(Texts)
    PROVE  Fresh(g) \in Cuttings /\ <<Fresh(g), TRUE>> \in Readings
           /\ Fresh(g).line = << >> /\ Fresh(g).got = g
<1> DEFINE G == Seq(Texts)
<1>1. << >> \in Texts
  BY DEF Texts
<1> HIDE DEF G
<1>2. Fresh(g) \in [line : Texts, got : G]
  BY <1>1 DEF Fresh, G
<1>3. QED BY <1>2 DEF Fresh, Readings, Cuttings, G

\* Of what processor p has made of bytes, a, the text c is handed out: q is left.
HandsOut(p, bytes, a, c, d, q) ==
    /\ a = AddBytes(p, bytes) /\ a.clean = c \o d
    /\ q = [a EXCEPT !.clean = d, !.heard = << >>]

\* What has been handed out is as if it had been in the wire still.
LEMMA HandedOut ==
    ASSUME NEW p \in Processors, NEW bytes \in Texts, NEW more \in Texts,
           NEW c \in Texts, NEW d \in Texts, NEW a, NEW q, HandsOut(p, bytes, a, c, d, q)
    PROVE  /\ q \in Processors /\ q.heard = << >> /\ a.heard \in Seq(Messages)
           /\ AddBytes(q, more) \in Processors
           /\ AddBytes(p, bytes \o more) = Preceded(AddBytes(q, more), c, a.heard)
<1>0. /\ a = AddBytes(p, bytes) /\ a.clean = c \o d
      /\ q = [a EXCEPT !.clean = d, !.heard = << >>]
  BY DEF HandsOut
<1> DEFINE B == Seq(Bytes)
           M == Seq(Messages)
           States == {"Base", "InIAC", "InSB", "CapSB", "EscIAC"}
<1>1. Processors = [state : States, sb : Bytes, sub : B, clean : B, heard : M]
  BY DEF Processors
<1>2. c \in B /\ d \in B /\ bytes \in B /\ more \in B /\ << >> \in B /\ << >> \in M
  BY DEF Texts
<1>3. a \in Processors
  BY <1>0, <1>2, AddBytesIs
<1>4. AddBytes(p, bytes \o more) = AddBytes(a, more)
  BY <1>0, <1>2, AddBytesIs
<1>5. q \in Processors /\ a.heard \in M /\ q.state = a.state /\ q.sb = a.sb /\ q.sub = a.sub
      /\ q.clean = d /\ q.heard = << >>
  <2> HIDE DEF B, M, Bytes, States
  <2>1. QED BY <1>0, <1>1, <1>2, <1>3
<1>6. Preceded(q, c, a.heard) = a
  <2> DEFINE b == Preceded(q, c, a.heard)
             h == a.heard
  <2>1. /\ b \in Processors /\ b.state = q.state /\ b.sb = q.sb /\ b.sub = q.sub
        /\ b.clean = c \o q.clean /\ b.heard = a.heard \o q.heard
    <3> HIDE DEF h, Messages
    <3>1. h \in Seq(Messages) /\ c \in Seq(Bytes) /\ q \in Processors
      BY <1>2, <1>5 DEF h
    <3>2. /\ Preceded(q, c, h) \in Processors /\ Preceded(q, c, h).state = q.state /\ Preceded(q, c, h).sb = q.sb
          /\ Preceded(q, c, h).sub = q.sub
          /\ Preceded(q, c, h).clean = c \o q.clean /\ Preceded(q, c, h).heard = h \o q.heard
      BY ONLY <3>1, BeforeIs
    <3>3. QED BY <3>2 DEF h
  <2>2. a.heard \o << >> = a.heard
    <3> HIDE DEF Messages
    <3>1. QED BY <1>5
  <2> HIDE DEF b
  <2>3. b.state = a.state /\ b.sb = a.sb /\ b.sub = a.sub /\ b.clean = a.clean /\ b.heard = a.heard
    BY <1>0, <1>5, <2>1, <2>2
  <2>4. b = a
    BY ONLY <1>3, <2>1, <2>3, SameProcessor
  <2>5. QED BY <2>4 DEF b
<1>7. AddBytes(q, more) \in Processors
  BY <1>2, <1>5, AddBytesIs
<1>8. AddBytes(a, more) = Preceded(AddBytes(q, more), c, a.heard)
  BY <1>2, <1>5, <1>6, AddBytesAfter
<1>9. QED BY <1>4, <1>5, <1>7, <1>8

\* Nothing is on its way at first.
LEMMA TelnetStarts == TelnetInit => TelnetInv
<1> SUFFICES ASSUME TelnetInit PROVE TelnetInv
  OBVIOUS
<1> DEFINE B == Seq(Bytes)
           M == Seq(Messages)
           States == {"Base", "InIAC", "InSB", "CapSB", "EscIAC"}
           e == << >>
<1>1. Processors = [state : States, sb : Bytes, sub : B, clean : B, heard : M]
  BY DEF Processors
<1>2. e \in B /\ e \in M /\ NUL \in Bytes /\ e \in Texts /\ e \in Seq(Texts) /\ e \in Seq(Phrases)
  BY DEF Texts, NUL, Bytes
<1>3. processor = [state |-> "Base", sb |-> NUL, sub |-> e, clean |-> e, heard |-> e]
  BY DEF TelnetInit
<1>4. /\ processor \in Processors /\ processor.state = "Base"
      /\ processor.clean = e /\ processor.heard = e
  <2> HIDE DEF B, M, Bytes, e
  <2>1. QED BY <1>1, <1>2, <1>3
<1>5. wire = e /\ scanner = e /\ lines = e /\ window = NoWindow /\ sent = e
      /\ hungUp = FALSE /\ typedAhead = FALSE
  BY DEF TelnetInit
<1>6. NoWindow \in Windows
  BY DEF NoWindow, Windows
<1>7. TelnetShape
  BY <1>2, <1>4, <1>5, <1>6 DEF TelnetShape
<1>8. Decoded = processor
  BY <1>2, <1>4, <1>5, AddBytesIs DEF Decoded
<1>9. Announced(e) = NoWindow /\ Typed(e) = e
  <2>1. Announced(e) = Folded(ReportStep, NoWindow, e) /\ Steps(ReportStep, Sizes, Phrases)
    BY <1>2, AnnouncedFolds
  <2>2. Typed(e) = Folded(TypedStep, e, e) /\ Steps(TypedStep, Texts, Phrases)
    BY <1>2, TypedFolds
  <2>3. NoWindow \in Sizes
    BY DEF NoWindow, Sizes
  <2>4. Folded(ReportStep, NoWindow, e) = NoWindow
    BY <2>1, <2>3, FoldedNone
  <2>5. Folded(TypedStep, e, e) = e
    <3>1. ASSUME NEW v \in Texts PROVE Folded(TypedStep, v, << >>) = v
      BY <2>2, FoldedNone
    <3>2. QED BY <1>2, <3>1
  <2>6. QED BY <2>1, <2>2, <2>4, <2>5
<1>10. HeardAll(window, Decoded.heard) = NoWindow
  BY <1>2, <1>4, <1>5, <1>6, <1>8, HeardAllIs
<1>11. Remaining = e
  BY <1>4, <1>5, <1>8 DEF Remaining
<1>12. ReadsOn(lines, Remaining, Typed(sent))
  <2>1. ReadText(e, <<Fresh(e), TRUE>>, e) = <<Fresh(e), TRUE>>
    BY <1>2, FreshIs, ReadTextIs
  <2>2. CutAll(Fresh(e), e) = Fresh(e)
    BY <1>2, FreshIs, CutAllIs
  <2>3. QED BY <1>5, <1>9, <1>11, <2>1, <2>2 DEF ReadsOn
<1>13. Agrees(Announced(sent), HeardAll(window, Decoded.heard))
  BY <1>5, <1>9, <1>10 DEF Agrees
<1>14. QED BY <1>4, <1>7, <1>8, <1>12, <1>13 DEF TelnetInv

\* A text in two.
LEMMA SplitAt ==
    ASSUME NEW T, NEW s \in Seq(T), NEW k \in 0..Len(s)
    PROVE  /\ SubSeq(s, 1, k) \in Seq(T) /\ SubSeq(s, k + 1, Len(s)) \in Seq(T)
           /\ s = SubSeq(s, 1, k) \o SubSeq(s, k + 1, Len(s))
           /\ Len(SubSeq(s, 1, k)) = k /\ \A i \in 1..k : SubSeq(s, 1, k)[i] = s[i]
<1> DEFINE n == Len(s)
<1>1. n \in Nat /\ k \in 0..n /\ (\A i \in 1..n : s[i] \in T)
  BY LenProperties, ElementOfSeq
<1>2. \A i \in 1..k : s[i] \in T
  BY <1>1
<1>3. \A i \in (k + 1)..n : s[i] \in T
  BY <1>1
<1>4. k \in Int /\ k + 1 \in Int /\ n \in Int /\ 1 \in 1..(n + 1) /\ k \in (1 - 1)..n /\ n \in k..n
  BY <1>1
<1>5. SubSeq(s, 1, k) \in Seq(T) /\ Len(SubSeq(s, 1, k)) = (IF 1 <= k THEN k - 1 + 1 ELSE 0)
      /\ \A i \in 1..(k - 1 + 1) : SubSeq(s, 1, k)[i] = s[1 + i - 1]
  BY <1>2, <1>4, SubSeqProperties
<1>6. SubSeq(s, k + 1, n) \in Seq(T)
  <2> DEFINE m == k + 1
  <2>1. m \in Int /\ \A i \in m..n : s[i] \in T
    BY <1>3, <1>4
  <2> HIDE DEF m, n
  <2>2. SubSeq(s, m, n) \in Seq(T)
    BY <1>4, <2>1, SubSeqProperties
  <2>3. QED BY <2>2 DEF m, n
<1>7. SubSeq(s, 1, k) \o SubSeq(s, k + 1, n) = SubSeq(s, 1, n)
  BY <1>4, ConcatAdjacentSubSeq
<1>8. SubSeq(s, 1, n) = s
  BY SubSeqFull
<1>9. Len(SubSeq(s, 1, k)) = k
  BY <1>1, <1>5
<1>10. ASSUME NEW i \in 1..k PROVE SubSeq(s, 1, k)[i] = s[i]
  <2>1. i \in 1..(k - 1 + 1) /\ 1 + i - 1 = i
    BY <1>4
  <2>2. SubSeq(s, 1, k)[i] = s[1 + i - 1]
    BY <1>5, <2>1
  <2>3. QED BY <2>1, <2>2
<1>11. QED BY <1>5, <1>6, <1>7, <1>8, <1>9, <1>10

\* Reading moves bytes, and loses none.
LEMMA ReadKeeps ==
    ASSUME TelnetInv, TelnetRead
    PROVE  TelnetInv'
<1>1. PICK k \in 1..Min2(ReadSize, Len(wire)) :
         LET p == AddBytes(processor, SubSeq(wire, 1, k))
             n == Min2(BufferSize, Len(p.clean))
         IN  /\ wire' = SubSeq(wire, k + 1, Len(wire))
             /\ scanner' = scanner \o SubSeq(p.clean, 1, n)
             /\ processor' = [p EXCEPT !.clean = SubSeq(@, n + 1, Len(@)), !.heard = << >>]
             /\ window' = FoldLeft(Heard, window, p.heard)
  BY DEF TelnetRead
<1> DEFINE s == SubSeq(wire, 1, k)
           p == AddBytes(processor, s)
           t == p.clean
           n == Min2(BufferSize, Len(t))
           c == SubSeq(t, 1, n)
           d == SubSeq(t, n + 1, Len(t))
           m == SubSeq(wire, k + 1, Len(wire))
           x == AddBytes(processor, s \o m)
           y == AddBytes(processor', m)
<1>2. TelnetShape
  BY DEF TelnetInv
<1>3. /\ wire \in Texts /\ processor \in Processors /\ processor.heard = << >> /\ scanner \in Texts
      /\ lines \in Seq(Texts) /\ window \in Windows /\ sent \in Seq(Phrases)
      /\ hungUp \in BOOLEAN /\ typedAhead \in BOOLEAN
  BY <1>2 DEF TelnetShape
<1>4. k \in 0..Len(wire)
  <2>1. Len(wire) \in Nat /\ ReadSize \in Nat
    BY <1>3, LenProperties, TelnetAssumption DEF Texts, TelnetAssumption
  <2>2. QED BY <2>1 DEF Min2
<1>5. s \in Texts /\ m \in Texts /\ wire = s \o m
  BY <1>3, <1>4, SplitAt DEF Texts
<1>6. p \in Processors /\ t \in Texts
  <2>1. p \in Processors
    BY <1>3, <1>5, AddBytesIs DEF Texts
  <2> HIDE DEF p
  <2>2. QED BY <2>1 DEF Processors, Texts
<1>7. /\ wire' = m /\ scanner' = scanner \o c /\ window' = HeardAll(window, p.heard)
      /\ processor' = [p EXCEPT !.clean = d, !.heard = << >>]
  BY <1>1 DEF HeardAll
<1>8. lines' = lines /\ sent' = sent /\ hungUp' = hungUp /\ typedAhead' = typedAhead
  BY DEF TelnetRead
<1> HIDE DEF s, m
<1>9. n \in 0..Len(t)
  <2>1. Len(t) \in Nat /\ BufferSize \in Nat
    BY <1>6, LenProperties, TelnetAssumption DEF Texts, TelnetAssumption
  <2> HIDE DEF t
  <2>2. QED BY <2>1 DEF Min2
<1>10. c \in Texts /\ d \in Texts /\ t = c \o d
  <2> HIDE DEF t, n
  <2>1. QED BY <1>6, <1>9, SplitAt DEF Texts
<1>11. /\ processor' \in Processors /\ p.heard \in Seq(Messages)
       /\ x \in Processors /\ y \in Processors
       /\ x.state = y.state /\ x.clean = c \o y.clean /\ x.heard = p.heard \o y.heard
  <2> HIDE DEF c, d
  <2>1. /\ p = AddBytes(processor, s) /\ p.clean = c \o d
        /\ processor' = [p EXCEPT !.clean = d, !.heard = << >>]
    BY <1>7, <1>10
  <2> HIDE DEF p
  <2>2. /\ processor' \in Processors /\ p.heard \in Seq(Messages) /\ y \in Processors
        /\ x = Preceded(y, c, p.heard)
    <3>1. HandsOut(processor, s, p, c, d, processor')
      BY <2>1 DEF HandsOut
    <3>2. QED BY <1>3, <1>5, <1>10, <3>1, HandedOut
  <2> HIDE DEF x, y
  <2>3. QED BY <1>10, <2>2, BeforeIs DEF Texts
<1>12. x = Decoded /\ y = Decoded'
  BY <1>5, <1>7 DEF Decoded
<1>13. processor'.heard = << >>
  <2> HIDE DEF d
  <2>1. processor'.heard = [p EXCEPT !.clean = d, !.heard = << >>].heard
    BY <1>7
  <2> HIDE DEF p
  <2>2. [p EXCEPT !.clean = d, !.heard = << >>].heard = << >>
    BY <1>6 DEF Processors
  <2>3. QED BY <2>1, <2>2
<1> HIDE DEF x, y, c, d, n, t, p
<1>14. window' \in Windows /\ scanner' \in Texts
  BY <1>3, <1>7, <1>10, <1>11, HeardAllIs DEF Texts
<1>15. TelnetShape'
  BY <1>3, <1>5, <1>7, <1>8, <1>11, <1>13, <1>14 DEF TelnetShape
<1>16. y.heard \in Seq(Messages) /\ y.clean \in Texts
  BY <1>11 DEF Processors, Texts
<1>17. HeardAll(window, Decoded.heard) = HeardAll(window', Decoded'.heard)
  <2> DEFINE a == p.heard
             b == y.heard
  <2>1. a \in Seq(Messages) /\ b \in Seq(Messages) /\ x.heard = a \o b
    BY <1>11, <1>16
  <2> HIDE DEF a, b
  <2>2. HeardAll(window, a \o b) = HeardAll(HeardAll(window, a), b)
    BY <1>3, <2>1, HeardAllIs
  <2>3. window' = HeardAll(window, a)
    BY <1>7 DEF a
  <2>4. QED BY <1>12, <2>1, <2>2, <2>3 DEF b
<1>18. Remaining' = Remaining
  <2> DEFINE a == scanner
             b == y.clean
  <2>1. a \in Seq(Bytes) /\ b \in Seq(Bytes) /\ c \in Seq(Bytes)
    BY <1>3, <1>10, <1>16 DEF Texts
  <2>2. Remaining = a \o (c \o b) /\ Remaining' = (a \o c) \o b
    BY <1>7, <1>11, <1>12 DEF Remaining
  <2> HIDE DEF a, b
  <2>3. (a \o c) \o b = a \o (c \o b)
    BY ONLY <2>1, ConcatAssociative
  <2>4. QED BY <2>2, <2>3
<1>19. Decoded'.state = "Base" /\ Agrees(Announced(sent'), HeardAll(window', Decoded'.heard))
  BY <1>8, <1>11, <1>12, <1>17 DEF TelnetInv
<1>20. (~typedAhead' /\ ~hungUp') => ReadsOn(lines', Remaining', Typed(sent'))
  BY <1>8, <1>18 DEF TelnetInv
<1>21. QED BY <1>15, <1>19, <1>20 DEF TelnetInv

\* While nothing else happens, what is decoded and to be read stays.
LEMMA DecodedStays ==
    ASSUME UNCHANGED <<wire, processor>>
    PROVE  Decoded' = Decoded
BY DEF Decoded

\* The end of the connection leaves only the window to speak of.
LEMMA EndsKeep ==
    ASSUME TelnetInv, ReadEnd \/ HangUp
    PROVE  TelnetInv'
<1>1. TelnetShape
  BY DEF TelnetInv
<1>2. UNCHANGED <<wire, processor, window, sent, typedAhead>> /\ hungUp' = TRUE
  <2>1. CASE ReadEnd
    <3>1. hungUp = TRUE
      BY <1>1, <2>1 DEF ReadEnd, TelnetShape
    <3>2. QED BY <2>1, <3>1 DEF ReadEnd
  <2>2. CASE HangUp
    BY <2>2 DEF HangUp
  <2>3. QED BY <2>1, <2>2
<1>3. scanner' \in Texts /\ lines' \in Seq(Texts)
  <2>1. CASE ReadEnd
    <3>1. Answer(lines, scanner) \in Seq(Texts)
      BY <1>1, AnswerStays DEF TelnetShape
    <3>2. lines' = Answer(lines, scanner) /\ scanner' = << >>
      BY <2>1 DEF ReadEnd
    <3>3. QED BY <3>1, <3>2 DEF Texts
  <2>2. CASE HangUp
    BY <1>1, <2>2 DEF HangUp, TelnetShape
  <2>3. QED BY <2>1, <2>2
<1>4. TelnetShape'
  BY <1>1, <1>2, <1>3 DEF TelnetShape
<1>5. Decoded' = Decoded
  BY <1>2, DecodedStays
<1>6. QED BY <1>2, <1>4, <1>5 DEF TelnetInv

\* A report heard leaves the window as announced, where the sides are short.
LEMMA ReportAgrees ==
    ASSUME NEW a \in Sizes, NEW w \in Windows, NEW f \in Phrases, Agrees(a, w)
    PROVE  Agrees(Report(a, f), HeardAll(w, MessageOf(f)))
<1>0. << >> \in Seq(Messages)
  OBVIOUS
<1>1. CASE f.kind # "report"
  <2>1. HeardAll(w, << >>) = w
    BY <1>0, HeardAllIs
  <2>2. Report(a, f) = a /\ MessageOf(f) = << >>
    BY <1>1 DEF Report, MessageOf
  <2>3. QED BY <2>1, <2>2
<1>2. CASE f.kind = "report"
  <2> DEFINE m == [code |-> f.code, data |-> f.data]
  <2>1. f \in Reports
    BY <1>2, ReportStays
  <2>2. m \in Messages /\ MessageOf(f) = <<m>>
    BY <1>2, <2>1 DEF Reports, Messages, MessageOf
  <2>3. HeardAll(w, <<m>>) = Heard(w, m)
    <3> HIDE DEF m
    <3>1. QED BY <1>0, <2>2, HeardAllIs
  <2>4. m.code = f.code /\ m.data = f.data
    OBVIOUS
  <2> HIDE DEF m
  <2>5. CASE f.code # WS
    <3>1. Report(a, f) = a /\ Heard(w, m) = w
      BY <2>4, <2>5 DEF Report, Heard
    <3>2. QED BY <2>2, <2>3, <3>1
  <2>6. CASE f.code = WS
    <3>1. Len(f.data) = 4 /\ \A i \in 1..4 : f.data[i] \in Bytes
      BY <1>2, <2>6, ReportStays
    <3>2. \A x, y \in Bytes : 256 * x + y < 256 => Size(x, y) = 256 * x + y
      <4>1. ASSUME NEW x \in Bytes, NEW y \in Bytes, 256 * x + y < 256
            PROVE  Size(x, y) = 256 * x + y
        <5>1. x = 0 /\ y \in 0..255
          BY <4>1 DEF Bytes
        <5>2. (255 * 0) % 256 = 0
          OBVIOUS
        <5>3. QED BY <5>1, <5>2 DEF Size
      <4>2. QED BY <4>1
    <3>3. /\ Heard(w, m) = <<Size(f.data[1], f.data[2]), Size(f.data[3], f.data[4])>>
          /\ Report(a, f) = <<256 * f.data[1] + f.data[2], 256 * f.data[3] + f.data[4]>>
      BY <1>2, <2>4, <2>6, <3>1 DEF Heard, Report
    <3>4. f.data[1] \in Bytes /\ f.data[2] \in Bytes /\ f.data[3] \in Bytes /\ f.data[4] \in Bytes
      BY <3>1
    <3>5. Agrees(Report(a, f), Heard(w, m))
      BY <3>2, <3>3, <3>4 DEF Agrees
    <3>6. QED BY <2>2, <2>3, <3>5
  <2>7. QED BY <2>5, <2>6
<1>3. QED BY <1>1, <1>2

\* Of a client that waits, a phrase completes a line with its last byte only.
LEMMA PhraseReadsOn ==
    ASSUME NEW g \in Seq(Texts), NEW rest \in Texts, NEW text \in Texts, NEW f \in Phrases,
           ReadsOn(g, rest, text), f.kind = "key" => CutAll(Fresh(<< >>), text).got = g
    PROVE  ReadsOn(g, rest \o TextOf(f), text \o TextOf(f))
<1> DEFINE c == CutAll(Fresh(<< >>), text)
           x == <<c, TRUE>>
           t == TextOf(f)
           y == ReadText(g, x, t)
<1>1. t \in Texts /\ << >> \in Texts
  BY TypedStays DEF Texts
<1>2. c \in Cuttings /\ x \in Readings
  <2>1. << >> \in Seq(Texts)
    OBVIOUS
  <2>2. c \in Cuttings
    BY <2>1, FreshIs, CutAllIs
  <2> HIDE DEF c
  <2>3. QED BY <2>2 DEF Readings
<1>3. ReadText(g, <<Fresh(g), TRUE>>, rest) = x
  BY DEF ReadsOn
<1>4. <<Fresh(g), TRUE>> \in Readings
  BY FreshIs
<1> HIDE DEF t
<1>5. CutAll(Fresh(<< >>), text \o t) = CutAll(c, t)
  <2>1. << >> \in Seq(Texts)
    OBVIOUS
  <2> DEFINE v == Fresh(<< >>)
  <2>2. v \in Cuttings
    BY <2>1, FreshIs
  <2> HIDE DEF v
  <2>3. ASSUME NEW r \in Texts, NEW u \in Texts
        PROVE  CutAll(v, r \o u) = CutAll(CutAll(v, r), u)
    BY ONLY <2>2, <2>3, CutAllIs
  <2>4. QED BY <1>1, <2>3 DEF v
<1>6. (f.kind = "key" => c.got = g) /\ x[1] = c /\ x[2] = TRUE
  OBVIOUS
<1> HIDE DEF c, x
<1>7. ReadText(g, <<Fresh(g), TRUE>>, rest \o t) = y
  <2> DEFINE v == <<Fresh(g), TRUE>>
  <2>0. v \in Readings
    BY <1>4
  <2>1. ReadText(g, v, rest) = x
    BY <1>3
  <2> HIDE DEF v
  <2>2. ASSUME NEW r \in Texts, NEW u \in Texts
        PROVE  ReadText(g, v, r \o u) = ReadText(g, ReadText(g, v, r), u)
    BY <2>0, ReadTextOn
  <2>3. QED BY <1>1, <2>1, <2>2 DEF v, y
<1>8. y \in Readings /\ y[1] = CutAll(c, t)
  <2>1. y \in Readings
    BY <1>1, <1>2, ReadTextIs
  <2>2. ReadText(g, x, t)[1] = CutAll(x[1], t)
    BY <1>1, <1>2, ReadTextCuts
  <2>3. QED BY <1>6, <2>1, <2>2
<1> HIDE DEF y
<1>9. y[2] = TRUE
  <2>1. CASE f.kind # "key"
    <3>1. t = << >>
      BY <2>1 DEF t, TextOf
    <3>2. y = x
      BY <1>2, <3>1, <1>1, ReadTextIs DEF y
    <3>3. QED BY <1>6, <3>2
  <2>2. CASE f.kind = "key"
    <3>1. f \in Keys
      BY <2>2, TelnetAssumption DEF TelnetAssumption, Keys, Signals, Requests, Reports
    <3>2. f.code \in Bytes /\ t = Utf8(f.code)
      BY <2>2, <3>1 DEF t, TextOf, Keys
    <3>3. x[1].got = g
      BY <1>6, <2>2
    <3>4. CASE f.code = LF
      <4>1. t = Append(<< >>, LF)
        BY <3>2, <3>4, Utf8IsBytes
      <4>2. ReadText(g, x, << >>) = x
        BY <1>1, <1>2, ReadTextIs
      <4>3. LF \in Bytes
        BY DEF LF, Bytes
      <4>4. ReadText(g, x, Append(<< >>, LF)) = ReadByte(g, ReadText(g, x, << >>), LF)
        BY <1>1, <1>2, <4>3, ReadTextMore
      <4>5. y = ReadByte(g, x, LF)
        BY <4>1, <4>2, <4>4 DEF y
      <4>6. y[2] = (x[2] /\ x[1].got = g)
        BY <4>5 DEF ReadByte
      <4>7. QED BY <1>6, <3>3, <4>6
    <3>5. CASE f.code # LF
      <4>1. \A i \in 1..Len(t) : t[i] # LF
        BY <3>2, <3>5, Utf8IsBytes
      <4>2. y = <<[line |-> x[1].line \o t, got |-> g], x[2]>>
        BY <1>1, <1>2, <3>3, <4>1, ReadTextNoEnd DEF y
      <4>3. QED BY <1>6, <4>2
    <3>6. QED BY <3>4, <3>5
  <2>3. QED BY <2>1, <2>2
<1>10. y = <<CutAll(c, t), TRUE>>
  <2>1. PICK p \in Cuttings, q \in BOOLEAN : y = <<p, q>>
    BY <1>8 DEF Readings
  <2>2. y[1] = p /\ y[2] = q
    BY <2>1
  <2>3. QED BY <1>8, <1>9, <2>1, <2>2
<1>11. QED BY <1>5, <1>7, <1>10 DEF ReadsOn, t

\* A phrase is decoded after the others.
LEMMA SendKeeps ==
    ASSUME TelnetInv, Send
    PROVE  TelnetInv'
<1>1. PICK f \in Phrases :
          /\ wire' = wire \o Encoded(f) /\ sent' = Append(sent, f)
          /\ typedAhead' = (typedAhead \/ (f.kind = "key" /\ ~CaughtUp))
  BY DEF Send
<1>2. UNCHANGED <<processor, scanner, lines, window, hungUp>>
  BY DEF Send
<1>3. TelnetShape
  BY DEF TelnetInv
<1>4. /\ wire \in Texts /\ processor \in Processors /\ processor.heard = << >> /\ scanner \in Texts
      /\ lines \in Seq(Texts) /\ window \in Windows /\ sent \in Seq(Phrases)
      /\ hungUp \in BOOLEAN /\ typedAhead \in BOOLEAN
  BY <1>3 DEF TelnetShape
<1> DEFINE D == Decoded
           e == Encoded(f)
<1>5. D \in Processors /\ D.state = "Base"
  BY <1>4, AddBytesIs DEF Decoded, Texts, TelnetInv
<1>6. e \in Seq(Bytes) /\ MessageOf(f) \in Seq(Messages) /\ Taken(AddBytes(D, e), D, f)
  BY <1>5, PhraseIsTaken
<1>7. Decoded' = AddBytes(D, e)
  <2> HIDE DEF e
  <2>1. AddBytes(processor, wire \o e) = AddBytes(AddBytes(processor, wire), e)
    BY <1>4, <1>6, AddBytesIs DEF Texts
  <2>2. QED BY <1>1, <1>2, <2>1 DEF Decoded, e
<1> HIDE DEF D, e
<1>8. /\ Decoded'.state = "Base" /\ Decoded'.clean = D.clean \o TextOf(f)
      /\ Decoded'.heard = D.heard \o MessageOf(f)
  BY <1>6, <1>7 DEF Taken
<1>9. D.clean \in Texts /\ D.heard \in Seq(Messages) /\ TextOf(f) \in Texts
  BY <1>5, TypedStays DEF Processors, Texts
<1>10. TelnetShape'
  <2>1. wire' \in Texts
    BY <1>1, <1>4, <1>6 DEF Texts, e
  <2>2. sent' \in Seq(Phrases)
    BY <1>1, <1>4, AppendProperties
  <2>3. typedAhead' \in BOOLEAN
    BY <1>1, <1>4, Zenon
  <2>4. QED BY <1>2, <1>4, <2>1, <2>2, <2>3 DEF TelnetShape
<1>11. Agrees(Announced(sent'), HeardAll(window', Decoded'.heard))
  <2> DEFINE w == HeardAll(window, D.heard)
             h == D.heard
             m == MessageOf(f)
  <2>1. Announced(sent) \in Sizes /\ Announced(sent') = Report(Announced(sent), f)
    BY <1>1, <1>4, PhraseMore
  <2>2. w \in Windows
    BY <1>4, <1>9, HeardAllIs
  <2>3. Agrees(Announced(sent), w)
    BY DEF TelnetInv, D
  <2>4. HeardAll(window, h \o m) = HeardAll(HeardAll(window, h), m)
    <3>1. h \in Seq(Messages) /\ m \in Seq(Messages)
      BY <1>6, <1>9
    <3> HIDE DEF h, m
    <3>2. QED BY <1>4, <3>1, HeardAllIs
  <2>5. Agrees(Report(Announced(sent), f), HeardAll(w, m))
    <3> HIDE DEF w
    <3>1. QED BY <2>1, <2>2, <2>3, ReportAgrees
  <2>6. QED BY <1>2, <1>8, <2>1, <2>4, <2>5
<1>12. ASSUME ~typedAhead', ~hungUp' PROVE ReadsOn(lines', Remaining', Typed(sent'))
  <2>1. ~typedAhead /\ ~hungUp /\ (f.kind = "key" => CaughtUp)
    BY <1>1, <1>2, <1>12
  <2>2. ReadsOn(lines, Remaining, Typed(sent))
    BY <2>1 DEF TelnetInv
  <2>3. Typed(sent) \in Texts /\ Typed(sent') = Typed(sent) \o TextOf(f)
    BY <1>1, <1>4, PhraseMore
  <2>4. f.kind = "key" => CutAll(Fresh(<< >>), Typed(sent)).got = lines
    BY <2>1 DEF CaughtUp, LinesOf, CutAll, Fresh
  <2>5. Remaining \in Texts
    BY <1>4, <1>9 DEF Remaining, D, Texts
  <2>6. Remaining' = Remaining \o TextOf(f)
    <3> DEFINE a == scanner
               b == D.clean
               t == TextOf(f)
    <3>1. a \in Seq(Bytes) /\ b \in Seq(Bytes) /\ t \in Seq(Bytes)
      BY <1>4, <1>9 DEF Texts
    <3>2. Remaining = a \o b /\ Remaining' = a \o (b \o t)
      BY <1>2, <1>8 DEF Remaining, D
    <3> HIDE DEF a, b, t
    <3>3. (a \o b) \o t = a \o (b \o t)
      BY ONLY <3>1, ConcatAssociative
    <3>4. QED BY <3>2, <3>3 DEF t
  <2>7. ReadsOn(lines, Remaining \o TextOf(f), Typed(sent) \o TextOf(f))
    BY <1>4, <2>2, <2>3, <2>4, <2>5, PhraseReadsOn
  <2>8. QED BY <1>2, <2>3, <2>6, <2>7
<1>13. QED BY <1>8, <1>10, <1>11, <1>12 DEF TelnetInv

\* What was typed is a text.
LEMMA TypedIsText ==
    ASSUME NEW s \in Seq(Phrases)
    PROVE  Typed(s) \in Texts
<1>1. Typed(s) = Folded(TypedStep, << >>, s) /\ Steps(TypedStep, Texts, Phrases)
  BY TypedFolds
<1>2. << >> \in Texts
  BY DEF Texts
<1>3. ASSUME NEW v \in Texts PROVE Folded(TypedStep, v, s) \in Texts
  BY <1>1, FoldedConcat
<1>4. QED BY <1>1, <1>2, <1>3

\* A line read, with its end: the next begins, and g is what has been got or more.
LEMMA LineIsCut ==
    ASSUME NEW g \in Seq(Texts), NEW line \in Texts, \A i \in 1..Len(line) : line[i] # LF
    PROVE  ReadText(g, <<Fresh(g), TRUE>>, Append(line, LF)) = <<Fresh(Answer(g, line)), TRUE>>
<1> DEFINE x == <<Fresh(g), TRUE>>
           y == ReadText(g, x, line)
<1>1. x \in Readings /\ x[1].got = g /\ x[1].line = << >> /\ x[2] = TRUE
  BY FreshIs
<1>2. << >> \o line = line
  BY DEF Texts
<1> HIDE DEF x
<1>3. y = <<[line |-> x[1].line \o line, got |-> g], x[2]>>
  BY <1>1, ReadTextNoEnd
<1>4. y = <<[line |-> line, got |-> g], TRUE>>
  BY <1>1, <1>2, <1>3
<1>5. LF \in Bytes
  BY DEF LF, Bytes
<1>6. ReadText(g, x, Append(line, LF)) = ReadByte(g, y, LF)
  BY <1>1, <1>5, ReadTextMore
<1> HIDE DEF y
<1>7. Cut(y[1], LF) = Fresh(Answer(g, line))
  BY <1>4 DEF Cut, Fresh
<1>8. ReadByte(g, y, LF) = <<Fresh(Answer(g, line)), TRUE>>
  BY <1>4, <1>7 DEF ReadByte
<1>9. QED BY <1>6, <1>8 DEF x

\* An empty line leaves the rest to be read; a line got had nothing after it.
LEMMA LineReadsOn ==
    ASSUME NEW g \in Seq(Texts), NEW line \in Texts, \A i \in 1..Len(line) : line[i] # LF,
           NEW rest \in Texts, NEW text \in Texts,
           ReadsOn(g, Append(line, LF) \o rest, text)
    PROVE  /\ Answer(g, line) = g => ReadsOn(g, rest, text)
           /\ Answer(g, line) # g => rest = << >> /\ ReadsOn(Answer(g, line), << >>, text)
<1> DEFINE h == Answer(g, line)
           x == <<Fresh(g), TRUE>>
           y == <<Fresh(h), TRUE>>
           s == Append(line, LF)
           c == CutAll(Fresh(<< >>), text)
<1>1. h \in Seq(Texts)
  BY AnswerStays
<1> HIDE DEF h
<1>2. x \in Readings /\ y \in Readings /\ y[1].got = h /\ << >> \in Texts
  <2>1. x \in Readings /\ y \in Readings /\ Fresh(h).got = h
    BY <1>1, FreshIs
  <2>2. QED BY <2>1 DEF Texts
<1>3. ReadText(g, x, s) = y
  BY LineIsCut DEF h
<1>4. s \in Texts
  BY DEF LF, Bytes, Texts
<1>5. ReadText(g, x, s \o rest) = <<c, TRUE>>
  BY DEF ReadsOn
<1> HIDE DEF x, s, c
<1>6. ReadText(g, x, s \o rest) = ReadText(g, y, rest)
  <2> HIDE DEF y
  <2>1. QED BY <1>2, <1>3, <1>4, ReadTextOn
<1>7. ReadText(g, y, rest) = <<c, TRUE>>
  BY <1>5, <1>6
<1>8. ASSUME h # g PROVE rest = << >> /\ ReadsOn(h, << >>, text)
  <2> HIDE DEF y
  <2>1. ReadText(g, y, rest)[2] = TRUE
    BY <1>7
  <2>2. rest = << >>
    BY <1>2, <1>8, <2>1, ReadTextFails
  <2>3. ReadText(g, y, << >>) = y /\ ReadText(h, y, << >>) = y
    BY <1>2, ReadTextIs
  <2>4. ReadText(h, y, << >>) = <<c, TRUE>>
    BY <1>7, <2>2, <2>3
  <2>5. QED BY <2>2, <2>4 DEF ReadsOn, y, c
<1>9. ASSUME h = g PROVE ReadsOn(g, rest, text)
  BY <1>7, <1>9 DEF ReadsOn, c
<1>10. QED BY <1>8, <1>9 DEF h

\* A line goes from the text to be read to the lines got.
LEMMA ScanKeeps ==
    ASSUME TelnetInv, Scan
    PROVE  TelnetInv'
<1>1. PICK i \in DOMAIN scanner :
         /\ scanner[i] = LF /\ \A j \in 1..(i - 1) : scanner[j] # LF
         /\ lines' = Answer(lines, SubSeq(scanner, 1, i - 1))
         /\ scanner' = IF lines' = lines THEN SubSeq(scanner, i + 1, Len(scanner)) ELSE << >>
  BY DEF Scan
<1>2. UNCHANGED <<wire, processor, window, sent, hungUp, typedAhead>>
  BY DEF Scan
<1>3. TelnetShape
  BY DEF TelnetInv
<1>4. /\ wire \in Texts /\ processor \in Processors /\ processor.heard = << >> /\ scanner \in Texts
      /\ lines \in Seq(Texts) /\ window \in Windows /\ sent \in Seq(Phrases)
      /\ hungUp \in BOOLEAN /\ typedAhead \in BOOLEAN
  BY <1>3 DEF TelnetShape
<1> DEFINE n == Len(scanner)
           line == SubSeq(scanner, 1, i - 1)
           s == SubSeq(scanner, 1, i)
           a == SubSeq(scanner, i + 1, n)
<1>5. n \in Nat /\ i \in 1..n
  BY <1>1, <1>4, LenProperties DEF Texts
<1>6. line \in Texts /\ Len(line) = i - 1 /\ \A j \in 1..(i - 1) : line[j] = scanner[j]
  <2> DEFINE k == i - 1
  <2>1. k \in 0..Len(scanner)
    BY <1>5
  <2> HIDE DEF k
  <2>2. /\ SubSeq(scanner, 1, k) \in Seq(Bytes) /\ Len(SubSeq(scanner, 1, k)) = k
        /\ \A j \in 1..k : SubSeq(scanner, 1, k)[j] = scanner[j]
    BY <1>4, <2>1, SplitAt DEF Texts
  <2>3. QED BY <2>2 DEF k, Texts
<1>7. \A j \in 1..Len(line) : line[j] # LF
  <2> HIDE DEF line
  <2>1. QED BY <1>1, <1>6
<1>8. s \in Texts /\ a \in Texts /\ scanner = s \o a
  <2>1. i \in 0..Len(scanner)
    BY <1>5
  <2>2. QED BY <1>4, <2>1, SplitAt DEF Texts
<1>9. s = Append(line, LF)
  <2>1. i \in 1..Len(scanner) /\ 1 \in 1..Len(scanner) /\ i \in 1..Len(scanner)
    BY <1>5
  <2>2. s = line \o <<scanner[i]>>
    BY <1>4, <2>1, SubSeqRecursiveSecond DEF Texts
  <2>3. LF \in Bytes
    BY DEF LF, Bytes
  <2> HIDE DEF s, line
  <2>4. Append(line, LF) = line \o <<LF>>
    BY <1>6, <2>3, AppendIsConcat DEF Texts
  <2>5. QED BY <1>1, <2>2, <2>4
<1>10. lines' = Answer(lines, line) /\ scanner' = IF lines' = lines THEN a ELSE << >>
  BY <1>1
<1> HIDE DEF n, line, s, a
<1>11. Decoded' = Decoded
  BY <1>2, DecodedStays
<1>12. TelnetShape'
  <2>1. lines' \in Seq(Texts)
    BY <1>4, <1>6, <1>10, AnswerStays
  <2>2. scanner' \in Texts
    BY <1>8, <1>10 DEF Texts
  <2>3. QED BY <1>2, <1>4, <2>1, <2>2 DEF TelnetShape
<1>13. ASSUME ~typedAhead', ~hungUp' PROVE ReadsOn(lines', Remaining', Typed(sent'))
  <2> DEFINE b == Decoded.clean
             text == Typed(sent)
  <2>1. ReadsOn(lines, Remaining, text)
    BY <1>2, <1>13 DEF TelnetInv
  <2>2. b \in Seq(Bytes) /\ a \in Seq(Bytes) /\ s \in Seq(Bytes)
    <3>1. Decoded \in Processors
      BY <1>4, AddBytesIs DEF Decoded, Texts
    <3>2. b \in Seq(Bytes)
      <4> HIDE DEF Decoded
      <4>1. QED BY <3>1 DEF Processors
    <3>3. QED BY <1>8, <3>2 DEF Texts
  <2>3. text \in Texts
    BY <1>4, TypedIsText
  <2> HIDE DEF b, text
  <2>4. Remaining = s \o (a \o b)
    <3>1. (s \o a) \o b = s \o (a \o b)
      BY ONLY <2>2, ConcatAssociative
    <3>2. QED BY <1>8, <3>1 DEF Remaining, b
  <2>5. a \o b \in Texts
    BY <2>2 DEF Texts
  <2> DEFINE r == a \o b
  <2>6. ReadsOn(lines, Append(line, LF) \o r, text)
    BY <1>9, <2>1, <2>4
  <2>7. r \in Texts
    BY <2>5
  <2> HIDE DEF r
  <2>8. /\ lines' = lines => ReadsOn(lines, r, text)
        /\ lines' # lines => r = << >> /\ ReadsOn(lines', << >>, text)
    BY <1>4, <1>6, <1>7, <1>10, <2>3, <2>6, <2>7, LineReadsOn
  <2>9. Remaining' = scanner' \o b
    BY <1>11 DEF Remaining, b
  <2>10. CASE lines' = lines
    <3>1. Remaining' = r
      BY <1>10, <2>9, <2>10 DEF r
    <3>2. QED BY <1>2, <2>8, <2>10, <3>1 DEF text
  <2>11. CASE lines' # lines
    <3>1. a \o b = << >>
      BY <2>8, <2>11 DEF r
    <3>2. b = << >>
      BY <2>2, <3>1
    <3>3. Remaining' = << >>
      BY <1>10, <2>9, <2>11, <3>2
    <3>4. QED BY <1>2, <2>8, <2>11, <3>3 DEF text
  <2>12. QED BY <2>10, <2>11
<1>14. QED BY <1>2, <1>11, <1>12, <1>13 DEF TelnetInv

\* The invariant holds.
THEOREM TelnetInvHolds == TelnetSpec => []TelnetInv
<1>1. TelnetInit => TelnetInv
  BY TelnetStarts
<1>2. TelnetInv /\ [TelnetNext]_telnetVars => TelnetInv'
  <2> SUFFICES ASSUME TelnetInv, [TelnetNext]_telnetVars PROVE TelnetInv'
    OBVIOUS
  <2>1. CASE TelnetRead
    BY <2>1, ReadKeeps
  <2>2. CASE ReadEnd
    BY <2>2, EndsKeep
  <2>3. CASE Scan
    BY <2>3, ScanKeeps
  <2>4. CASE Send
    BY <2>4, SendKeeps
  <2>5. CASE HangUp
    BY <2>5, EndsKeep
  <2>6. CASE UNCHANGED telnetVars
    <3>1. TelnetShape'
      BY <2>6 DEF TelnetInv, TelnetShape, telnetVars
    <3>2. Decoded' = Decoded /\ Remaining' = Remaining
      BY <2>6 DEF Decoded, Remaining, telnetVars
    <3>3. QED BY <2>6, <3>1, <3>2 DEF TelnetInv, telnetVars
  <2>7. QED BY <2>1, <2>2, <2>3, <2>4, <2>5, <2>6 DEF TelnetNext
<1>3. QED BY <1>1, <1>2, PTL DEF TelnetSpec

\* The variables have their types.
THEOREM TelnetTypes == TelnetSpec => []TelnetTypeOK
<1>1. TelnetInv => TelnetTypeOK
  <2> SUFFICES ASSUME TelnetInv PROVE TelnetTypeOK
    OBVIOUS
  <2>1. TelnetShape
    BY DEF TelnetInv
  <2>2. /\ processor.state \in {"Base", "InIAC", "InSB", "CapSB", "EscIAC"}
        /\ processor.sb \in Bytes /\ processor.sub \in Seq(Bytes) /\ processor.clean \in Seq(Bytes)
    BY <2>1 DEF TelnetShape, Processors
  <2>3. QED BY <2>1, <2>2 DEF TelnetShape, TelnetTypeOK, Texts, Windows
<1>2. QED BY <1>1, TelnetInvHolds, PTL

\* Got is what is to be got, or all but the last line of it.
LEMMA ReadIsPrefix ==
    ASSUME NEW g \in Seq(Texts), NEW rest \in Texts, NEW text \in Texts, ReadsOn(g, rest, text)
    PROVE  IsPrefix(g, CutAll(Fresh(<< >>), text).got)
<1> DEFINE c == CutAll(Fresh(<< >>), text)
           x == <<Fresh(g), TRUE>>
<1>1. ReadText(g, x, rest) = <<c, TRUE>>
  BY DEF ReadsOn
<1>2. x \in Readings /\ x[1].got = g
  BY FreshIs
<1> HIDE DEF c, x
<1>3. c.got = g \/ \E l \in Texts : c.got = Append(g, l)
  <2>1. CASE rest = << >>
    <3>1. << >> \in Texts
      BY DEF Texts
    <3>2. ReadText(g, x, << >>) = x
      BY <1>2, <3>1, ReadTextIs
    <3>3. QED BY <1>1, <1>2, <2>1, <3>2
  <2>2. CASE rest # << >>
    <3>1. PICK q \in Seq(Bytes), b \in Bytes : rest = Append(q, b)
      BY <2>2, SequenceEmptyOrAppend DEF Texts
    <3> DEFINE y == ReadText(g, x, q)
    <3>2. y \in Readings /\ ReadText(g, x, Append(q, b)) = ReadByte(g, y, b)
      BY <1>2, <3>1, ReadTextIs, ReadTextMore DEF Texts
    <3> HIDE DEF y
    <3>3. c = Cut(y[1], b) /\ y[1].got = g
      <4>1. ReadByte(g, y, b) = <<c, TRUE>>
        BY <1>1, <3>1, <3>2
      <4>2. ReadByte(g, y, b)[1] = Cut(y[1], b) /\ ReadByte(g, y, b)[2] = (y[2] /\ y[1].got = g)
        BY DEF ReadByte
      <4>3. ReadByte(g, y, b)[2] = TRUE /\ ReadByte(g, y, b)[1] = c
        BY <4>1
      <4>4. QED BY <4>2, <4>3, Zenon
    <3>4. y[1].line \in Texts
      BY <3>2 DEF Readings, Cuttings
    <3> DEFINE o == y[1]
    <3>5. o.line \in Texts /\ o.got = g /\ c = Cut(o, b)
      BY <3>3, <3>4
    <3> HIDE DEF o
    <3>6. c.got = o.got \/ c.got = Answer(g, o.line)
      BY <3>5 DEF Cut
    <3>7. Answer(g, o.line) = g \/ Answer(g, o.line) = Append(g, DropCR(o.line))
      BY <3>5, AnswerStays
    <3>8. DropCR(o.line) \in Texts
      BY <3>5, AnswerStays
    <3>9. QED BY <3>5, <3>6, <3>7, <3>8
  <2>3. QED BY <2>1, <2>2
<1>4. CASE c.got = g
  <2>1. Len(g) \in Nat
    BY LenProperties
  <2>2. QED BY <1>4, <2>1 DEF IsPrefix, c
<1>5. ASSUME NEW l \in Texts, c.got = Append(g, l) PROVE IsPrefix(g, c.got)
  <2> DEFINE n == Len(g)
             t == Append(g, l)
  <2>1. n \in Nat /\ t \in Seq(Texts) /\ Len(t) = n + 1 /\ \A i \in 1..n : t[i] = g[i]
    BY LenProperties, AppendProperties
  <2> HIDE DEF t
  <2>2. SubSeq(t, 1, n) = SubSeq(g, 1, n)
    <3>1. n \in 0..Len(t) /\ n \in 0..Len(g)
      BY <2>1
    <3>2. /\ SubSeq(t, 1, n) \in Seq(Texts) /\ Len(SubSeq(t, 1, n)) = n
          /\ \A i \in 1..n : SubSeq(t, 1, n)[i] = t[i]
      BY <2>1, <3>1, SplitAt
    <3>3. /\ SubSeq(g, 1, n) \in Seq(Texts) /\ Len(SubSeq(g, 1, n)) = n
          /\ \A i \in 1..n : SubSeq(g, 1, n)[i] = g[i]
      BY <3>1, SplitAt
    <3> DEFINE u == SubSeq(t, 1, n)
               v == SubSeq(g, 1, n)
    <3>4. u \in Seq(Texts) /\ v \in Seq(Texts) /\ Len(u) = Len(v) /\ \A i \in 1..Len(u) : u[i] = v[i]
      BY <2>1, <3>2, <3>3
    <3> HIDE DEF u, v
    <3>5. u = v
      BY <3>4, SeqEqual
    <3>6. QED BY <3>5 DEF u, v
  <2>3. Len(g) <= Len(t)
    BY <2>1
  <2>4. QED BY <1>5, <2>2, <2>3 DEF IsPrefix, t
<1>6. QED BY <1>3, <1>4, <1>5 DEF c

\* The lines of a client that waits for its prompts arrive whole and in order,
\* however the network cuts them, and its window is known but for wide sides.
THEOREM ClientIsAlwaysUnderstood == TelnetSpec => []ClientIsUnderstood
<1>1. TelnetInv => ClientIsUnderstood
  <2> SUFFICES ASSUME TelnetInv PROVE ClientIsUnderstood
    OBVIOUS
  <2>1. TelnetShape
    BY DEF TelnetInv
  <2>2. /\ wire \in Texts /\ processor \in Processors /\ processor.heard = << >> /\ scanner \in Texts
        /\ lines \in Seq(Texts) /\ window \in Windows /\ sent \in Seq(Phrases)
    BY <2>1 DEF TelnetShape
  <2>3. ASSUME ~typedAhead, ~hungUp PROVE IsPrefix(lines, LinesOf(Typed(sent)))
    <3>1. ReadsOn(lines, Remaining, Typed(sent))
      BY <2>3 DEF TelnetInv
    <3>2. Typed(sent) \in Texts
      BY <2>2, TypedIsText
    <3>3. Remaining \in Texts
      <4>1. Decoded \in Processors
        BY <2>2, AddBytesIs DEF Decoded, Texts
      <4>2. Decoded.clean \in Texts
        <5> HIDE DEF Decoded
        <5>1. QED BY <4>1 DEF Processors, Texts
      <4>3. QED BY <2>2, <4>2 DEF Remaining, Texts
    <3>4. IsPrefix(lines, CutAll(Fresh(<< >>), Typed(sent)).got)
      BY <2>2, <3>1, <3>2, <3>3, ReadIsPrefix
    <3>5. QED BY <3>4 DEF LinesOf, CutAll, Fresh
  <2>4. ASSUME wire = << >> PROVE Agrees(Announced(sent), window)
    <3>1. << >> \in Seq(Bytes) /\ << >> \in Seq(Messages)
      OBVIOUS
    <3>2. Decoded = processor
      BY <2>2, <2>4, <3>1, AddBytesIs DEF Decoded
    <3>3. HeardAll(window, << >>) = window
      BY <2>2, <3>1, HeardAllIs
    <3>4. QED BY <2>2, <3>2, <3>3 DEF TelnetInv
  <2>5. QED BY <2>3, <2>4 DEF ClientIsUnderstood, LinesArriveWhole, WindowIsAsAnnounced, Agrees
<1>2. QED BY <1>1, TelnetInvHolds, PTL
==============================================================================
