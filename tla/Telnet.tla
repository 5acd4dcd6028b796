------------------------------- MODULE Telnet -------------------------------
(***************************************************************************)
(* From the client's bytes to the server's lines: the telnet processor     *)
(* (telnet/telnet.go), the line scanner every prompt makes anew            *)
(* (utils/utils.go) and the window size (server/server.go).                *)
(*                                                                         *)
(* TCP cuts the stream anywhere.  The processor takes the commands out of  *)
(* it byte by byte; the text is handed to the scanner in pieces no larger  *)
(* than its buffer.  When the scanner has a line, what else it holds is    *)
(* lost with it.                                                           *)
(***************************************************************************)
EXTENDS Naturals, Sequences, SequencesExt

CONSTANTS
    Phrases,        \* what the client may send: keys, commands, data
    ReadSize,       \* bytes the connection gives in one read
    BufferSize,     \* bytes the scanner takes in one read
    MaxSent         \* phrases in the run

NUL  == 0
LF   == 10
CR   == 13
WS   == 31
SE   == 240
SB   == 250
Verbs == 251..254   \* WILL, WONT, DO, DONT
IAC  == 255

Bytes == 0..255

\* A key typed, a command without an option and one with it, and the data of an
\* option.  (IAC is no key: the processor loses one that is doubled in the text.)
Keys     == [kind : {"key"}, code : Bytes \ {IAC}, data : {<< >>}]
Signals  == [kind : {"signal"}, code : SE..(SB - 1), data : {<< >>}]
Requests == [kind : {"request"}, code : Verbs, data : {<<o>> : o \in Bytes \ (SB..254)}]
Reports  == [kind : {"report"}, code : Bytes, data : Seq(Bytes)]

ASSUME TelnetAssumption ==
    /\ \A p \in Phrases : p \in Keys \/ p \in Signals \/ p \in Requests \/ p \in Reports
    /\ \A p \in Phrases : p.kind = "report" /\ p.code = WS => Len(p.data) = 4
    /\ ReadSize \in Nat \ {0} /\ BufferSize \in Nat \ {0} /\ MaxSent \in Nat

VARIABLES
    wire,           \* bytes on their way
    processor,      \* the telnet processor
    scanner,        \* the scanner of the prompt: bytes, or Closed
    lines,          \* lines the server has got
    window,         \* of the user
    sent,           \* phrases sent (history)
    hungUp,
    typedAhead      \* something was sent before the last line was read (history)

telnetVars == <<wire, processor, scanner, lines, window, sent, hungUp, typedAhead>>

NoWindow == <<0, 0>>

TelnetInit ==
    /\ wire = << >>
    /\ processor = [state |-> "Base", sb |-> NUL, sub |-> << >>, clean |-> << >>, heard |-> << >>]
    /\ scanner = << >>
    /\ lines = << >>
    /\ window = NoWindow
    /\ sent = << >> /\ hungUp = FALSE /\ typedAhead = FALSE

TelnetTypeOK ==
    /\ wire \in Seq(Bytes)
    /\ processor.state \in {"Base", "InIAC", "InSB", "CapSB", "EscIAC"}
    /\ processor.sb \in Bytes /\ processor.sub \in Seq(Bytes)
    /\ processor.clean \in Seq(Bytes)
    /\ scanner \in Seq(Bytes) /\ lines \in Seq(Seq(Bytes))
    /\ window \in (0..510) \X (0..510)
    /\ sent \in Seq(Phrases) /\ hungUp \in BOOLEAN /\ typedAhead \in BOOLEAN

-----------------------------------------------------------------------------
(* The processor                                                           *)

\* string(b) of a byte is the character with that number, in UTF-8.
Utf8(b) == IF b < 128 THEN <<b>> ELSE <<192 + (b \div 64), 128 + (b % 64)>>

DontCapture(p, b) == [p EXCEPT !.clean = @ \o Utf8(b)]

AddInIAC(p, b) ==
    [p EXCEPT !.state = IF b \in Verbs THEN "InIAC" ELSE IF b = SB THEN "InSB" ELSE "Base"]

AddInSB(p, b) == [p EXCEPT !.state = "CapSB", !.sb = b, !.sub = << >>]

CaptureSubData(p, b) == [p EXCEPT !.state = "CapSB", !.sub = Append(@, b)]

\* The end of the data goes to the listener; the byte after IAC ends a command.
SubDataFinished(p, b) ==
    AddInIAC([p EXCEPT !.heard = Append(@, [code |-> p.sb, data |-> p.sub]), !.sb = NUL], b)

\* Faulty variant: an escaped IAC ends the data.
AddByteUnescaped(p, b) ==
    CASE p.state = "Base"   -> IF b = IAC THEN [p EXCEPT !.state = "InIAC"] ELSE DontCapture(p, b)
      [] p.state = "InIAC"  -> AddInIAC(p, b)
      [] p.state = "InSB"   -> AddInSB(p, b)
      [] p.state = "CapSB"  -> IF b = IAC THEN [p EXCEPT !.state = "EscIAC"] ELSE CaptureSubData(p, b)
      [] p.state = "EscIAC" -> SubDataFinished(p, b)

AddByte(p, b) ==
    CASE p.state = "Base"   -> IF b = IAC THEN [p EXCEPT !.state = "InIAC"] ELSE DontCapture(p, b)
      [] p.state = "InIAC"  -> AddInIAC(p, b)
      [] p.state = "InSB"   -> AddInSB(p, b)
      [] p.state = "CapSB"  -> IF b = IAC THEN [p EXCEPT !.state = "EscIAC"] ELSE CaptureSubData(p, b)
      [] p.state = "EscIAC" -> IF b = IAC THEN CaptureSubData(p, b) ELSE SubDataFinished(p, b)

AddBytes(p, bytes) == FoldLeft(AddByte, p, bytes)

-----------------------------------------------------------------------------
(* Window size: one byte times 255, in a byte, plus the other.             *)

Size(high, low) == ((255 * high) % 256) + low

Heard(w, message) ==
    IF message.code = WS /\ Len(message.data) = 4
    THEN <<Size(message.data[1], message.data[2]), Size(message.data[3], message.data[4])>>
    ELSE w

-----------------------------------------------------------------------------
(* The server                                                              *)

Min2(a, b) == IF a < b THEN a ELSE b

\* Read: fill from the connection, then hand out what fits; without text, again.
TelnetRead ==
    /\ LF \notin ToSet(scanner)
    /\ \E k \in 1..Min2(ReadSize, Len(wire)) :
         LET p == AddBytes(processor, SubSeq(wire, 1, k))
             n == Min2(BufferSize, Len(p.clean))
         IN  /\ wire' = SubSeq(wire, k + 1, Len(wire))
             /\ scanner' = scanner \o SubSeq(p.clean, 1, n)
             /\ processor' = [p EXCEPT !.clean = SubSeq(@, n + 1, Len(@)), !.heard = << >>]
             /\ window' = FoldLeft(Heard, window, p.heard)
    /\ UNCHANGED <<lines, sent, hungUp, typedAhead>>

\* The end of a line may be CR LF.
DropCR(line) == IF line # << >> /\ Last(line) = CR THEN Front(line) ELSE line

\* One line more, unless it is empty.
Answer(got, line) == IF DropCR(line) = << >> THEN got ELSE Append(got, DropCR(line))

\* The end of the connection discards the text not handed out; half a line in
\* the scanner counts as a line.
ReadEnd ==
    /\ LF \notin ToSet(scanner) /\ wire = << >> /\ hungUp /\ scanner # << >>
    /\ lines' = Answer(lines, scanner)
    /\ scanner' = << >>
    /\ UNCHANGED <<wire, processor, window, sent, hungUp, typedAhead>>

\* A line, of which an empty one leaves the scanner to the next; the rest of
\* what it holds goes with the scanner.
Scan ==
    /\ \E i \in DOMAIN scanner :
         /\ scanner[i] = LF /\ \A j \in 1..(i - 1) : scanner[j] # LF
         /\ lines' = Answer(lines, SubSeq(scanner, 1, i - 1))
         /\ scanner' = IF lines' = lines THEN SubSeq(scanner, i + 1, Len(scanner)) ELSE << >>
    /\ UNCHANGED <<wire, processor, window, sent, hungUp, typedAhead>>

-----------------------------------------------------------------------------
(* The client                                                              *)

\* An IAC in data is doubled.
Doubled(data) == FoldLeft(LAMBDA s, b : IF b = IAC THEN s \o <<IAC, IAC>> ELSE Append(s, b), << >>, data)

Encoded(p) ==
    CASE p.kind = "key" -> <<p.code>>
      [] p.kind \in {"signal", "request"} -> <<IAC, p.code>> \o p.data
      [] p.kind = "report" -> <<IAC, SB, p.code>> \o Doubled(p.data) \o <<IAC, SE>>

\* What it has typed.
TextOf(p) == IF p.kind = "key" THEN Utf8(p.code) ELSE << >>

Typed(phrases) == FoldLeft(LAMBDA t, p : t \o TextOf(p), << >>, phrases)

\* A text, cut into lines: those got, and the one that is open.
Cut(s, b) ==
    IF b = LF THEN [line |-> << >>, got |-> Answer(s.got, s.line)]
              ELSE [s EXCEPT !.line = Append(@, b)]

LinesOf(t) == FoldLeft(Cut, [line |-> << >>, got |-> << >>], t).got

\* All that was typed has been read, but for a line still open.
CaughtUp == lines = LinesOf(Typed(sent))

Send ==
    /\ Len(sent) < MaxSent /\ ~hungUp
    /\ \E p \in Phrases :
          /\ wire' = wire \o Encoded(p) /\ sent' = Append(sent, p)
          /\ typedAhead' = (typedAhead \/ (p.kind = "key" /\ ~CaughtUp))
    /\ UNCHANGED <<processor, scanner, lines, window, hungUp>>

HangUp ==
    /\ ~hungUp /\ hungUp' = TRUE
    /\ UNCHANGED <<wire, processor, scanner, lines, window, sent, typedAhead>>

TelnetNext == TelnetRead \/ ReadEnd \/ Scan \/ Send \/ HangUp

TelnetSpec == TelnetInit /\ [][TelnetNext]_telnetVars

-----------------------------------------------------------------------------
(* Properties                                                              *)

\* The server gets the lines of a client that waits for its prompts, whole
\* and in order, wherever the network has cut them and whatever commands stand
\* between their characters.
LinesArriveWhole == (~typedAhead /\ ~hungUp) => IsPrefix(lines, LinesOf(Typed(sent)))

\* The size that was reported last: two bytes a side.
Announced(phrases) ==
    FoldLeft(LAMBDA w, p : IF p.kind = "report" /\ p.code = WS
                           THEN <<256 * p.data[1] + p.data[2], 256 * p.data[3] + p.data[4]>>
                           ELSE w,
             NoWindow, phrases)

\* When the server has read everything, it knows the window the client has
\* announced last, unless a side has 256 columns or more: those it gets wrong.
WindowIsAsAnnounced ==
    wire = << >> => \A side \in 1..2 :
        Announced(sent)[side] < 256 => window[side] = Announced(sent)[side]

\* The client is understood.
ClientIsUnderstood == LinesArriveWhole /\ WindowIsAsAnnounced
=============================================================================
