---------------------------- MODULE EslFrameDecoder ----------------------------
(***************************************************************************)
(* transport/message/EslFrameDecoder.java of the Java ESL client: messages *)
(* cut out of a stream of bytes that arrives in pieces of any size.        *)
(*                                                                         *)
(* It is a ReplayingDecoder of Netty: decode reads as if all bytes were    *)
(* there, and when they are not it is called again later, from the last    *)
(* checkpoint. It is called in a loop while bytes are readable, until it   *)
(* misses some or throws; then the loop ends until more bytes arrive.      *)
(*                                                                         *)
(* Only the first byte of a header line says what the line means; a body   *)
(* may hold anything, header lines and empty lines too.                    *)
(***************************************************************************)
EXTENDS Integers, Sequences, FiniteSets

Seqs == INSTANCE SequencesExt

CONSTANTS
  SentMessages,   \* [head, body]: what the server may send. A header line is
                  \* [what, n, size]: its header "known" or "unknown" to
                  \* EslHeaders.Name, or the "length" n of the body; its bytes
  MaxHeaderSize,  \* of a header line (8192, or 8092 for an outbound client)
  MaxMessages     \* bound: messages in a stream

HeaderLines == [what : {"known", "unknown", "length"}, n : Nat, size : Nat \ {0}]
LF == [what |-> "LF", n |-> 0, size |-> 1]
Text == [what |-> "text", n |-> 0, size |-> 1]

Bytes == HeaderLines \cup {LF, Text}

(* The header announces the length of the body, if there is one.            *)
ASSUME MessagesAssumption ==
  /\ SentMessages \subseteq [head : Seq(HeaderLines), body : Seq(Bytes)]
  /\ \A m \in SentMessages :
       IF \E i \in DOMAIN m.head : m.head[i].what = "length"
       THEN \A i \in DOMAIN m.head : m.head[i].what = "length" => m.head[i].n = Len(m.body)
       ELSE m.body = << >>
  /\ MaxHeaderSize \in Nat /\ MaxMessages \in Nat

LineBytes(l) == <<l>> \o [i \in 1 .. l.size - 1 |-> Text] \o <<LF>>
MessageBytes(m) ==
  Seqs!FlattenSeq([i \in DOMAIN m.head |-> LineBytes(m.head[i])]) \o <<LF>> \o m.body

VARIABLES
  sent,       \* the messages of the stream
  stream,     \* its bytes
  lenient,    \* treatUnknownHeadersAsBody: outbound clients
  arrived,    \* bytes received
  at,         \* bytes consumed, up to the checkpoint
  decoding,   \* the loop runs
  state,      \* of the decoder
  currentMessage,
  decoded,    \* messages passed upstream
  threw,      \* the last call of decode threw
  cut         \* history: a header line was too long

decoderVars == <<sent, stream, lenient, arrived, at, decoding, state, currentMessage,
                 decoded, threw, cut>>
sentVars == <<sent, stream, lenient, arrived>>

NoLength == -1
NewMessage == [headers |-> {}, length |-> NoLength, body |-> << >>]

DecoderInit ==
  /\ sent \in Seqs!BoundedSeq(SentMessages, MaxMessages)
  /\ stream = Seqs!FlattenSeq([i \in DOMAIN sent |-> MessageBytes(sent[i])])
  /\ lenient \in BOOLEAN
  /\ arrived = 0 /\ at = 0 /\ decoding = FALSE
  /\ state = "READ_HEADER" /\ currentMessage = NewMessage
  /\ decoded = << >> /\ threw = FALSE /\ cut = FALSE

(* Variant: each call of decode starts a message.                           *)
ArriveAnew ==
  /\ ~decoding
  /\ \E n \in arrived + 1 .. Len(stream) : arrived' = n
  /\ decoding' = TRUE /\ threw' = FALSE
  /\ currentMessage' = IF state = "READ_HEADER" THEN NewMessage ELSE currentMessage
  /\ UNCHANGED <<sent, stream, lenient, at, state, decoded, cut>>

(* More bytes, and the loop starts again.                                   *)
Arrive ==
  /\ ~decoding
  /\ \E n \in arrived + 1 .. Len(stream) : arrived' = n
  /\ decoding' = TRUE /\ threw' = FALSE
  /\ UNCHANGED <<sent, stream, lenient, at, state, currentMessage, decoded, cut>>

(* The positions at which a line of at most MaxHeaderSize bytes would end.  *)
Window == at + 1 .. at + MaxHeaderSize + 1
LineEnds == {i \in Window : i <= arrived /\ stream[i] = LF}
LineEnd == CHOOSE i \in LineEnds : \A j \in LineEnds : i <= j
HeaderLine == SubSeq(stream, at + 1, LineEnd - 1)

(* What a line adds to the message. An unknown header is an exception, or,  *)
(* for an outbound client, a line of the body.                              *)
AddHeader(msg, line) ==
  CASE Head(line).what = "known"  -> [msg EXCEPT !.headers = @ \cup {Head(line)}]
    [] Head(line).what = "length" -> [msg EXCEPT !.headers = @ \cup {Head(line)},
                                                 !.length = Head(line).n]
    [] OTHER -> IF lenient THEN [msg EXCEPT !.body = Append(@, line)] ELSE msg

Unknown(line) == Head(line).what \notin {"known", "length"}

(* A header line, and a checkpoint. The loop ends with an exception.        *)
ReadHeaderLine ==
  /\ decoding /\ state = "READ_HEADER"
  /\ LineEnds # {} /\ HeaderLine # << >>
  /\ currentMessage' = AddHeader(currentMessage, HeaderLine)
  /\ at' = LineEnd
  /\ threw' = (Unknown(HeaderLine) /\ ~lenient)
  /\ decoding' = ~threw'
  /\ UNCHANGED <<sentVars, state, decoded, cut>>

(* The bytes read before the exception are gone.                            *)
HeaderLineTooLong ==
  /\ decoding /\ state = "READ_HEADER"
  /\ LineEnds = {} /\ at + MaxHeaderSize + 1 <= arrived
  /\ at' = at + MaxHeaderSize + 1
  /\ threw' = TRUE /\ cut' = TRUE
  /\ decoding' = FALSE
  /\ UNCHANGED <<sentVars, state, currentMessage, decoded>>

(* The empty line: the message is complete, or its body follows.            *)
EndHeaders ==
  /\ decoding /\ state = "READ_HEADER"
  /\ LineEnds # {} /\ HeaderLine = << >>
  /\ at' = LineEnd
  /\ IF currentMessage.length = NoLength
     THEN /\ decoded' = Append(decoded, currentMessage)
          /\ currentMessage' = NewMessage
          /\ UNCHANGED state
     ELSE state' = "READ_BODY" /\ UNCHANGED <<currentMessage, decoded>>
  /\ UNCHANGED <<sentVars, decoding, threw, cut>>

(* The lines of a body; the last one may lack its line feed.                *)
BodyLines(bytes) ==
  LET feeds == {i \in DOMAIN bytes : bytes[i] = LF}
      last == IF bytes # << >> /\ Seqs!Last(bytes) # LF THEN {Len(bytes) + 1} ELSE {}
      ends == feeds \cup last
      End(i) == CHOOSE e \in ends : Cardinality({d \in ends : d < e}) = i - 1
  IN [i \in 1 .. Cardinality(ends) |->
        SubSeq(bytes, IF i = 1 THEN 1 ELSE End(i - 1) + 1, End(i) - 1)]

(* readBytes, and the split into lines. Without a readable byte decode is   *)
(* not called, not even for a body of none.                                 *)
ReadBody ==
  /\ decoding /\ state = "READ_BODY"
  /\ at < arrived /\ at + currentMessage.length <= arrived
  /\ at' = at + currentMessage.length
  /\ decoded' = Append(decoded, [currentMessage EXCEPT
                  !.body = @ \o BodyLines(SubSeq(stream, at + 1, at'))])
  /\ currentMessage' = NewMessage
  /\ state' = "READ_HEADER"
  /\ UNCHANGED <<sentVars, decoding, threw, cut>>

(* Bytes are missing: the loop ends, and nothing since the checkpoint was   *)
(* consumed.                                                                *)
Starve ==
  /\ decoding
  /\ IF state = "READ_HEADER"
     THEN LineEnds = {} /\ at + MaxHeaderSize + 1 > arrived
     ELSE at = arrived \/ at + currentMessage.length > arrived
  /\ decoding' = FALSE
  /\ UNCHANGED <<sentVars, at, state, currentMessage, decoded, threw, cut>>

DecoderNext ==
  \/ Arrive
  \/ ReadHeaderLine \/ HeaderLineTooLong \/ EndHeaders \/ ReadBody \/ Starve

DecoderSpec == DecoderInit /\ [][DecoderNext]_decoderVars

-----------------------------------------------------------------------------
(* Properties                                                               *)

(* What a message should become: the headers the client knows, and the body *)
(* by lines, after the unknown headers for an outbound client.              *)
Intended(m) ==
  LET BodyLine(l) == IF l.what = "unknown" THEN << Seqs!Front(LineBytes(l)) >> ELSE << >>
      lines == Seqs!FlattenSeq([i \in DOMAIN m.head |-> BodyLine(m.head[i])])
      lengths == {l \in Seqs!Range(m.head) : l.what = "length"}
  IN [headers |-> {l \in Seqs!Range(m.head) : l.what # "unknown"},
      length |-> IF lengths = {} THEN NoLength ELSE (CHOOSE l \in lengths : TRUE).n,
      body |-> (IF lenient THEN lines ELSE << >>) \o BodyLines(m.body)]

EndOf(i) == Len(Seqs!FlattenSeq([j \in 1 .. i |-> MessageBytes(sent[j])]))

(* However the stream is cut into pieces, and whatever the bodies contain,  *)
(* the messages come out one by one as they were sent, and when the decoder *)
(* waits every message that has arrived is out, up to a last one whose      *)
(* header announces an empty body, which waits for the message after it.    *)
(* Until a header line is too long; and an unknown header, which ends the   *)
(* loop, costs no more than itself and a wait for further bytes.            *)
DecodedAsSent ==
  ~cut =>
    /\ Len(decoded) <= Len(sent)
    /\ \A i \in DOMAIN decoded : decoded[i] = Intended(sent[i])
    /\ ~decoding /\ ~threw =>
         \A i \in DOMAIN sent \ DOMAIN decoded :
           \/ EndOf(i) > arrived
           \/ EndOf(i) = arrived /\ Intended(sent[i]).length = 0

=============================================================================
