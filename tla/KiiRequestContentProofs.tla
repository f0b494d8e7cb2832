----------------------- MODULE KiiRequestContentProofs -----------------------
(***************************************************************************)
(* What a request says, proved of the request builder: that it is whole,   *)
(* that its Content-Length is that of its body, and that its headers are   *)
(* those its caller asked for, with his keys in their turn.  None follows  *)
(* from the order of the bytes alone: the invariant also says what the     *)
(* calls still to be made will add to what is in the buffer.               *)
(***************************************************************************)
EXTENDS KiiRequestProofs, SequenceTheorems

-----------------------------------------------------------------------------
(* The calls still to be made.  b is the place of the empty line among     *)
(* them, 0 if it has been written; count the bytes of the body so far; want*)
(* those of the whole body.                                                *)

HeadCalls == {"line", "header", "extra", "encoding", "token", "stop", "crash"}
IsLength(call) == call.do = "header" /\ call.kind = "length"

(* The number of the first byte of the body that is not there before i.    *)
From(calls, i, want) == IF calls[i].do = "body" THEN calls[i].n ELSE want + 1

Layout(calls, b, count, want) ==
  /\ b \in 0..Len(calls) - 1
  /\ \A i \in 1..b - 1 : calls[i].do \in HeadCalls
  /\ b > 0 => calls[b] = EmptyLine
  /\ \A i \in b + 1..Len(calls) - 1 : calls[i].do = "body" /\ calls[i].kind = "body"
  /\ calls[Len(calls)].do \in {"ready", "started"}
  /\ From(calls, b + 1, want) = count + 1
  /\ \A i \in b + 1..Len(calls) - 1 :
       From(calls, i + 1, want) = From(calls, i, want) + calls[i].size
  /\ \A i \in 1..Len(calls) :
       /\ IsLength(calls[i]) => i = b - 1 /\ calls[i].n = want
       /\ calls[i].do = "header" => calls[i].size = HeaderSize[calls[i].kind]

(* An operation that will dereference NULL before it writes a body.        *)
Doomed(calls) ==
  /\ calls[Len(calls)].do = "crash"
  /\ \A i \in 1..Len(calls) : calls[i].do \in HeadCalls

KindOf(call) == IF call.do = "header" THEN call.kind ELSE call.do
CallKinds(calls) == {KindOf(calls[i]) : i \in 1..Len(calls)}
Starts(calls) == calls[Len(calls)].do = "started"

-----------------------------------------------------------------------------
(* What the caller of a request wants, and whether the kinds of headers    *)
(* written and those left to be written add up to it.                      *)

Wanted(request) == IF request.body = NoBody THEN 0 ELSE request.body

Asks(request, kinds) ==
  /\ DefaultKinds \subseteq kinds
  /\ kinds \cap (OptionalKinds \ {"encoding"}) = request.headers \ {"encoding"}
  /\ "encoding" \in kinds => "encoding" \in request.headers
  /\ "extra" \in kinds <=> request.keys # <<>>

Plan(request, written, left, starts) ==
  /\ Asks(request, written \cup left)
  /\ "length" \in left => "length" \notin written
  /\ "length" \notin written \cup left => Wanted(request) = 0
  /\ starts => "length" \notin written \cup left /\ Wanted(request) = 0

Requests == [headers : SUBSET OptionalKinds, body : Nat \cup {NoBody},
             keys : Seq(Seq(STRING))]

-----------------------------------------------------------------------------
(* What is in the buffer.                                                  *)

InBuffer == {buffer[i].kind : i \in 0..body - 1}
Sent == total - body - 2

HeadersOnly == 0 < body /\ total = body
EmptyLineWritten ==
  /\ 0 < body /\ body + 2 <= total
  /\ buffer[body] = Of("crlf", 1) /\ buffer[body + 1] = Of("crlf", 2)
  /\ \A i \in body + 2..total - 1 : buffer[i] = Of("body", i - body - 1)

AnnouncedOnce ==
  \A i \in 0..body - 1 : buffer[i].kind = "length" =>
    /\ buffer[i].n = Wanted(asked)
    /\ \A j \in 0..body - 1 : buffer[j].kind = "length" => i - j < HeaderSize["length"]

-----------------------------------------------------------------------------
(* The invariant.                                                          *)

WrittenSoFar == IF Begun THEN InBuffer ELSE {}

LaidOut(b) ==
  /\ Layout(todo, b, IF b = 0 THEN Sent ELSE 0, Wanted(asked))
  /\ Begun => AnnouncedOnce /\ IF b = 0 THEN EmptyLineWritten ELSE HeadersOnly
  /\ Plan(asked, WrittenSoFar, CallKinds(todo), Starts(todo))

(* Behind the buffer nothing is known of what was written.                 *)
Overrun == Begun /\ total >= BufferSize

PendingOK ==
  todo # <<>> /\ result = "pending" /\ ~Overrun =>
    Doomed(todo) \/ \E b \in Nat : LaidOut(b)

WrittenOK ==
  building \/ state = "READY" =>
    /\ EmptyLineWritten /\ Sent = Wanted(asked) /\ Asks(asked, InBuffer)
    /\ building => "length" \notin InBuffer /\ contentLength = Wanted(asked)
    /\ state = "READY" =>
         AnnouncedOnce /\ ("length" \notin InBuffer => Wanted(asked) = 0)

ContentInv ==
  /\ asked \in Requests
  /\ PendingOK /\ WrittenOK

-----------------------------------------------------------------------------
(* What an insertion does to the headers and to what follows them.         *)

(* An insertion adds its kind to the headers and moves the empty line and  *)
(* the body behind it as they are.                                         *)
LEMMA InsertContent ==
  ASSUME TypeOK, NEW size \in Nat, size > 0, Fits(size), NEW byte,
         Insert(size, byte)
  PROVE  /\ InBuffer' = InBuffer \cup {byte.kind}
         /\ body' = body + size /\ Sent' = Sent
         /\ \A i \in 0..body - 1 : buffer'[i] = buffer[i]
         /\ \A i \in body..body' - 1 : buffer'[i] = byte
         /\ EmptyLineWritten => EmptyLineWritten'
         /\ HeadersOnly => HeadersOnly'
<1>1. /\ BufferSize \in Nat /\ total \in Nat /\ body \in Nat /\ body <= total
      /\ total + size < BufferSize
  BY ConstantTypes, PositionTypes DEF Fits
<1>2. total' = total + size /\ body' = body + size
  BY DEF Insert
<1>3. ASSUME NEW i \in Addresses
      PROVE  buffer'[i] = IF i < body THEN buffer[i]
                          ELSE IF i < body + size THEN byte
                          ELSE IF i < total + size THEN buffer[i - size]
                          ELSE IF i = total + size THEN Nul ELSE buffer[i]
  BY <1>3 DEF Insert
<1>4. \A i \in 0..body - 1 : buffer'[i] = buffer[i]
  BY <1>1, <1>3 DEF Addresses
<1>5. \A i \in body..body' - 1 : buffer'[i] = byte
  BY <1>1, <1>2, <1>3 DEF Addresses
<1>6. InBuffer' = InBuffer \cup {byte.kind}
  <2>1. InBuffer' = {buffer'[i].kind : i \in 0..body' - 1}
    BY DEF InBuffer
  <2>2. ASSUME NEW i \in 0..body' - 1 PROVE buffer'[i].kind \in InBuffer \cup {byte.kind}
    <3>1. i \in 0..body - 1 \/ i \in body..body' - 1
      BY <1>1, <1>2
    <3> QED
      BY <1>4, <1>5, <3>1 DEF InBuffer
  <2>3. ASSUME NEW i \in 0..body - 1
        PROVE  i \in 0..body' - 1 /\ buffer'[i].kind = buffer[i].kind
    BY <1>1, <1>2, <1>4
  <2>4. body \in 0..body' - 1 /\ buffer'[body] = byte
    BY <1>1, <1>2, <1>5
  <2> QED
    BY <2>1, <2>2, <2>3, <2>4 DEF InBuffer
<1>7. ASSUME NEW i \in body'..total' - 1
      PROVE  i - size \in body..total - 1 /\ buffer'[i] = buffer[i - size]
  <2>1. i \in Addresses /\ ~(i < body) /\ ~(i < body + size) /\ i < total + size
    BY <1>1, <1>2 DEF Addresses
  <2> QED
    BY <1>1, <1>2, <1>3, <2>1
<1>8. ASSUME EmptyLineWritten PROVE EmptyLineWritten'
  <2>1. 0 < body' /\ body' + 2 <= total'
    BY <1>1, <1>2, <1>8 DEF EmptyLineWritten
  <2>2. buffer'[body'] = buffer[body] /\ buffer'[body' + 1] = buffer[body + 1]
    <3>1. body' \in body'..total' - 1 /\ body' + 1 \in body'..total' - 1
          /\ body' - size = body /\ body' + 1 - size = body + 1
      BY <1>1, <1>2, <2>1
    <3> QED
      BY <1>7, <3>1
  <2>3. ASSUME NEW i \in body' + 2..total' - 1
        PROVE  buffer'[i] = Of("body", i - body' - 1)
    <3>1. i \in body'..total' - 1 /\ i - size \in body + 2..total - 1
          /\ i - size - body - 1 = i - body' - 1
      BY <1>1, <1>2
    <3> QED
      BY <1>7, <1>8, <3>1 DEF EmptyLineWritten
  <2> QED
    BY <1>8, <2>1, <2>2, <2>3 DEF EmptyLineWritten
<1>9. Sent' = Sent
  BY <1>1, <1>2 DEF Sent
<1>10. HeadersOnly => HeadersOnly'
  BY <1>1, <1>2 DEF HeadersOnly
<1> QED
  BY <1>2, <1>4, <1>5, <1>6, <1>8, <1>9, <1>10

(* A Content-Length that is announced once, and right, stays so.           *)
LEMMA InsertAnnounced ==
  ASSUME TypeOK, NEW size \in Nat, size > 0, Fits(size), NEW byte,
         Insert(size, byte), AnnouncedOnce, asked' = asked,
         byte.kind = "length" => /\ "length" \notin InBuffer
                                 /\ size = HeaderSize["length"]
                                 /\ byte.n = Wanted(asked)
  PROVE  AnnouncedOnce'
<1>1. /\ body \in Nat /\ body' = body + size
      /\ \A i \in 0..body - 1 : buffer'[i] = buffer[i]
      /\ \A i \in body..body' - 1 : buffer'[i] = byte
  BY InsertContent, ConstantTypes DEF TypeOK
<1>2. \A i \in 0..body' - 1 : i \in 0..body - 1 \/ i \in body..body' - 1
  BY <1>1
<1>3. CASE byte.kind # "length"
  <2>1. ASSUME NEW i \in 0..body' - 1, buffer'[i].kind = "length"
        PROVE  i \in 0..body - 1 /\ buffer'[i] = buffer[i]
    BY <1>1, <1>2, <1>3, <2>1
  <2> QED
    BY <2>1 DEF AnnouncedOnce
<1>4. CASE byte.kind = "length"
  <2>1. ASSUME NEW i \in 0..body' - 1, buffer'[i].kind = "length"
        PROVE  i \in body..body' - 1 /\ buffer'[i] = byte
    <3>1. i \notin 0..body - 1
      BY <1>1, <1>4, <2>1 DEF InBuffer
    <3> QED
      BY <1>1, <1>2, <3>1
  <2>2. \A i, j \in body..body' - 1 : i - j < HeaderSize["length"]
    BY <1>1, <1>4
  <2> QED
    BY <1>4, <2>1, <2>2 DEF AnnouncedOnce
<1> QED
  BY <1>3, <1>4

(* What an appended piece does to the headers and to what follows them.    *)
LEMMA AppendContent ==
  ASSUME TypeOK, NEW size \in Nat, Fits(size), NEW kind, NEW n \in Nat,
         buffer' = Extended(size, kind, n), total' = total + size, body' = body
  PROVE  /\ InBuffer' = InBuffer
         /\ \A i \in 0..body - 1 : buffer'[i] = buffer[i]
         /\ HeadersOnly /\ kind = "crlf" /\ size = 2 /\ n = 1
              => EmptyLineWritten' /\ Sent' = 0
         /\ EmptyLineWritten /\ kind = "body" /\ n = Sent + 1
              => EmptyLineWritten' /\ Sent' = Sent + size
<1>1. /\ BufferSize \in Nat /\ total \in Nat /\ body \in Nat /\ body <= total
      /\ total + size < BufferSize
  BY ConstantTypes, PositionTypes DEF Fits
<1>2. ASSUME NEW i \in Addresses
      PROVE  buffer'[i] = IF i \in total..total + size - 1
                          THEN Of(kind, n + i - total) ELSE buffer[i]
  BY DEF Extended
<1>3. \A i \in 0..total - 1 : buffer'[i] = buffer[i]
  BY <1>1, <1>2 DEF Addresses
<1>4. \A i \in total..total' - 1 : buffer'[i] = Of(kind, n + i - total)
  BY <1>1, <1>2 DEF Addresses
<1>5. \A i \in 0..body - 1 : buffer'[i] = buffer[i]
  BY <1>1, <1>3
<1>6. InBuffer' = InBuffer
  BY <1>5 DEF InBuffer
<1>7. ASSUME HeadersOnly, kind = "crlf", size = 2, n = 1
      PROVE  EmptyLineWritten' /\ Sent' = 0
  <2>1. 0 < body' /\ body' + 2 <= total' /\ Sent' = 0 /\ body' + 2..total' - 1 = {}
    BY <1>1, <1>7 DEF HeadersOnly, Sent
  <2>2. /\ body' \in total..total' - 1 /\ body' + 1 \in total..total' - 1
        /\ n + body' - total = 1 /\ n + (body' + 1) - total = 2
    BY <1>1, <1>7 DEF HeadersOnly
  <2>3. buffer'[body'] = Of("crlf", 1) /\ buffer'[body' + 1] = Of("crlf", 2)
    BY <1>4, <1>7, <2>2
  <2> QED
    BY <2>1, <2>3 DEF EmptyLineWritten
<1>8. ASSUME EmptyLineWritten, kind = "body", n = Sent + 1
      PROVE  EmptyLineWritten' /\ Sent' = Sent + size
  <2>1. 0 < body' /\ body' + 2 <= total' /\ Sent' = Sent + size
    BY <1>1, <1>8 DEF EmptyLineWritten, Sent
  <2>2. body \in 0..total - 1 /\ body + 1 \in 0..total - 1
    BY <1>1, <1>8 DEF EmptyLineWritten
  <2>3. buffer'[body'] = Of("crlf", 1) /\ buffer'[body' + 1] = Of("crlf", 2)
    BY <1>3, <1>8, <2>2 DEF EmptyLineWritten
  <2>4. ASSUME NEW i \in body' + 2..total' - 1
        PROVE  buffer'[i] = Of("body", i - body' - 1)
    <3>1. CASE i < total
      <4>1. i \in 0..total - 1 /\ i \in body + 2..total - 1
        BY <1>1, <3>1
      <4> QED
        BY <1>3, <1>8, <4>1 DEF EmptyLineWritten
    <3>2. CASE i >= total
      <4>1. i \in total..total' - 1 /\ n + i - total = i - body' - 1
        BY <1>1, <1>8, <3>2 DEF Sent
      <4> QED
        BY <1>4, <1>8, <4>1
    <3> QED
      BY <1>1, <3>1, <3>2
  <2> QED
    BY <2>1, <2>3, <2>4 DEF EmptyLineWritten
<1> QED
  BY <1>5, <1>6, <1>7, <1>8

-----------------------------------------------------------------------------
(* A call that is done leaves a layout of the calls after it.              *)

(* What the first call left is, by where the empty line is among the       *)
(* calls, and what it would write.                                         *)
LEMMA LayoutHead ==
  ASSUME NEW calls \in Seq(Calls), NEW b \in Nat, NEW count \in Int, NEW want \in Nat,
         Layout(calls, b, count, want)
  PROVE  /\ Len(calls) \in Nat /\ Len(calls) > 0 /\ b \in Nat /\ b < Len(calls)
         /\ Head(calls) = calls[1] /\ calls # <<>>
         /\ b >= 2 => Head(calls).do \in HeadCalls
         /\ b = 1 => Head(calls) = EmptyLine
         /\ b = 0 => Head(calls).do \in {"body", "ready", "started"}
         /\ b = 0 /\ Head(calls).do = "body" =>
              Head(calls).kind = "body" /\ Head(calls).n = count + 1 /\ Len(calls) > 1
         /\ b = 0 /\ Head(calls).do # "body" => want + 1 = count + 1
         /\ b = 0 /\ Head(calls).do # "body" => Len(calls) = 1
         /\ IsLength(Head(calls)) => b = 2 /\ Head(calls).n = want
         /\ Head(calls).do = "header" => Head(calls).size = HeaderSize[Head(calls).kind]
<1>0. /\ Len(calls) \in Nat /\ Len(calls) > 0 /\ b \in Nat /\ b < Len(calls)
      /\ calls # <<>>
  BY DEF Layout
<1>1. /\ Len(calls) \in Nat /\ Len(calls) > 0 /\ b \in Nat /\ b < Len(calls)
      /\ calls # <<>> /\ Head(calls) = calls[1]
  BY <1>0
<1>2. b >= 2 => Head(calls).do \in HeadCalls
  BY <1>1 DEF Layout
<1>3. b = 1 => Head(calls) = EmptyLine
  BY <1>1 DEF Layout
<1>4. ASSUME b = 0, Len(calls) > 1
      PROVE  /\ Head(calls).do = "body" /\ Head(calls).kind = "body"
             /\ Head(calls).n = count + 1
  <2>1. 1 \in b + 1..Len(calls) - 1
    BY <1>1, <1>4
  <2> QED
    BY <1>1, <1>4, <2>1 DEF Layout, From
<1>5. ASSUME b = 0, Len(calls) = 1
      PROVE  Head(calls).do \in {"ready", "started"} /\ want + 1 = count + 1
  <2>2. calls[1].do \in {"ready", "started"} /\ From(calls, 1, want) = count + 1
    BY <1>1, <1>5 DEF Layout
  <2> QED
    BY <1>1, <2>2 DEF From
<1>6. Len(calls) > 1 \/ Len(calls) = 1
  <2>1. \A n \in Nat : n > 0 => n > 1 \/ n = 1
    OBVIOUS
  <2> QED
    BY <1>0, <2>1
<1>10. /\ IsLength(Head(calls)) => b = 2 /\ Head(calls).n = want
       /\ Head(calls).do = "header" => Head(calls).size = HeaderSize[Head(calls).kind]
  <2>1. 1 \in 1..Len(calls) /\ calls[1] = Head(calls)
    BY <1>0, <1>1
  <2>2. /\ IsLength(calls[1]) => 1 = b - 1 /\ calls[1].n = want
        /\ calls[1].do = "header" => calls[1].size = HeaderSize[calls[1].kind]
    BY <2>1 DEF Layout
  <2> QED
    BY <1>1, <2>2
<1>7. CASE b = 0 /\ Len(calls) > 1
  BY <1>1, <1>4, <1>7, <1>10
<1>8. CASE b = 0 /\ Len(calls) = 1
  BY <1>1, <1>5, <1>8, <1>10
<1>9. CASE b # 0
  BY <1>1, <1>2, <1>3, <1>9, <1>10
<1> QED
  BY <1>6, <1>7, <1>8, <1>9

(* Once the first call is made, the calls left are laid out as before, the *)
(* bytes it appends being counted.                                         *)
LEMMA LayoutTail ==
  ASSUME NEW calls \in Seq(Calls), NEW b \in Nat, NEW count \in Int, NEW want \in Nat,
         Layout(calls, b, count, want), Len(calls) > 1
  PROVE  /\ b > 0 => Layout(Tail(calls), b - 1, count, want)
         /\ b = 0 => Layout(Tail(calls), 0, count + Head(calls).size, want)
         /\ Tail(calls) # <<>>
<1>1. /\ Len(calls) \in Nat /\ b \in Nat /\ b < Len(calls)
      /\ Head(calls) = calls[1] /\ calls[1] \in Calls
  BY LayoutHead
<1>0. b = 0 => Head(calls).do = "body" /\ Head(calls).n = count + 1
  <2>1. b = 0 /\ Head(calls).do # "body" => Len(calls) = 1
    BY LayoutHead, Zenon
  <2>2. b = 0 /\ Head(calls).do = "body" => Head(calls).n = count + 1
    BY LayoutHead, Zenon
  <2>3. Len(calls) # 1
    <3>1. \A n \in Nat : n > 1 => n # 1
      OBVIOUS
    <3> QED
      BY <1>1, <3>1
  <2> QED
    BY <2>1, <2>2, <2>3
<1> DEFINE rest == Tail(calls)
<1>2. /\ Len(rest) = Len(calls) - 1 /\ rest # <<>>
      /\ \A i \in 1..Len(rest) : rest[i] = calls[i + 1]
  <2>1. calls \in Seq(Calls) /\ Len(calls) > 1
    OBVIOUS
  <2>2. Len(rest) = Len(calls) - 1
    BY <1>1
  <2>3. Len(rest) > 0
    BY <1>1, <2>1, <2>2
  <2>4. rest # <<>>
    <3>1. rest \in Seq(Calls)
      BY <2>1
    <3>2. \A s \in Seq(Calls) : Len(s) > 0 => s # <<>>
      OBVIOUS
    <3> QED
      BY <2>3, <3>1, <3>2, Zenon
  <2>5. ASSUME NEW i \in 1..Len(rest) PROVE rest[i] = calls[i + 1]
    <3>1. i \in 1..Len(calls) - 1
      BY <1>1, <2>2
    <3> QED
      BY <3>1
  <2> QED
    BY <2>2, <2>4, <2>5
<1> HIDE DEF rest
<1>3. /\ Len(rest) \in Nat /\ Len(rest) + 1 = Len(calls) /\ Len(rest) > 0
      /\ rest[Len(rest)] = calls[Len(calls)]
  BY <1>1, <1>2
<1>4. rest[Len(rest)].do \in {"ready", "started"}
  BY <1>3 DEF Layout
<1>5. \A i \in 1..Len(rest) : From(rest, i, want) = From(calls, i + 1, want)
  BY <1>2 DEF From
<1>6. ASSUME NEW d \in Nat, d = IF b = 0 THEN 0 ELSE b - 1
      PROVE  /\ d \in 0..Len(rest) - 1
             /\ \A i \in 1..d - 1 : rest[i].do \in HeadCalls
             /\ d > 0 => rest[d] = EmptyLine
             /\ \A i \in d + 1..Len(rest) - 1 :
                  rest[i].do = "body" /\ rest[i].kind = "body"
             /\ \A i \in d + 1..Len(rest) - 1 :
                  From(rest, i + 1, want) = From(rest, i, want) + rest[i].size
             /\ \A i \in 1..Len(rest) :
                  /\ IsLength(rest[i]) => i = d - 1 /\ rest[i].n = want
                  /\ rest[i].do = "header" => rest[i].size = HeaderSize[rest[i].kind]
  <2>1. d \in 0..Len(rest) - 1
    BY <1>1, <1>3, <1>6
  <2>2. ASSUME NEW i \in 1..d - 1 PROVE rest[i].do \in HeadCalls
    <3>1. i \in 1..Len(rest) /\ i + 1 \in 1..b - 1
      BY <1>1, <1>3, <1>6
    <3> QED
      BY <1>2, <3>1 DEF Layout
  <2>3. d > 0 => rest[d] = EmptyLine
    BY <1>1, <1>2, <1>3, <1>6 DEF Layout
  <2>4. ASSUME NEW i \in d + 1..Len(rest) - 1
        PROVE  /\ rest[i].do = "body" /\ rest[i].kind = "body"
               /\ From(rest, i + 1, want) = From(rest, i, want) + rest[i].size
    <3>1. /\ i \in 1..Len(rest) /\ i + 1 \in 1..Len(rest)
          /\ i + 1 \in b + 1..Len(calls) - 1
      BY <1>1, <1>3, <1>6
    <3>2. /\ calls[i + 1].do = "body" /\ calls[i + 1].kind = "body"
          /\ From(calls, (i + 1) + 1, want) = From(calls, i + 1, want) + calls[i + 1].size
      BY <3>1 DEF Layout
    <3> QED
      BY <1>2, <1>5, <3>1, <3>2
  <2>5. ASSUME NEW i \in 1..Len(rest), IsLength(rest[i])
        PROVE  i = d - 1 /\ rest[i].n = want
    <3>1. i + 1 \in 1..Len(calls) /\ IsLength(calls[i + 1])
      BY <1>1, <1>2, <1>3, <2>5
    <3>2. i + 1 = b - 1 /\ calls[i + 1].n = want
      BY <3>1 DEF Layout
    <3> QED
      BY <1>1, <1>2, <1>6, <3>2
  <2>6. ASSUME NEW i \in 1..Len(rest), rest[i].do = "header"
        PROVE  rest[i].size = HeaderSize[rest[i].kind]
    <3>1. i + 1 \in 1..Len(calls) /\ calls[i + 1].do = "header"
      BY <1>1, <1>2, <1>3, <2>6
    <3> QED
      BY <1>2, <3>1 DEF Layout
  <2> QED
    BY <2>1, <2>2, <2>3, <2>4, <2>5, <2>6
<1>7. ASSUME b > 0 PROVE Layout(rest, b - 1, count, want)
  <2>1. From(rest, b, want) = count + 1
    BY <1>1, <1>3, <1>5, <1>7 DEF Layout
  <2>2. (b - 1) + 1 = b /\ b - 1 \in Nat
    BY <1>1, <1>7
  <2> QED
    BY <1>4, <1>6, <1>7, <2>1, <2>2 DEF Layout
<1>8. ASSUME b = 0 PROVE Layout(rest, 0, count + Head(calls).size, want)
  <2>1. 1 \in b + 1..Len(calls) - 1
    BY <1>1, <1>8
  <2>2. From(calls, 1 + 1, want) = From(calls, 1, want) + calls[1].size
    BY <2>1 DEF Layout
  <2>3. From(calls, 1, want) = count + 1
    BY <1>0, <1>1, <1>8 DEF From
  <2>4. From(rest, 1, want) = (count + 1) + calls[1].size
    BY <1>3, <1>5, <2>2, <2>3
  <2>5. calls[1].size \in Nat
    BY <1>0, <1>1, <1>8, ArgumentTypes
  <2>6. From(rest, 0 + 1, want) = (count + calls[1].size) + 1
    <3>1. From(rest, 1, want) \in Int /\ 0 + 1 = 1
      BY <2>4, <2>5
    <3> QED
      BY <2>4, <2>5, <3>1
  <2> QED
    BY <1>1, <1>4, <1>6, <1>8, <2>6 DEF Layout
<1> QED
  BY <1>2, <1>7, <1>8 DEF rest

-----------------------------------------------------------------------------
(* The kinds of headers left to be written.                                *)

(* Only the call that sets Content-Length is of that kind.                 *)
LEMMA LengthKind ==
  ASSUME NEW call \in Calls
  PROVE  KindOf(call) = "length" <=> IsLength(call)
<1>1. call.do # "length"
  BY DEF Calls, Rest, HeaderCall, ExtraCall, BodyCall, PlainCall, Line
<1> QED
  BY <1>1 DEF KindOf, IsLength

(* Calls none of which sets Content-Length do not have its kind.           *)
LEMMA NoLengthKind ==
  ASSUME NEW calls \in Seq(Calls), \A i \in 1..Len(calls) : ~IsLength(calls[i])
  PROVE  "length" \notin CallKinds(calls)
<1>1. ASSUME NEW i \in 1..Len(calls) PROVE KindOf(calls[i]) # "length"
  <2>1. calls[i] \in Calls
    OBVIOUS
  <2> QED
    BY <2>1, LengthKind
<1> QED
  BY <1>1 DEF CallKinds

(* The kinds of the calls left lose at most that of the call that was      *)
(* made; what the list ends in stays.                                      *)
LEMMA KindsTail ==
  ASSUME NEW calls \in Seq(Calls), calls # <<>>
  PROVE  /\ CallKinds(calls) = {KindOf(Head(calls))} \cup CallKinds(Tail(calls))
         /\ Tail(calls) # <<>> => /\ Starts(Tail(calls)) = Starts(calls)
                                  /\ Doomed(calls) => Doomed(Tail(calls))
<1> DEFINE rest == Tail(calls)
<1>1. /\ rest \in Seq(Calls) /\ Len(rest) \in Nat /\ Len(calls) = Len(rest) + 1
      /\ Head(calls) = calls[1] /\ Len(calls) \in Nat
  OBVIOUS
<1>2. \A i \in 1..Len(rest) : rest[i] = calls[i + 1]
  OBVIOUS
<1> HIDE DEF rest
<1>3. CallKinds(calls) = {KindOf(calls[1])} \cup CallKinds(rest)
  <2>1. ASSUME NEW i \in 1..Len(calls)
        PROVE  KindOf(calls[i]) \in {KindOf(calls[1])} \cup CallKinds(rest)
    <3>1. CASE i = 1
      BY <3>1
    <3>2. CASE i # 1
      <4>1. i - 1 \in 1..Len(rest) /\ (i - 1) + 1 = i
        BY <1>1, <3>2
      <4>2. rest[i - 1] = calls[i]
        BY <1>2, <4>1
      <4> QED
        BY <4>1, <4>2 DEF CallKinds
    <3> QED
      BY <3>1, <3>2
  <2>2. ASSUME NEW i \in 1..Len(rest)
        PROVE  KindOf(rest[i]) \in CallKinds(calls)
    <3>1. i + 1 \in 1..Len(calls) /\ rest[i] = calls[i + 1]
      BY <1>1, <1>2
    <3> QED
      BY <3>1 DEF CallKinds
  <2>3. 1 \in 1..Len(calls)
    BY <1>1
  <2> QED
    BY <2>1, <2>2, <2>3 DEF CallKinds
<1>4. ASSUME rest # <<>>
      PROVE  Starts(rest) = Starts(calls) /\ (Doomed(calls) => Doomed(rest))
  <2>1. Len(rest) \in 1..Len(rest) /\ Len(rest) + 1 = Len(calls)
    BY <1>1, <1>4
  <2>2. rest[Len(rest)] = calls[Len(calls)]
    BY <1>2, <2>1
  <2>3. \A i \in 1..Len(rest) : i + 1 \in 1..Len(calls) /\ rest[i] = calls[i + 1]
    BY <1>1, <1>2
  <2> QED
    BY <2>2, <2>3 DEF Starts, Doomed
<1> QED
  BY <1>1, <1>3, <1>4 DEF rest

(* A plan goes on as headers are written; only an encoding may be dropped. *)
LEMMA PlanGoesOn ==
  ASSUME NEW request, NEW written, NEW left, NEW starts, NEW written2, NEW left2,
         Plan(request, written, left, starts),
         \A kind \in HeaderKinds : kind \in written2 \cup left2 => kind \in written \cup left,
         \A kind \in HeaderKinds : kind \in written \cup left /\ kind # "encoding"
                                     => kind \in written2 \cup left2,
         "length" \in left2 => "length" \notin written2
  PROVE  Plan(request, written2, left2, starts)
<1> DEFINE kinds == written \cup left
           kinds2 == written2 \cup left2
<1>1. /\ DefaultKinds \subseteq HeaderKinds /\ OptionalKinds \subseteq HeaderKinds
      /\ "length" \in HeaderKinds /\ "extra" \in HeaderKinds
      /\ "encoding" \in HeaderKinds /\ "encoding" \notin DefaultKinds
      /\ "length" # "encoding" /\ "extra" # "encoding"
  BY DEF HeaderKinds, DefaultKinds, OptionalKinds
<1>2. \A kind \in HeaderKinds : kind # "encoding" => (kind \in kinds2 <=> kind \in kinds)
  OBVIOUS
<1>3. "encoding" \in kinds2 => "encoding" \in kinds
  BY <1>1
<1>4. Asks(request, kinds)
  BY DEF Plan
<1> HIDE DEF kinds, kinds2
<1>5. DefaultKinds \subseteq kinds2
  BY <1>1, <1>2, <1>4 DEF Asks
<1>6. kinds2 \cap (OptionalKinds \ {"encoding"}) = kinds \cap (OptionalKinds \ {"encoding"})
  BY <1>1, <1>2
<1>7. Asks(request, kinds2)
  BY <1>1, <1>2, <1>3, <1>4, <1>5, <1>6 DEF Asks
<1>8. "length" \in kinds2 <=> "length" \in kinds
  BY <1>1, <1>2
<1> QED
  BY <1>7, <1>8 DEF Plan, kinds, kinds2

-----------------------------------------------------------------------------
(* The calls of an operation that is pending, one after the other.         *)

(* The whole body a caller wants has a length.                             *)
LEMMA RequestTypes ==
  ASSUME ContentInv
  PROVE  Wanted(asked) \in Nat
<1>1. asked.body \in Nat \cup {NoBody}
  BY DEF ContentInv, Requests
<1> QED
  BY <1>1 DEF Wanted

(* What the layout says of the call to be made.                            *)
LEMMA CallFacts ==
  ASSUME IInv, ContentInv, NEW do, Now(do), NEW b \in Nat, LaidOut(b)
  PROVE  /\ Layout(todo, b, IF b = 0 THEN Sent ELSE 0, Wanted(asked))
         /\ (IF b = 0 THEN Sent ELSE 0) \in Int
         /\ b < Len(todo) /\ Len(todo) \in Nat
         /\ do # "line" => Begun
         /\ do \in HeadCalls => b >= 2
         /\ do = "header" => Call.size = HeaderSize[Call.kind]
         /\ do = "body" => \/ b = 1 /\ Call = EmptyLine
                           \/ /\ b = 0 /\ Len(todo) > 1
                              /\ Call.kind = "body" /\ Call.n = Sent + 1
         /\ do \in {"ready", "started"} => b = 0 /\ Sent = Wanted(asked) /\ Len(todo) = 1
<1>1. todo \in Seq(Calls) /\ todo # <<>> /\ Call.do = do
  BY NowFacts
<1>2. (IF b = 0 THEN Sent ELSE 0) \in Int
  BY ConstantTypes, PositionTypes DEF Sent, IInv
<1>3. Layout(todo, b, IF b = 0 THEN Sent ELSE 0, Wanted(asked))
  BY DEF LaidOut
<1> DEFINE count == IF b = 0 THEN Sent ELSE 0
<1>4. Layout(todo, b, count, Wanted(asked)) /\ count \in Int /\ Wanted(asked) \in Nat
  BY <1>2, <1>3, RequestTypes
<1>5. b = 0 => count = Sent
  OBVIOUS
<1> HIDE DEF count
<1>6. do # "line" => Begun
  BY <1>1, BegunAfter
<1>7. /\ b < Len(todo) /\ Len(todo) \in Nat
      /\ b = 1 => Call = EmptyLine
      /\ b = 0 => do \in {"body", "ready", "started"}
      /\ b >= 2 => do \in HeadCalls
      /\ do = "header" => Call.size = HeaderSize[Call.kind]
  <2>1. /\ b < Len(todo) /\ Len(todo) \in Nat
    BY <1>1, <1>4, LayoutHead
  <2>2. b = 1 => Call = EmptyLine
    BY <1>1, <1>4, LayoutHead DEF Call
  <2>3. b = 0 => Call.do \in {"body", "ready", "started"}
    BY <1>1, <1>4, LayoutHead DEF Call
  <2>4. b >= 2 => Call.do \in HeadCalls
    BY <1>1, <1>4, LayoutHead DEF Call
  <2>5. Call.do = "header" => Call.size = HeaderSize[Call.kind]
    BY <1>1, <1>4, LayoutHead DEF Call
  <2> QED
    BY <1>1, <2>1, <2>2, <2>3, <2>4, <2>5
<1>8. /\ b = 0 /\ do = "body" => Call.kind = "body" /\ Call.n = count + 1 /\ Len(todo) > 1
      /\ b = 0 /\ do # "body" => Wanted(asked) + 1 = count + 1
      /\ b = 0 /\ do # "body" => Len(todo) = 1
  <2>1. b = 0 /\ Call.do = "body" => Call.kind = "body" /\ Call.n = count + 1 /\ Len(todo) > 1
    BY <1>1, <1>4, LayoutHead, Zenon DEF Call
  <2>2. b = 0 /\ Call.do # "body" => Wanted(asked) + 1 = count + 1
    BY <1>1, <1>4, LayoutHead, Zenon DEF Call
  <2>3. b = 0 /\ Call.do # "body" => Len(todo) = 1
    BY <1>1, <1>4, LayoutHead, Zenon DEF Call
  <2> QED
    BY <1>1, <2>1, <2>2, <2>3
<1>9. EmptyLine.do = "body" /\ "body" \notin HeadCalls
      /\ "ready" \notin HeadCalls /\ "started" \notin HeadCalls
  BY DEF EmptyLine, Piece, HeadCalls
<1>10. b = 1 => do = "body"
  BY <1>1, <1>7, <1>9
<1>11. b = 0 \/ b = 1 \/ b >= 2
  OBVIOUS
<1>12. do \in HeadCalls => b >= 2
  BY <1>7, <1>9, <1>10, <1>11
<1>13. do = "body" => \/ b = 1 /\ Call = EmptyLine
                      \/ /\ b = 0 /\ Len(todo) > 1
                         /\ Call.kind = "body" /\ Call.n = Sent + 1
  BY <1>5, <1>7, <1>8, <1>9, <1>11
<1>14. do \in {"ready", "started"} => b = 0
  BY <1>7, <1>9, <1>10, <1>11
<1>15. do \in {"ready", "started"} => Sent = Wanted(asked) /\ Len(todo) = 1
  <2> SUFFICES ASSUME do \in {"ready", "started"} PROVE Sent = Wanted(asked) /\ Len(todo) = 1
    OBVIOUS
  <2>1. b = 0 /\ do # "body"
    BY <1>14
  <2> QED
    BY <1>4, <1>5, <1>8, <2>1
<1> QED
  BY <1>2, <1>3, <1>6, <1>7, <1>12, <1>13, <1>14, <1>15

(* A pending call other than a header's finds no overrun.                  *)
LEMMA NoOverrun ==
  ASSUME IInv, NEW do, Now(do), result = "pending", do = "header" => total < BufferSize
  PROVE  ~Overrun
<1> SUFFICES ASSUME Begun, total >= BufferSize PROVE FALSE
  BY DEF Overrun
<1>1. todo # <<>> /\ todo \in Seq(Calls) /\ Call.do = do
  BY NowFacts
<1>2. do \in {"line", "header"}
  BY <1>1 DEF IInv, OverrunOK, NothingAfter
<1>3. do # "line"
  BY <1>1 DEF Begun, Call
<1>4. total \in Nat /\ BufferSize \in Nat
  BY ConstantTypes, PositionTypes DEF IInv
<1> QED
  BY <1>2, <1>3, <1>4

(* A call before the empty line: what it writes is a header, or nothing.   *)
LEMMA HeadCallKeeps ==
  ASSUME IInv, ContentInv,
         NEW do \in {"line", "header", "extra", "encoding", "token"},
         Now(do), Done, state' = state, do = "header" => total < BufferSize,
         \A b \in Nat : b >= 2 /\ LaidOut(b) =>
           /\ HeadersOnly' /\ AnnouncedOnce'
           /\ \A kind \in HeaderKinds :
                kind \in InBuffer' => kind \in WrittenSoFar \cup {KindOf(Call)}
           /\ \A kind \in HeaderKinds :
                kind \in WrittenSoFar \cup {KindOf(Call)} /\ kind # "encoding"
                  => kind \in InBuffer'
  PROVE  ContentInv'
<1>1. /\ todo # <<>> /\ todo \in Seq(Calls) /\ Call \in Calls /\ Call.do = do
      /\ state = "IDLE" /\ building = FALSE
  BY NowFacts
<1>2. todo' = Tail(todo) /\ result' = result /\ building' = building /\ asked' = asked
  BY DEF Done
<1>3. WrittenOK' /\ (asked \in Requests)'
  BY <1>1, <1>2 DEF WrittenOK, ContentInv
<1>4. do \in HeadCalls /\ do # "crash"
  BY DEF HeadCalls
<1>5. ASSUME todo' # <<>>, result' = "pending"
      PROVE  Doomed(todo') \/ \E b \in Nat : LaidOut(b)'
  <2>1. Doomed(todo) \/ \E b \in Nat : LaidOut(b)
    BY <1>1, <1>2, <1>5, NoOverrun DEF ContentInv, PendingOK
  <2>2. CASE Doomed(todo)
    BY <1>1, <1>2, <1>5, <2>2, KindsTail
  <2>3. CASE \E b \in Nat : LaidOut(b)
    <3>1. PICK b \in Nat : LaidOut(b)
      BY <2>3
    <3>2. b >= 2 /\ b < Len(todo) /\ Len(todo) \in Nat
          /\ Layout(todo, b, 0, Wanted(asked))
      BY <1>4, <3>1, CallFacts
    <3>3. Len(todo) > 1 /\ b > 0 /\ b - 1 \in Nat /\ b - 1 # 0
      BY <3>2
    <3>4. Layout(todo', b - 1, 0, Wanted(asked))
      BY <1>1, <1>2, <3>2, <3>3, LayoutTail, RequestTypes
    <3>5. /\ CallKinds(todo) = {KindOf(Call)} \cup CallKinds(todo')
          /\ Starts(todo') = Starts(todo)
      BY <1>1, <1>2, <1>5, KindsTail DEF Call
    <3>6. Begun'
      BY <1>1, <1>2, BegunAfter DEF Begun
    <3>7. WrittenSoFar' = InBuffer'
      BY <3>6 DEF WrittenSoFar
    <3>8. Plan(asked, WrittenSoFar, CallKinds(todo), Starts(todo))
      BY <3>1 DEF LaidOut
    <3>9. "length" \in HeaderKinds
      BY DEF HeaderKinds
    <3>10. /\ HeadersOnly' /\ AnnouncedOnce'
           /\ \A kind \in HeaderKinds :
                kind \in InBuffer' => kind \in WrittenSoFar \cup {KindOf(Call)}
           /\ \A kind \in HeaderKinds :
                kind \in WrittenSoFar \cup {KindOf(Call)} /\ kind # "encoding"
                  => kind \in InBuffer'
      BY <3>1, <3>2
    <3>11. "length" \in CallKinds(todo') => "length" \notin InBuffer'
      <4> SUFFICES ASSUME "length" \in CallKinds(todo'), "length" \in InBuffer'
                   PROVE  FALSE
        OBVIOUS
      <4>1. "length" \notin WrittenSoFar
        BY <3>5, <3>8 DEF Plan
      <4>2. KindOf(Call) = "length"
        BY <3>9, <3>10, <4>1
      <4>3. IsLength(Call)
        BY <1>1, <4>2, LengthKind
      <4>4. b = 2
        BY <1>1, <3>2, <4>3, LayoutHead, RequestTypes DEF Call
      <4>5. \A i \in 1..Len(todo') : ~IsLength(todo'[i])
        BY <3>4, <4>4 DEF Layout
      <4>6. todo' \in Seq(Calls)
        BY <1>1, <1>2, BegunAfter
      <4> QED
        BY <4>5, <4>6, NoLengthKind
    <3>12. Plan(asked, InBuffer', CallKinds(todo'), Starts(todo'))
      <4>1. ASSUME NEW kind \in HeaderKinds, kind \in InBuffer' \cup CallKinds(todo')
            PROVE  kind \in WrittenSoFar \cup CallKinds(todo)
        BY <3>5, <3>10, <4>1
      <4>2. ASSUME NEW kind \in HeaderKinds, kind # "encoding",
                   kind \in WrittenSoFar \cup CallKinds(todo)
            PROVE  kind \in InBuffer' \cup CallKinds(todo')
        BY <3>5, <3>10, <4>2
      <4> DEFINE written2 == InBuffer'
                 left2 == CallKinds(todo')
      <4> HIDE DEF written2, left2
      <4>3. Plan(asked, written2, left2, Starts(todo))
        BY <3>8, <3>11, <4>1, <4>2, PlanGoesOn DEF written2, left2
      <4> QED
        BY <3>5, <4>3 DEF written2, left2
    <3>13. LaidOut(b - 1)'
      BY <1>2, <3>3, <3>4, <3>6, <3>7, <3>10, <3>12 DEF LaidOut
    <3> QED
      BY <3>3, <3>13
  <2> QED
    BY <2>1, <2>2, <2>3
<1> QED
  BY <1>3, <1>5 DEF ContentInv, PendingOK

(* An operation that fails has asked for nothing.                          *)
LEMMA FailureKeeps ==
  ASSUME IInv, ContentInv, NEW do, Now(do), state' = state,
         Fails \/ (todo' = <<>> /\ result' # "pending" /\ UNCHANGED <<building, asked>>)
  PROVE  ContentInv'
<1>1. state = "IDLE" /\ building = FALSE
  BY NowFacts
<1>2. Nothing \in Requests
  BY DEF Nothing, Requests
<1>3. result' # "pending" \/ todo' = <<>>
  BY DEF Fails
<1>4. building' = building /\ asked' \in Requests
  BY <1>2 DEF Fails, ContentInv
<1> QED
  BY <1>1, <1>3, <1>4 DEF ContentInv, PendingOK, WrittenOK

(* The request line starts the headers of an empty request, whatever an    *)
(* earlier one left in the buffer.                                         *)
LEMMA SetRequestLineContent ==
  ASSUME IInv, ContentInv, SetRequestLine
  PROVE  ContentInv'
<1>1. Now("line") /\ state' = state
  BY DEF SetRequestLine, Same
<1>2. PICK l \in Lines :
        \/ /\ l.tested < BufferSize
           /\ buffer' = [i \in Addresses |-> IF i < l.size THEN Of("line", 0) ELSE Nul]
           /\ total' = l.size /\ body' = l.size
           /\ Done
        \/ Fails
  BY DEF SetRequestLine
<1>5. CASE Done /\ total' = l.size /\ l.size >= BufferSize
  <2>1. /\ state = "IDLE" /\ building = FALSE /\ todo # <<>>
        /\ asked' = asked /\ building' = building /\ todo' = Tail(todo)
    BY <1>1, <1>5, NowFacts DEF Done
  <2>2. Overrun'
    BY <1>5, <2>1, BegunAfter DEF Overrun, Begun
  <2> QED
    BY <1>1, <2>1, <2>2 DEF ContentInv, PendingOK, WrittenOK
<1>3. CASE Done /\ total' = l.size /\ body' = l.size /\ ~(l.size >= BufferSize)
           /\ buffer' = [i \in Addresses |-> IF i < l.size THEN Of("line", 0) ELSE Nul]
  <2>1. l.size \in Nat /\ l.size > 0 /\ l.size < BufferSize /\ BufferSize \in Nat
    <3>1. l.size \in Nat \ {0}
      BY RequestAssumption
    <3> QED
      BY <1>3, <3>1, ConstantTypes
  <2>2. \A i \in 0..body' - 1 : buffer'[i] = Of("line", 0)
    BY <1>3, <2>1 DEF Addresses
  <2>3. \A i \in 0..body' - 1 : buffer'[i].kind = "line"
    BY <2>2, ByteTypes
  <2>4. InBuffer' = {"line"}
    <3>1. 0 \in 0..body' - 1
      BY <1>3, <2>1
    <3> QED
      BY <2>3, <3>1 DEF InBuffer
  <2>5. HeadersOnly'
    BY <1>3, <2>1 DEF HeadersOnly
  <2>6. AnnouncedOnce'
    BY <2>3 DEF AnnouncedOnce
  <2>7. todo # <<>> /\ todo \in Seq(Calls) /\ Call.do = "line"
    BY <1>1, NowFacts
  <2>8. KindOf(Call) = "line"
    BY <2>7 DEF KindOf
  <2>9. WrittenSoFar = {}
    <3>1. 1 \in DOMAIN todo /\ todo[1].do = "line"
      BY <2>7 DEF Call
    <3> QED
      BY <3>1 DEF WrittenSoFar, Begun
  <2> QED
    BY <1>1, <1>3, <2>4, <2>5, <2>6, <2>8, <2>9, HeadCallKeeps
<1>4. CASE Fails
  BY <1>1, <1>4, FailureKeeps
<1> QED
  BY <1>2, <1>3, <1>4, <1>5

(* A call before the empty line, after the request line, that inserts.     *)
LEMMA InsertCallKeeps ==
  ASSUME IInv, ContentInv, NEW do \in {"header", "extra", "encoding"},
         Now(do), Done, state' = state,
         NEW size \in Nat, size > 0, Fits(size), NEW kind, NEW n,
         Insert(size, Of(kind, n)), kind = KindOf(Call),
         kind = "length" => do = "header" /\ size = Call.size /\ n = Call.n
  PROVE  ContentInv'
<1>1. /\ todo # <<>> /\ todo \in Seq(Calls) /\ Call \in Calls /\ Call.do = do
  BY NowFacts
<1>2. TypeOK /\ asked' = asked /\ Of(kind, n).kind = kind /\ Of(kind, n).n = n
  BY DEF IInv, Done, Of
<1>3. InBuffer' = InBuffer \cup {kind} /\ (HeadersOnly => HeadersOnly')
  BY <1>2, InsertContent
<1>4. ASSUME NEW b \in Nat, b >= 2, LaidOut(b)
      PROVE  HeadersOnly' /\ AnnouncedOnce' /\ WrittenSoFar = InBuffer
  <2>1. Begun
    BY <1>4, CallFacts
  <2>2. HeadersOnly /\ AnnouncedOnce /\ WrittenSoFar = InBuffer
    BY <1>4, <2>1 DEF LaidOut, WrittenSoFar
  <2>3. ASSUME kind = "length"
        PROVE  /\ "length" \notin InBuffer /\ size = HeaderSize["length"]
               /\ n = Wanted(asked)
    <3>1. IsLength(Call) /\ "length" \in CallKinds(todo)
      BY <1>1, <2>3, LengthKind, KindsTail DEF Call
    <3>2. Layout(todo, b, 0, Wanted(asked))
      BY <1>4, CallFacts
    <3>3. Call.n = Wanted(asked)
      BY <1>1, <3>1, <3>2, LayoutHead, RequestTypes DEF Call
    <3>4. Call.size = HeaderSize["length"]
      BY <1>4, <2>3, <3>1, CallFacts DEF IsLength
    <3>5. "length" \notin InBuffer
      BY <1>4, <2>2, <3>1 DEF LaidOut, Plan
    <3> QED
      BY <2>3, <3>3, <3>4, <3>5
  <2>4. AnnouncedOnce'
    BY <1>2, <2>2, <2>3, InsertAnnounced
  <2> QED
    BY <1>3, <2>2, <2>4
<1>5. total < BufferSize
  BY ConstantTypes, PositionTypes DEF IInv, Fits
<1> QED
  BY <1>3, <1>4, <1>5, HeadCallKeeps

(* A call before the empty line that writes nothing.                       *)
LEMMA SilentCallKeeps ==
  ASSUME IInv, ContentInv, NEW do \in {"encoding", "token"},
         Now(do), Done, state' = state, UNCHANGED text
  PROVE  ContentInv'
<1>1. Call.do = do /\ asked' = asked
  BY NowFacts DEF Done
<1>2. KindOf(Call) = do
  BY <1>1 DEF KindOf
<1>3. InBuffer' = InBuffer /\ HeadersOnly' = HeadersOnly /\ AnnouncedOnce' = AnnouncedOnce
  BY <1>1 DEF InBuffer, HeadersOnly, AnnouncedOnce, text
<1>4. ASSUME NEW b \in Nat, b >= 2, LaidOut(b)
      PROVE  HeadersOnly /\ AnnouncedOnce /\ WrittenSoFar = InBuffer
  <2>1. Begun
    BY <1>4, CallFacts
  <2> QED
    BY <1>4, <2>1 DEF LaidOut, WrittenSoFar
<1>5. "token" \notin HeaderKinds
  BY DEF HeaderKinds, DefaultKinds, OptionalKinds
<1> QED
  BY <1>2, <1>3, <1>4, <1>5, HeadCallKeeps

(* The empty line, or a piece of the body, is appended.                    *)
LEMMA BodyCallKeeps ==
  ASSUME IInv, ContentInv, Now("body"), Done, state' = state, Fits(Call.size),
         buffer' = Extended(Call.size, Call.kind, Call.n),
         total' = total + Call.size, body' = body
  PROVE  ContentInv'
<1>1. /\ todo # <<>> /\ todo \in Seq(Calls) /\ Call \in Calls /\ Call.do = "body"
      /\ state = "IDLE" /\ building = FALSE
  BY NowFacts
<1>2. Call.size \in Nat /\ Call.n \in Nat
  BY <1>1, ArgumentTypes
<1>3. todo' = Tail(todo) /\ result' = result /\ building' = building /\ asked' = asked
  BY DEF Done
<1>4. WrittenOK' /\ (asked \in Requests)'
  BY <1>1, <1>3 DEF WrittenOK, ContentInv
<1>5. /\ InBuffer' = InBuffer
      /\ \A i \in 0..body - 1 : buffer'[i] = buffer[i]
      /\ HeadersOnly /\ Call.kind = "crlf" /\ Call.size = 2 /\ Call.n = 1
           => EmptyLineWritten' /\ Sent' = 0
      /\ EmptyLineWritten /\ Call.kind = "body" /\ Call.n = Sent + 1
           => EmptyLineWritten' /\ Sent' = Sent + Call.size
  <2>1. TypeOK
    BY DEF IInv
  <2> QED
    BY <1>2, <2>1, AppendContent
<1>6. AnnouncedOnce => AnnouncedOnce'
  BY <1>3, <1>5 DEF AnnouncedOnce
<1>7. ASSUME todo' # <<>>, result' = "pending"
      PROVE  Doomed(todo') \/ \E b \in Nat : LaidOut(b)'
  <2>1. Doomed(todo) \/ \E b \in Nat : LaidOut(b)
    BY <1>1, <1>3, <1>7, NoOverrun DEF ContentInv, PendingOK
  <2>2. CASE Doomed(todo)
    BY <1>1, <1>3, <1>7, <2>2, KindsTail
  <2>3. CASE \E b \in Nat : LaidOut(b)
    <3>1. PICK b \in Nat : LaidOut(b)
      BY <2>3
    <3>2. /\ Layout(todo, b, IF b = 0 THEN Sent ELSE 0, Wanted(asked))
          /\ (IF b = 0 THEN Sent ELSE 0) \in Int
          /\ b < Len(todo) /\ Len(todo) \in Nat /\ Begun
      BY <3>1, CallFacts
    <3>3. \/ b = 1 /\ Call = EmptyLine
          \/ b = 0 /\ Len(todo) > 1 /\ Call.kind = "body" /\ Call.n = Sent + 1
      BY <3>1, CallFacts
    <3>4. Begun' /\ AnnouncedOnce'
          /\ WrittenSoFar' = InBuffer /\ WrittenSoFar = InBuffer
      <4>1. Begun'
        BY <1>1, <1>3, BegunAfter DEF Begun
      <4> QED
        BY <1>5, <1>6, <3>1, <3>2, <4>1 DEF LaidOut, WrittenSoFar
    <3>5. Layout(todo', 0, Sent', Wanted(asked)) /\ EmptyLineWritten'
      <4>1. CASE b = 1 /\ Call = EmptyLine
        <5>1. Layout(todo, 1, 0, Wanted(asked)) /\ HeadersOnly /\ Len(todo) > 1
          BY <3>1, <3>2, <4>1 DEF LaidOut
        <5>2. Layout(todo', 0, 0, Wanted(asked))
          <6>1. 1 > 0 /\ 1 - 1 = 0 /\ 1 \in Nat /\ 0 \in Int
            OBVIOUS
          <6>2. Layout(Tail(todo), 1 - 1, 0, Wanted(asked))
            BY <1>1, <5>1, <6>1, LayoutTail, RequestTypes
          <6> QED
            BY <1>3, <6>1, <6>2
        <5>3. Call.kind = "crlf" /\ Call.size = 2 /\ Call.n = 1
          BY <4>1 DEF EmptyLine, Piece
        <5> QED
          BY <1>5, <5>1, <5>2, <5>3
      <4>2. CASE b = 0 /\ Len(todo) > 1 /\ Call.kind = "body" /\ Call.n = Sent + 1
        <5>1. Layout(todo, 0, Sent, Wanted(asked)) /\ EmptyLineWritten /\ Sent \in Int
          BY <3>1, <3>2, <4>2 DEF LaidOut
        <5>2. Layout(todo', 0, Sent + Call.size, Wanted(asked))
          BY <1>1, <1>3, <4>2, <5>1, LayoutTail, RequestTypes DEF Call
        <5> QED
          BY <1>5, <4>2, <5>1, <5>2
      <4> QED
        BY <3>3, <4>1, <4>2
    <3>6. /\ CallKinds(todo) = {KindOf(Call)} \cup CallKinds(todo')
          /\ Starts(todo') = Starts(todo)
      BY <1>1, <1>3, <1>7, KindsTail DEF Call
    <3>7. KindOf(Call) = "body" /\ "body" \notin HeaderKinds
      BY <1>1 DEF KindOf, HeaderKinds, DefaultKinds, OptionalKinds
    <3>8. Plan(asked, InBuffer, CallKinds(todo), Starts(todo))
      BY <3>1, <3>4 DEF LaidOut
    <3>9. Plan(asked, InBuffer, CallKinds(todo'), Starts(todo'))
      <4> DEFINE left == CallKinds(todo)
                 left2 == CallKinds(todo')
      <4>1. "length" \in left2 => "length" \notin InBuffer
        BY <3>6, <3>8 DEF Plan
      <4>2. \A kind \in HeaderKinds : kind \in left <=> kind \in left2
        BY <3>6, <3>7
      <4>3. Plan(asked, InBuffer, left, Starts(todo))
        BY <3>8
      <4> HIDE DEF left, left2
      <4>4. Plan(asked, InBuffer, left2, Starts(todo))
        BY <4>1, <4>2, <4>3, PlanGoesOn
      <4> QED
        BY <3>6, <4>4 DEF left2
    <3>10. LaidOut(0)'
      BY <1>3, <1>5, <3>4, <3>5, <3>9 DEF LaidOut
    <3> QED
      BY <3>10
  <2> QED
    BY <2>1, <2>2, <2>3
<1> QED
  BY <1>4, <1>7 DEF ContentInv, PendingOK

(* The last call finds a request that is whole.                            *)
LEMMA LastCallFacts ==
  ASSUME IInv, ContentInv, NEW do \in {"ready", "started"}, Now(do)
  PROVE  /\ EmptyLineWritten /\ Sent = Wanted(asked) /\ Asks(asked, InBuffer)
         /\ AnnouncedOnce /\ ("length" \notin InBuffer => Wanted(asked) = 0)
         /\ do = "started" => "length" \notin InBuffer /\ Wanted(asked) = 0
         /\ Len(todo) = 1 /\ ~Doomed(todo)
<1>1. /\ todo # <<>> /\ todo \in Seq(Calls) /\ Call \in Calls /\ Call.do = do
      /\ result = "pending"
  <2>1. do \notin {"encoding", "stop"}
    OBVIOUS
  <2> QED
    BY <2>1, NowFacts, Zenon
<1>2. ~Doomed(todo)
  <2>1. Len(todo) \in Nat /\ 1 \in 1..Len(todo) /\ todo[1].do = do
    BY <1>1 DEF Call
  <2> QED
    BY <2>1 DEF Doomed, HeadCalls
<1>3. PICK b \in Nat : LaidOut(b)
  BY <1>1, <1>2, NoOverrun DEF ContentInv, PendingOK
<1>4. b = 0 /\ Sent = Wanted(asked) /\ Len(todo) = 1
  BY <1>3, CallFacts
<1>5. Begun
  BY <1>3, CallFacts
<1>6. /\ EmptyLineWritten /\ AnnouncedOnce
      /\ Plan(asked, InBuffer, CallKinds(todo), Starts(todo))
  BY <1>3, <1>4, <1>5 DEF LaidOut, WrittenSoFar
<1>7. CallKinds(todo) = {do} /\ (do = "started" => Starts(todo))
  <2>1. todo[1].do = do /\ KindOf(todo[1]) = do
    BY <1>1 DEF Call, KindOf
  <2>2. CallKinds(todo) = {KindOf(todo[i]) : i \in 1..1}
    BY <1>4 DEF CallKinds
  <2>3. \A i \in 1..1 : i = 1
    OBVIOUS
  <2> QED
    BY <1>4, <2>1, <2>2, <2>3 DEF Starts
<1>8. do \notin HeaderKinds
  BY DEF HeaderKinds, DefaultKinds, OptionalKinds
<1>9. Plan(asked, InBuffer, {do}, Starts(todo))
  BY <1>6, <1>7
<1>10. Plan(asked, InBuffer, {}, Starts(todo))
  BY <1>8, <1>9, PlanGoesOn
<1>11. InBuffer \cup {} = InBuffer
  OBVIOUS
<1>12. Asks(asked, InBuffer) /\ ("length" \notin InBuffer => Wanted(asked) = 0)
  BY <1>10, <1>11 DEF Plan
<1>13. do = "started" => "length" \notin InBuffer /\ Wanted(asked) = 0
  BY <1>7, <1>10, <1>11 DEF Plan
<1> QED
  BY <1>2, <1>4, <1>6, <1>12, <1>13

(* Each call of an operation, made or failed, keeps the sum of what is     *)
(* written and what is left to write.                                      *)
LEMMA StepContent ==
  ASSUME IInv, ContentInv, Step
  PROVE  ContentInv'
<1>1. CASE SetHeader
  <2>1. Now("header") /\ state' = state
    BY <1>1 DEF SetHeader, Same
  <2>2. /\ Call.kind \in HeaderKinds /\ Call.size \in Nat /\ Call.n \in Nat
        /\ Call.do = "header" /\ Call \in Calls
    BY <2>1, NowFacts, ArgumentTypes
  <2>3. KindOf(Call) = Call.kind
    BY <2>2 DEF KindOf
  <2>4. CASE Fits(Call.size) /\ Insert(Call.size, Of(Call.kind, Call.n)) /\ Done
    <3>1. CASE Call.size > 0
      BY <2>1, <2>2, <2>3, <2>4, <3>1, InsertCallKeeps
    <3>2. CASE Call.size = 0
      <4>1. HeaderSize[Call.kind] # 0
        BY <2>2, RequestAssumption
      <4>2. ~\E b \in Nat : LaidOut(b)
        BY <2>1, <3>2, <4>1, CallFacts
      <4>3. total < BufferSize
        BY <2>2, <2>4, ConstantTypes, PositionTypes DEF IInv, Fits
      <4> QED
        BY <2>1, <2>4, <4>2, <4>3, HeadCallKeeps
    <3> QED
      BY <2>2, <3>1, <3>2
  <2>5. CASE Fails
    BY <2>1, <2>5, FailureKeeps
  <2> QED
    BY <1>1, <2>4, <2>5 DEF SetHeader
<1>2. CASE SetExtraHeader
  <2>1. Now("extra") /\ state' = state
    BY <1>2 DEF SetExtraHeader
  <2>2. Call.key \in Seq(STRING) /\ keyBuffer \in Seq(STRING) /\ Call.do = "extra"
    BY <2>1, NowFacts, ArgumentTypes, ResultTypes
  <2>3. keyBuffer' \in Seq(STRING)
    <3>1. keyBuffer' = Call.key \o SubSeq(keyBuffer, Len(Call.key) + 1, Len(keyBuffer))
      BY <1>2 DEF SetExtraHeader, Over
    <3>2. SubSeq(keyBuffer, Len(Call.key) + 1, Len(keyBuffer)) \in Seq(STRING)
      BY <2>2
    <3> QED
      BY <2>2, <3>1, <3>2
  <2>4. ExtraSize(keyBuffer') \in Nat /\ ExtraSize(keyBuffer') > 0
    <3>1. HeaderSize["extra"] \in Nat /\ HeaderSize["extra"] > 0
      <4>1. "extra" \in HeaderKinds
        BY DEF HeaderKinds
      <4>2. HeaderSize["extra"] \in Nat \ {0}
        BY <4>1, RequestAssumption
      <4> QED
        BY <4>2
    <3> QED
      BY <2>3, <3>1 DEF ExtraSize
  <2>5. KindOf(Call) = "extra"
    BY <2>2 DEF KindOf
  <2>6. CASE /\ Fits(ExtraSize(keyBuffer'))
             /\ Insert(ExtraSize(keyBuffer'), Of("extra", 0)) /\ Done
    BY <2>1, <2>4, <2>5, <2>6, InsertCallKeeps
  <2>7. CASE Fails
    BY <2>1, <2>7, FailureKeeps
  <2> QED
    BY <1>2, <2>6, <2>7 DEF SetExtraHeader
<1>3. CASE SetEncoding
  <2>1. Now("encoding") /\ state' = state
    BY <1>3 DEF SetEncoding, Same
  <2>2. HeaderSize["encoding"] \in Nat /\ HeaderSize["encoding"] > 0
    <3>1. "encoding" \in HeaderKinds
      BY DEF HeaderKinds, OptionalKinds
    <3>2. HeaderSize["encoding"] \in Nat \ {0}
      BY <3>1, RequestAssumption
    <3> QED
      BY <3>2
  <2>3. Call.do = "encoding" /\ KindOf(Call) = "encoding"
    <3>1. Call.do = "encoding"
      BY <2>1, NowFacts
    <3> QED
      BY <3>1 DEF KindOf
  <2>4. CASE /\ Fits(HeaderSize["encoding"]) /\ Done
             /\ Insert(HeaderSize["encoding"], Of("encoding", 0))
    BY <2>1, <2>2, <2>3, <2>4, InsertCallKeeps
  <2>5. CASE todo' = <<>> /\ result' = "memmove(NULL)" /\ UNCHANGED <<building, asked>>
    BY <2>1, <2>5, FailureKeeps
  <2>6. CASE Done /\ UNCHANGED text
    BY <2>1, <2>6, SilentCallKeeps
  <2> QED
    BY <1>3, <2>4, <2>5, <2>6 DEF SetEncoding
<1>4. CASE AppendBody
  <2>1. Now("body") /\ state' = state
    BY <1>4 DEF AppendBody, Same
  <2>2. CASE /\ Fits(Call.size) /\ buffer' = Extended(Call.size, Call.kind, Call.n)
             /\ total' = total + Call.size /\ UNCHANGED body /\ Done
    BY <2>1, <2>2, BodyCallKeeps
  <2>3. CASE Fails
    BY <2>1, <2>3, FailureKeeps
  <2> QED
    BY <1>4, <2>2, <2>3 DEF AppendBody
<1>5. CASE TokenFits
  BY <1>5, SilentCallKeeps DEF TokenFits, Same
<1>6. CASE GiveUp
  <2>1. PICK do \in {"token", "stop"} : Now(do)
    BY <1>6 DEF GiveUp
  <2> QED
    BY <1>6, <2>1, FailureKeeps DEF GiveUp, Same
<1>7. CASE Dereference
  <2>1. Now("crash") /\ state' = state /\ todo' = <<>> /\ result' # "pending"
        /\ UNCHANGED <<building, asked>>
    BY <1>7 DEF Dereference, Same
  <2> QED
    BY <2>1, FailureKeeps
<1>8. CASE Finish
  <2>1. /\ Now("ready") /\ todo' = <<>> /\ state' = "READY"
        /\ UNCHANGED <<text, building, asked>>
    BY <1>8 DEF Finish
  <2>2. building = FALSE
    BY <2>1, NowFacts
  <2>3. /\ EmptyLineWritten /\ Sent = Wanted(asked) /\ Asks(asked, InBuffer)
        /\ AnnouncedOnce /\ ("length" \notin InBuffer => Wanted(asked) = 0)
    BY <2>1, LastCallFacts
  <2>4. /\ EmptyLineWritten' /\ Sent' = Sent /\ InBuffer' = InBuffer /\ AnnouncedOnce'
    BY <2>1, <2>3 DEF EmptyLineWritten, Sent, InBuffer, AnnouncedOnce, text
  <2> QED
    BY <2>1, <2>2, <2>3, <2>4 DEF ContentInv, PendingOK, WrittenOK
<1>9. CASE FinishStart
  <2>1. /\ Now("started") /\ todo' = <<>> /\ contentLength' = 0
        /\ UNCHANGED <<state, text, asked>>
    BY <1>9 DEF FinishStart
  <2>2. state = "IDLE"
    BY <2>1, NowFacts
  <2>3. /\ EmptyLineWritten /\ Sent = Wanted(asked) /\ Asks(asked, InBuffer)
        /\ "length" \notin InBuffer /\ Wanted(asked) = 0
    BY <2>1, LastCallFacts
  <2>4. /\ EmptyLineWritten' /\ Sent' = Sent /\ InBuffer' = InBuffer
    BY <2>1, <2>3 DEF EmptyLineWritten, Sent, InBuffer, text
  <2> QED
    BY <2>1, <2>2, <2>3, <2>4 DEF ContentInv, PendingOK, WrittenOK
<1> QED
  BY <1>1, <1>2, <1>3, <1>4, <1>5, <1>6, <1>7, <1>8, <1>9, SetRequestLineContent
     DEF Step

-----------------------------------------------------------------------------
(* Between kii_core_api_call_start and _end, and kii_core_run.             *)

(* Between the start and the end of a request that is being built, its     *)
(* buffer has what was asked so far and no Content-Length.                 *)
LEMMA BuildingContent ==
  ASSUME IInv, ContentInv, Building
  PROVE  /\ EmptyLineWritten /\ Sent = Wanted(asked) /\ Asks(asked, InBuffer)
         /\ "length" \notin InBuffer /\ contentLength = Wanted(asked)
         /\ todo = <<>> /\ state = "IDLE" /\ TypeOK
  BY BuildingFacts DEF ContentInv, WrittenOK, IInv

(* One more piece, or one more header, wanted.                             *)
LEMMA RequestGrows ==
  ASSUME NEW request \in Requests
  PROVE  /\ \A size \in Nat :
              LET grown == [request EXCEPT
                              !.body = IF @ = NoBody THEN size ELSE @ + size]
              IN /\ grown \in Requests /\ Wanted(grown) = Wanted(request) + size
                 /\ \A kinds : Asks(grown, kinds) = Asks(request, kinds)
         /\ \A key \in Seq(STRING) :
              LET grown == [request EXCEPT !.keys = Append(@, key)]
              IN /\ grown \in Requests /\ Wanted(grown) = Wanted(request)
                 /\ \A kinds : Asks(request, kinds) => Asks(grown, kinds \cup {"extra"})
<1>1. /\ request.headers \subseteq OptionalKinds /\ request.keys \in Seq(Seq(STRING))
      /\ request.body \in Nat \/ request.body = NoBody
  BY DEF Requests
<1>2. ASSUME NEW size \in Nat,
             NEW grown, grown = [request EXCEPT
                                   !.body = IF @ = NoBody THEN size ELSE @ + size]
      PROVE  /\ grown \in Requests /\ Wanted(grown) = Wanted(request) + size
             /\ \A kinds : Asks(grown, kinds) = Asks(request, kinds)
  <2>1. /\ grown.headers = request.headers /\ grown.keys = request.keys
        /\ grown.body = IF request.body = NoBody THEN size ELSE request.body + size
    BY <1>2 DEF Requests
  <2>2. grown.body \in Nat /\ NoBody \notin Nat
    BY <1>1, <2>1 DEF NoBody
  <2>3. grown \in Requests
    BY <1>2, <2>2, <2>1 DEF Requests
  <2>4. Wanted(grown) = Wanted(request) + size
    BY <1>1, <2>1, <2>2 DEF Wanted
  <2> QED
    BY <2>1, <2>3, <2>4 DEF Asks
<1>3. ASSUME NEW key \in Seq(STRING),
             NEW grown, grown = [request EXCEPT !.keys = Append(@, key)]
      PROVE  /\ grown \in Requests /\ Wanted(grown) = Wanted(request)
             /\ \A kinds : Asks(request, kinds) => Asks(grown, kinds \cup {"extra"})
  <2>1. /\ grown.headers = request.headers /\ grown.body = request.body
        /\ grown.keys = Append(request.keys, key)
    BY <1>3 DEF Requests
  <2>2. Append(request.keys, key) \in Seq(Seq(STRING)) /\ Append(request.keys, key) # <<>>
    <3>1. ASSUME NEW S, NEW s \in Seq(S), NEW e \in S
          PROVE  Append(s, e) \in Seq(S) /\ Append(s, e) # <<>>
      OBVIOUS
    <3> QED
      BY <1>1, <1>3, <3>1
  <2>3. grown \in Requests
    BY <1>3, <2>2 DEF Requests
  <2>4. "extra" \notin DefaultKinds \cup OptionalKinds /\ "extra" # "encoding"
    BY DEF DefaultKinds, OptionalKinds
  <2> QED
    BY <2>1, <2>2, <2>3, <2>4 DEF Asks, Wanted
<1> QED
  BY <1>2, <1>3

(* A piece, a header or the end of a request that is being built, in any   *)
(* order, keeps it true to what was asked.                                 *)
LEMMA BetweenContentKeeps ==
  ASSUME IInv, ContentInv, Between
  PROVE  ContentInv'
<1>0. asked \in Requests /\ Wanted(asked) \in Nat
  BY RequestTypes DEF ContentInv
<1>1. CASE ApiCallAppendBody
  <2>1. Building /\ UNCHANGED <<state, body, todo, building>>
    BY <1>1 DEF ApiCallAppendBody
  <2>2. PICK size \in BodySizes :
          \/ /\ Fits(size)
             /\ buffer' = Extended(size, "body", contentLength + 1)
             /\ total' = total + size /\ Counted(size)
             /\ asked' = [asked EXCEPT !.body = IF @ = NoBody THEN size ELSE @ + size]
          \/ UNCHANGED <<buffer, total, contentLength, asked>>
    BY <1>1 DEF ApiCallAppendBody
  <2>3. CASE /\ Fits(size)
             /\ buffer' = Extended(size, "body", contentLength + 1)
             /\ total' = total + size /\ Counted(size)
             /\ asked' = [asked EXCEPT !.body = IF @ = NoBody THEN size ELSE @ + size]
    <3>1. size \in Nat /\ contentLength + 1 \in Nat /\ contentLength + 1 = Sent + 1
      BY <1>0, <2>1, BuildingContent, ConstantTypes
    <3>2. InBuffer' = InBuffer /\ EmptyLineWritten' /\ Sent' = Sent + size
      BY <2>1, <2>3, <3>1, AppendContent, BuildingContent
    <3>3. /\ asked' \in Requests /\ Wanted(asked') = Wanted(asked) + size
          /\ Asks(asked', InBuffer)
      BY <1>0, <2>1, <2>3, <3>1, RequestGrows, BuildingContent
    <3>4. contentLength' = Wanted(asked')
      BY <2>1, <2>3, <3>3, BuildingContent DEF Counted
    <3> QED
      BY <2>1, <3>2, <3>3, <3>4, BuildingContent DEF ContentInv, PendingOK, WrittenOK
  <2>4. CASE UNCHANGED <<buffer, total, contentLength, asked>>
    <3>1. EmptyLineWritten' /\ Sent' = Sent /\ InBuffer' = InBuffer
      BY <2>1, <2>4, BuildingContent DEF EmptyLineWritten, Sent, InBuffer
    <3> QED
      BY <1>0, <2>1, <2>4, <3>1, BuildingContent DEF ContentInv, PendingOK, WrittenOK
  <2> QED
    BY <2>2, <2>3, <2>4
<1>2. CASE ApiCallAppendHeader
  <2>1. Building /\ UNCHANGED <<state, contentLength, todo, building>>
    BY <1>2 DEF ApiCallAppendHeader
  <2>2. PICK key \in Keys :
          \/ /\ Fits(ExtraSize(key)) /\ Insert(ExtraSize(key), Of("extra", 0))
             /\ asked' = [asked EXCEPT !.keys = Append(@, key)]
          \/ UNCHANGED <<text, asked>>
    BY <1>2 DEF ApiCallAppendHeader
  <2>3. CASE /\ Fits(ExtraSize(key)) /\ Insert(ExtraSize(key), Of("extra", 0))
             /\ asked' = [asked EXCEPT !.keys = Append(@, key)]
    <3>1. key \in Seq(STRING)
      BY ConstantTypes
    <3>2. ExtraSize(key) \in Nat /\ ExtraSize(key) > 0
      <4>1. "extra" \in HeaderKinds
        BY DEF HeaderKinds
      <4>2. HeaderSize["extra"] \in Nat \ {0}
        BY <4>1, RequestAssumption
      <4>3. Len(key) \in Nat
        BY <3>1
      <4> QED
        BY <4>2, <4>3 DEF ExtraSize
    <3>3. Of("extra", 0).kind = "extra"
      BY ByteTypes
    <3>4. /\ InBuffer' = InBuffer \cup {"extra"}
          /\ Sent' = Sent /\ EmptyLineWritten'
      BY <2>1, <2>3, <3>2, <3>3, InsertContent, BuildingContent
    <3>5. /\ asked' \in Requests /\ Wanted(asked') = Wanted(asked)
          /\ Asks(asked', InBuffer \cup {"extra"})
      BY <1>0, <2>1, <2>3, <3>1, RequestGrows, BuildingContent
    <3>6. "length" \notin InBuffer'
      BY <2>1, <3>4, BuildingContent
    <3> QED
      BY <2>1, <3>4, <3>5, <3>6, BuildingContent DEF ContentInv, PendingOK, WrittenOK
  <2>4. CASE UNCHANGED <<text, asked>>
    <3>1. EmptyLineWritten' /\ Sent' = Sent /\ InBuffer' = InBuffer
      BY <2>1, <2>4, BuildingContent DEF EmptyLineWritten, Sent, InBuffer, text
    <3> QED
      BY <1>0, <2>1, <2>4, <3>1, BuildingContent DEF ContentInv, PendingOK, WrittenOK
  <2> QED
    BY <2>2, <2>3, <2>4
<1>3. CASE ApiCallEnd
  <2>1. Building /\ UNCHANGED <<contentLength, todo, asked>>
    BY <1>3 DEF ApiCallEnd
  <2>2. AnnouncedOnce
    BY <2>1, BuildingContent DEF AnnouncedOnce, InBuffer
  <2>3. CASE /\ contentLength > 0 /\ Fits(HeaderSize["length"])
             /\ Insert(HeaderSize["length"], Of("length", contentLength))
             /\ building' = FALSE
    <3>1. HeaderSize["length"] \in Nat /\ HeaderSize["length"] > 0
      <4>1. "length" \in HeaderKinds
        BY DEF HeaderKinds
      <4>2. HeaderSize["length"] \in Nat \ {0}
        BY <4>1, RequestAssumption
      <4> QED
        BY <4>2
    <3>2. /\ Of("length", contentLength).kind = "length"
          /\ Of("length", contentLength).n = Wanted(asked)
      BY <2>1, BuildingContent DEF Of
    <3>3. /\ InBuffer' = InBuffer \cup {"length"}
          /\ Sent' = Sent /\ EmptyLineWritten'
      BY <2>1, <2>3, <3>1, <3>2, InsertContent, BuildingContent
    <3>4. AnnouncedOnce'
      BY <2>1, <2>2, <2>3, <3>1, <3>2, InsertAnnounced, BuildingContent
    <3>5. Asks(asked, InBuffer \cup {"length"})
      <4>1. "length" \notin DefaultKinds \cup OptionalKinds
            /\ "length" # "extra" /\ "length" # "encoding"
        BY DEF DefaultKinds, OptionalKinds
      <4> QED
        BY <2>1, <4>1, BuildingContent DEF Asks
    <3> QED
      BY <1>0, <2>1, <2>3, <3>3, <3>4, <3>5, BuildingContent
         DEF ContentInv, PendingOK, WrittenOK
  <2>4. CASE UNCHANGED text /\ (contentLength = 0 \/ UNCHANGED <<state, building>>)
             /\ building' \in BOOLEAN
    <3>1. EmptyLineWritten' /\ Sent' = Sent /\ InBuffer' = InBuffer /\ AnnouncedOnce'
      BY <2>1, <2>2, <2>4, BuildingContent
         DEF EmptyLineWritten, Sent, InBuffer, AnnouncedOnce, text
    <3>2. contentLength = 0 => Wanted(asked) = 0
      BY <2>1, BuildingContent
    <3> QED
      BY <1>0, <2>1, <2>4, <3>1, <3>2, BuildingContent
         DEF ContentInv, PendingOK, WrittenOK
  <2>5. contentLength > 0 \/ contentLength = 0
    BY <1>0, <2>1, BuildingContent
  <2>6. building \in BOOLEAN
    BY DEF IInv, TypeOK
  <2>7. CASE contentLength > 0 /\ building' = FALSE /\ state' = "READY"
    <3>1. contentLength # 0
      BY <2>7
    <3>2. state # state'
      BY <2>1, <2>7, BuildingContent
    <3> QED
      BY <1>3, <2>3, <2>7, <3>1, <3>2 DEF ApiCallEnd
  <2>8. CASE contentLength = 0
    <3>1. ~(contentLength > 0)
      BY <2>8
    <3>2. UNCHANGED text /\ building' = FALSE
      BY <1>3, <2>8, <3>1 DEF ApiCallEnd
    <3> QED
      BY <2>4, <2>8, <3>2
  <2>9. CASE contentLength > 0 /\ ~(building' = FALSE /\ state' = "READY")
    <3>1. UNCHANGED text /\ UNCHANGED <<state, building>>
      BY <1>3, <2>9 DEF ApiCallEnd
    <3> QED
      BY <2>4, <2>6, <3>1
  <2> QED
    BY <2>5, <2>7, <2>8, <2>9
<1> QED
  BY <1>1, <1>2, <1>3 DEF Between

(* Running a request, after which there is none that is READY, claims      *)
(* nothing of the buffer.                                                  *)
LEMMA RunContentKeeps ==
  ASSUME IInv, ContentInv, Run
  PROVE  ContentInv'
<1>1. state' = "IDLE" /\ result' = "none" /\ building' = building /\ building = FALSE
  BY DEF Run, IInv, PhaseOK, TypeOK
<1>2. asked' \in Requests
  BY DEF Run, Nothing, Requests
<1> QED
  BY <1>1, <1>2 DEF ContentInv, PendingOK, WrittenOK

-----------------------------------------------------------------------------
(* The bytes of a body before its pieces, one after the other.             *)

(* The bytes before the first piece are none, and those before the next    *)
(* piece are those before this one and its own.                            *)
LEMMA BeforeNext ==
  ASSUME NEW pieces \in Seq(Nat)
  PROVE  /\ Before(pieces, 1) = 0
         /\ \A i \in 1..Len(pieces) :
              Before(pieces, i + 1) = Before(pieces, i) + pieces[i]
<1>1. Before(pieces, 1) = 0
  <2>1. 1..1 - 1 = {}
    OBVIOUS
  <2>2. UNION {{j} \X (1..pieces[j]) : j \in 1..1 - 1} = {}
    BY <2>1
  <2> QED
    BY <2>2, FS_EmptySet DEF Before
<1>2. ASSUME NEW i \in 1..Len(pieces)
      PROVE  Before(pieces, i + 1) = Before(pieces, i) + pieces[i]
  <2> DEFINE Bytes(j) == {j} \X (1..pieces[j])
             old == UNION {Bytes(j) : j \in 1..i - 1}
             new == Bytes(i)
             all == UNION {Bytes(j) : j \in 1..(i + 1) - 1}
  <2>1. pieces[i] \in Nat /\ i \in Nat /\ Len(pieces) \in Nat
    OBVIOUS
  <2>2. IsFiniteSet(old)
    <3>1. i \in 1..Len(pieces) + 1
      BY <2>1
    <3> QED
      BY <3>1, BeforeFinite
  <2>3. IsFiniteSet(new) /\ Cardinality(new) = pieces[i]
    <3>1. IsFiniteSet({i}) /\ Cardinality({i}) = 1
      BY FS_Singleton, Zenon
    <3>2. IsFiniteSet(1..pieces[i]) /\ Cardinality(1..pieces[i]) = pieces[i]
      <4>1. pieces[i] \in Int /\ 1 \in Int
        BY <2>1
      <4>2. /\ IsFiniteSet(1..pieces[i])
            /\ Cardinality(1..pieces[i])
                 = IF 1 > pieces[i] THEN 0 ELSE pieces[i] - 1 + 1
        BY <4>1, FS_Interval
      <4> QED
        BY <2>1, <4>2
    <3>3. /\ IsFiniteSet({i} \X (1..pieces[i]))
          /\ Cardinality({i} \X (1..pieces[i])) = Cardinality({i}) * Cardinality(1..pieces[i])
      BY <3>1, <3>2, FS_Product
    <3>4. 1 * pieces[i] = pieces[i]
      BY <2>1
    <3> QED
      BY <3>1, <3>2, <3>3, <3>4
  <2>4. all = old \cup new
    <3>1. 1..(i + 1) - 1 = (1..i - 1) \cup {i}
      BY <2>1
    <3> HIDE DEF Bytes
    <3>2. UNION {Bytes(j) : j \in (1..i - 1) \cup {i}}
            = (UNION {Bytes(j) : j \in 1..i - 1}) \cup Bytes(i)
      OBVIOUS
    <3> QED
      BY <3>1, <3>2
  <2>5. old \cap new = {}
    <3>1. ASSUME NEW x \in old, x \in new PROVE FALSE
      <4>1. PICK j \in 1..i - 1 : x \in Bytes(j)
        BY <3>1
      <4>2. x[1] = j
        BY <4>1
      <4>3. x[1] = i
        BY <3>1
      <4> QED
        BY <2>1, <4>1, <4>2, <4>3
    <3> QED
      BY <3>1
  <2>6. Cardinality(old) \in Nat
    BY <2>2, FS_CardinalityType
  <2>7. Cardinality({}) = 0
    BY FS_EmptySet
  <2>8. Before(pieces, i) = Cardinality(old) /\ Before(pieces, i + 1) = Cardinality(all)
    BY DEF Before
  <2> HIDE DEF old, new, all
  <2>9. Cardinality(all) = Cardinality(old) + Cardinality(new) - Cardinality({})
    BY <2>2, <2>3, <2>4, <2>5, FS_Union
  <2> QED
    BY <2>1, <2>3, <2>6, <2>7, <2>8, <2>9
<1> QED
  BY <1>1, <1>2

-----------------------------------------------------------------------------
(* The lists of calls the operations begin with.                           *)

(* Calls before the empty line that do not announce a length.              *)
Headings(calls) ==
  /\ calls \in Seq(Calls)
  /\ \A i \in 1..Len(calls) :
       /\ calls[i].do \in HeadCalls /\ ~IsLength(calls[i])
       /\ calls[i].do = "header" => calls[i].size = HeaderSize[calls[i].kind]

(* Two lists of calls in a row have the calls and the kinds of both.       *)
LEMMA ConcatKinds ==
  ASSUME NEW s \in Seq(Calls), NEW t \in Seq(Calls)
  PROVE  /\ s \o t \in Seq(Calls) /\ Len(s \o t) = Len(s) + Len(t)
         /\ \A i \in 1..Len(s) : (s \o t)[i] = s[i]
         /\ \A i \in 1..Len(t) : (s \o t)[Len(s) + i] = t[i]
         /\ CallKinds(s \o t) = CallKinds(s) \cup CallKinds(t)
<1> DEFINE u == s \o t
<1>1. /\ u \in Seq(Calls) /\ Len(u) = Len(s) + Len(t)
      /\ Len(s) \in Nat /\ Len(t) \in Nat
  OBVIOUS
<1>2. \A i \in 1..Len(s) : u[i] = s[i]
  OBVIOUS
<1>3. ASSUME NEW i \in 1..Len(t) PROVE u[Len(s) + i] = t[i]
  <2>1. Len(s) + i \in 1..Len(s) + Len(t) /\ Len(s) + i > Len(s)
        /\ Len(s) + i - Len(s) = i
    BY <1>1
  <2> QED
    BY <1>1, <2>1
<1> HIDE DEF u
<1>4. CallKinds(u) = CallKinds(s) \cup CallKinds(t)
  <2>1. ASSUME NEW i \in 1..Len(u) PROVE KindOf(u[i]) \in CallKinds(s) \cup CallKinds(t)
    <3>1. CASE i <= Len(s)
      <4>1. i \in 1..Len(s)
        BY <1>1, <3>1
      <4> QED
        BY <1>2, <4>1 DEF CallKinds
    <3>2. CASE ~(i <= Len(s))
      <4>1. i - Len(s) \in 1..Len(t) /\ Len(s) + (i - Len(s)) = i
        BY <1>1, <3>2
      <4>2. u[i] = t[i - Len(s)]
        BY <1>3, <4>1
      <4> QED
        BY <4>1, <4>2 DEF CallKinds
    <3> QED
      BY <3>1, <3>2
  <2>2. ASSUME NEW i \in 1..Len(s) PROVE KindOf(s[i]) \in CallKinds(u)
    <3>1. i \in 1..Len(u) /\ u[i] = s[i]
      BY <1>1, <1>2
    <3> QED
      BY <3>1 DEF CallKinds
  <2>3. ASSUME NEW i \in 1..Len(t) PROVE KindOf(t[i]) \in CallKinds(u)
    <3>1. Len(s) + i \in 1..Len(u) /\ u[Len(s) + i] = t[i]
      BY <1>1, <1>3
    <3> QED
      BY <3>1 DEF CallKinds
  <2> QED
    BY <2>1, <2>2, <2>3 DEF CallKinds
<1> QED
  BY <1>1, <1>2, <1>3, <1>4 DEF u

(* Two lists of headers in a row are a list of headers.                    *)
LEMMA ConcatHeadings ==
  ASSUME NEW s, NEW t, Headings(s), Headings(t)
  PROVE  Headings(s \o t) /\ CallKinds(s \o t) = CallKinds(s) \cup CallKinds(t)
<1>1. s \in Seq(Calls) /\ t \in Seq(Calls) /\ Len(s) \in Nat /\ Len(t) \in Nat
  BY DEF Headings
<1> DEFINE u == s \o t
<1>2. /\ u \in Seq(Calls) /\ Len(u) = Len(s) + Len(t)
      /\ \A i \in 1..Len(s) : u[i] = s[i]
      /\ \A i \in 1..Len(t) : u[Len(s) + i] = t[i]
      /\ CallKinds(u) = CallKinds(s) \cup CallKinds(t)
  BY <1>1, ConcatKinds
<1> HIDE DEF u
<1>3. ASSUME NEW i \in 1..Len(u)
      PROVE  /\ u[i].do \in HeadCalls /\ ~IsLength(u[i])
             /\ u[i].do = "header" => u[i].size = HeaderSize[u[i].kind]
  <2>1. CASE i <= Len(s)
    <3>1. i \in 1..Len(s) /\ u[i] = s[i]
      BY <1>1, <1>2, <2>1
    <3> QED
      BY <3>1 DEF Headings
  <2>2. CASE ~(i <= Len(s))
    <3>1. i - Len(s) \in 1..Len(t) /\ Len(s) + (i - Len(s)) = i
      BY <1>1, <1>2, <2>2
    <3>2. u[i] = t[i - Len(s)]
      BY <1>2, <3>1
    <3> QED
      BY <3>1, <3>2 DEF Headings
  <2> QED
    BY <2>1, <2>2
<1>4. Headings(u)
  BY <1>2, <1>3 DEF Headings
<1> QED
  BY <1>2, <1>4 DEF u

(* A layout goes on where headings end.                                    *)
LEMMA LayoutAfter ==
  ASSUME NEW s, Headings(s), NEW t \in Seq(Calls), NEW b \in Nat, b > 0,
         NEW want \in Nat, Layout(t, b, 0, want)
  PROVE  /\ s \o t \in Seq(Calls) /\ s \o t # <<>>
         /\ Layout(s \o t, Len(s) + b, 0, want) /\ Len(s) + b \in Nat /\ Len(s) + b > 0
         /\ CallKinds(s \o t) = CallKinds(s) \cup CallKinds(t)
         /\ Starts(s \o t) = Starts(t)
<1>1. /\ s \in Seq(Calls) /\ Len(s) \in Nat /\ Len(t) \in Nat /\ b < Len(t)
  BY DEF Headings, Layout
<1> DEFINE u == s \o t
           c == Len(s) + b
<1>2. /\ u \in Seq(Calls) /\ Len(u) = Len(s) + Len(t)
      /\ \A i \in 1..Len(s) : u[i] = s[i]
      /\ CallKinds(u) = CallKinds(s) \cup CallKinds(t)
  BY <1>1, ConcatKinds
<1>3. \A i \in 1..Len(t) : u[Len(s) + i] = t[i]
  BY <1>1, ConcatKinds
<1> HIDE DEF u
<1>4. /\ c \in Nat /\ c > 0 /\ c \in 0..Len(u) - 1 /\ Len(u) \in Nat
  BY <1>1, <1>2
<1>5. u[Len(u)] = t[Len(t)]
  <2>1. Len(t) \in 1..Len(t)
    BY <1>1
  <2> QED
    BY <1>2, <1>3, <2>1
<1>6. \A i \in 1..Len(t) : From(u, Len(s) + i, want) = From(t, i, want)
  BY <1>3 DEF From
<1>7. ASSUME NEW i \in 1..c - 1 PROVE u[i].do \in HeadCalls
  <2>1. CASE i <= Len(s)
    <3>1. i \in 1..Len(s) /\ u[i] = s[i]
      BY <1>1, <1>2, <2>1
    <3> QED
      BY <3>1 DEF Headings
  <2>2. CASE ~(i <= Len(s))
    <3>1. i - Len(s) \in 1..b - 1 /\ i - Len(s) \in 1..Len(t) /\ Len(s) + (i - Len(s)) = i
      BY <1>1, <1>2, <2>2
    <3>2. u[i] = t[i - Len(s)]
      BY <1>3, <3>1
    <3> QED
      BY <3>1, <3>2 DEF Layout
  <2> QED
    BY <2>1, <2>2
<1>8. u[c] = EmptyLine
  <2>1. b \in 1..Len(t)
    BY <1>1
  <2>2. u[Len(s) + b] = t[b]
    BY <1>3, <2>1
  <2> QED
    BY <2>2 DEF Layout
<1>9. ASSUME NEW i \in c + 1..Len(u) - 1
      PROVE  /\ u[i].do = "body" /\ u[i].kind = "body"
             /\ From(u, i + 1, want) = From(u, i, want) + u[i].size
  <2> DEFINE k == i - Len(s)
  <2>1. /\ k \in b + 1..Len(t) - 1 /\ k \in 1..Len(t) /\ k + 1 \in 1..Len(t)
        /\ Len(s) + k = i /\ Len(s) + (k + 1) = i + 1
    BY <1>1, <1>2, <1>4
  <2> HIDE DEF k
  <2>2. /\ u[i] = t[k] /\ From(u, i, want) = From(t, k, want)
        /\ From(u, i + 1, want) = From(t, k + 1, want)
    BY <1>3, <1>6, <2>1
  <2>3. /\ t[k].do = "body" /\ t[k].kind = "body"
        /\ From(t, k + 1, want) = From(t, k, want) + t[k].size
    BY <2>1 DEF Layout
  <2> QED
    BY <2>2, <2>3
<1>10. From(u, c + 1, want) = 0 + 1
  <2>1. b + 1 \in 1..Len(t) /\ Len(s) + (b + 1) = c + 1
    BY <1>1
  <2>2. From(u, Len(s) + (b + 1), want) = From(t, b + 1, want)
    BY <1>6, <2>1
  <2>3. From(t, b + 1, want) = 0 + 1
    BY DEF Layout
  <2> QED
    BY <2>1, <2>2, <2>3
<1>11. ASSUME NEW i \in 1..Len(u)
       PROVE  /\ IsLength(u[i]) => i = c - 1 /\ u[i].n = want
              /\ u[i].do = "header" => u[i].size = HeaderSize[u[i].kind]
  <2>1. CASE i <= Len(s)
    <3>1. i \in 1..Len(s) /\ u[i] = s[i]
      BY <1>1, <1>2, <2>1
    <3> QED
      BY <3>1 DEF Headings
  <2>2. CASE ~(i <= Len(s))
    <3> DEFINE k == i - Len(s)
    <3>1. k \in 1..Len(t) /\ Len(s) + k = i
      BY <1>1, <1>2, <2>2
    <3> HIDE DEF k
    <3>2. u[i] = t[k]
      BY <1>3, <3>1
    <3>3. /\ IsLength(t[k]) => k = b - 1 /\ t[k].n = want
          /\ t[k].do = "header" => t[k].size = HeaderSize[t[k].kind]
      BY <3>1 DEF Layout
    <3>4. k = b - 1 => i = c - 1
      BY <1>1, <3>1
    <3> QED
      BY <3>2, <3>3, <3>4
  <2> QED
    BY <2>1, <2>2
<1>12. u[Len(u)].do \in {"ready", "started"}
  BY <1>5 DEF Layout
<1>13. Layout(u, c, 0, want)
  BY <1>4, <1>7, <1>8, <1>9, <1>10, <1>11, <1>12 DEF Layout
<1>14. Starts(u) = Starts(t)
  BY <1>5 DEF Starts
<1>15. u # <<>>
  <2>1. \A w \in Seq(Calls) : Len(w) > 0 => w # <<>>
    OBVIOUS
  <2>2. Len(u) > 0
    BY <1>1, <1>2
  <2> QED
    BY <1>2, <2>1, <2>2, Zenon
<1> QED
  BY <1>2, <1>4, <1>13, <1>14, <1>15 DEF u

(* A call by itself.                                                       *)
LEMMA OneHeading ==
  ASSUME NEW call \in Calls, call.do \in HeadCalls, ~IsLength(call),
         call.do = "header" => call.size = HeaderSize[call.kind]
  PROVE  Headings(<<call>>) /\ CallKinds(<<call>>) = {KindOf(call)}
<1>1. <<call>> \in Seq(Calls) /\ Len(<<call>>) = 1 /\ <<call>>[1] = call
  OBVIOUS
<1>2. \A i \in 1..1 : i = 1
  OBVIOUS
<1>3. Headings(<<call>>)
  BY <1>1, <1>2 DEF Headings
<1>4. CallKinds(<<call>>) = {KindOf(<<call>>[i]) : i \in 1..1}
  BY <1>1 DEF CallKinds
<1> QED
  BY <1>1, <1>2, <1>3, <1>4

(* No call at all is a list of headers.                                    *)
LEMMA NoHeading == Headings(<<>>) /\ CallKinds(<<>>) = {}
<1>1. <<>> \in Seq(Calls) /\ Len(<<>>) = 0 /\ 1..0 = {}
  OBVIOUS
<1> QED
  BY <1>1 DEF Headings, CallKinds

(* The call that sets a header is a list of headers with its kind.         *)
LEMMA HeaderCalls ==
  ASSUME NEW kind \in HeaderKinds \ {"length"}
  PROVE  Headings(<<Header(kind, 0)>>) /\ CallKinds(<<Header(kind, 0)>>) = {kind}
<1>1. Header(kind, 0) \in Calls
  BY CallTypes DEF Calls
<1>2. /\ Header(kind, 0).do = "header" /\ Header(kind, 0).kind = kind
      /\ Header(kind, 0).size = HeaderSize[kind]
  BY DEF Header
<1>3. Header(kind, 0).do \in HeadCalls /\ ~IsLength(Header(kind, 0))
      /\ KindOf(Header(kind, 0)) = kind
  BY <1>2 DEF HeadCalls, IsLength, KindOf
<1> QED
  BY <1>1, <1>2, <1>3, OneHeading

(* So are the other calls that come before the empty line.                 *)
LEMMA PlainHeadings ==
  /\ Headings(<<Line>>) /\ CallKinds(<<Line>>) = {"line"}
  /\ Headings(<<Encoding>>) /\ CallKinds(<<Encoding>>) = {"encoding"}
  /\ Headings(<<Token>>) /\ CallKinds(<<Token>>) = {"token"}
  /\ Headings(<<Stop>>) /\ CallKinds(<<Stop>>) = {"stop"}
  /\ Headings(<<Crash>>)
<1>1. /\ Line.do = "line" /\ Encoding.do = "encoding" /\ Token.do = "token"
      /\ Stop.do = "stop" /\ Crash.do = "crash"
  BY DEF Line, Encoding, Token, Stop, Crash
<1>2. /\ Line \in Calls /\ Encoding \in Calls /\ Token \in Calls /\ Stop \in Calls
      /\ Crash \in Calls
  BY CallTypes DEF Calls
<1>3. ASSUME NEW call \in Calls, call.do \in {"line", "encoding", "token", "stop", "crash"}
      PROVE  Headings(<<call>>) /\ CallKinds(<<call>>) = {call.do}
  <2>1. call.do \in HeadCalls /\ ~IsLength(call) /\ call.do # "header"
        /\ KindOf(call) = call.do
    BY <1>3 DEF HeadCalls, IsLength, KindOf
  <2> QED
    BY <2>1, OneHeading
<1> QED
  BY <1>1, <1>2, <1>3

(* A list that is there on a condition.                                    *)
LEMMA ConditionalHeadings ==
  ASSUME NEW condition \in BOOLEAN, NEW calls, Headings(calls)
  PROVE  /\ Headings(If(condition, calls))
         /\ CallKinds(If(condition, calls)) = IF condition THEN CallKinds(calls) ELSE {}
BY NoHeading DEF If

(* The authorization, whether its length is looked at or not, is a list of *)
(* headers with its kind alone.                                            *)
LEMMA AuthHeadings ==
  ASSUME NEW auth \in {Checked, Unchecked}
  PROVE  /\ Headings(auth) /\ \A kind \in HeaderKinds : kind \in CallKinds(auth) <=> kind = "auth"
<1>1. "auth" \in HeaderKinds \ {"length"} /\ "token" \notin HeaderKinds
  BY DEF HeaderKinds, DefaultKinds, OptionalKinds
<1>2. Headings(<<Header("auth", 0)>>) /\ CallKinds(<<Header("auth", 0)>>) = {"auth"}
  BY <1>1, HeaderCalls
<1>3. CASE auth = Unchecked
  BY <1>2, <1>3 DEF Unchecked
<1>4. CASE auth = Checked
  <2>1. Checked = <<Token>> \o <<Header("auth", 0)>>
    BY DEF Checked
  <2>2. Headings(<<Token>>) /\ CallKinds(<<Token>>) = {"token"}
    BY PlainHeadings
  <2>3. Headings(auth) /\ CallKinds(auth) = {"token"} \cup {"auth"}
    BY <1>2, <1>4, <2>1, <2>2, ConcatHeadings
  <2> QED
    BY <1>1, <2>3
<1> QED
  BY <1>3, <1>4

(* The request line and the headers every operation begins with.           *)
LEMMA LineHeadings ==
  ASSUME NEW kinds, NEW auth \in {Checked, Unchecked}
  PROVE  /\ Headings(LineAndHeaders(kinds, auth))
         /\ \A kind \in HeaderKinds :
              kind \in CallKinds(LineAndHeaders(kinds, auth)) <=>
                kind \in DefaultKinds \cup (kinds \cap {"type", "auth", "etag"})
<1> DEFINE H(kind) == <<Header(kind, 0)>>
           t == If("type" \in kinds, H("type"))
           a == If("auth" \in kinds, auth)
           e == If("etag" \in kinds, H("etag"))
<1>1. /\ "host" \in HeaderKinds \ {"length"} /\ "appid" \in HeaderKinds \ {"length"}
      /\ "appkey" \in HeaderKinds \ {"length"} /\ "sdk" \in HeaderKinds \ {"length"}
      /\ "type" \in HeaderKinds \ {"length"} /\ "etag" \in HeaderKinds \ {"length"}
      /\ "line" \notin HeaderKinds
  BY DEF HeaderKinds, DefaultKinds, OptionalKinds
<1>2. /\ Headings(H("host")) /\ CallKinds(H("host")) = {"host"}
      /\ Headings(H("appid")) /\ CallKinds(H("appid")) = {"appid"}
      /\ Headings(H("appkey")) /\ CallKinds(H("appkey")) = {"appkey"}
      /\ Headings(H("sdk")) /\ CallKinds(H("sdk")) = {"sdk"}
      /\ Headings(H("type")) /\ CallKinds(H("type")) = {"type"}
      /\ Headings(H("etag")) /\ CallKinds(H("etag")) = {"etag"}
  BY <1>1, HeaderCalls
<1>3. DefaultHeaders = H("host") \o H("appid") \o H("appkey") \o H("sdk")
  BY DEF DefaultHeaders
<1>4. /\ Headings(t) /\ CallKinds(t) = IF "type" \in kinds THEN {"type"} ELSE {}
      /\ Headings(e) /\ CallKinds(e) = IF "etag" \in kinds THEN {"etag"} ELSE {}
      /\ Headings(a) /\ CallKinds(a) = IF "auth" \in kinds THEN CallKinds(auth) ELSE {}
  <2>1. ("type" \in kinds) \in BOOLEAN /\ ("etag" \in kinds) \in BOOLEAN
        /\ ("auth" \in kinds) \in BOOLEAN
    OBVIOUS
  <2> HIDE DEF H
  <2>2. Headings(t) /\ CallKinds(t) = IF "type" \in kinds THEN {"type"} ELSE {}
    BY <1>2, <2>1, ConditionalHeadings
  <2>3. Headings(e) /\ CallKinds(e) = IF "etag" \in kinds THEN {"etag"} ELSE {}
    BY <1>2, <2>1, ConditionalHeadings
  <2>4. Headings(a) /\ CallKinds(a) = IF "auth" \in kinds THEN CallKinds(auth) ELSE {}
    BY <2>1, AuthHeadings, ConditionalHeadings
  <2> QED
    BY <2>2, <2>3, <2>4
<1> HIDE DEF H, t, a, e
<1>5. /\ Headings(H("host") \o H("appid"))
      /\ CallKinds(H("host") \o H("appid")) = {"host", "appid"}
  BY <1>2, ConcatHeadings
<1>6. /\ Headings(H("host") \o H("appid") \o H("appkey"))
      /\ CallKinds(H("host") \o H("appid") \o H("appkey")) = {"host", "appid", "appkey"}
  BY <1>2, <1>5, ConcatHeadings
<1>7. Headings(DefaultHeaders) /\ CallKinds(DefaultHeaders) = DefaultKinds
  BY <1>2, <1>3, <1>6, ConcatHeadings DEF DefaultKinds
<1>8. /\ Headings(<<Line>> \o DefaultHeaders)
      /\ CallKinds(<<Line>> \o DefaultHeaders) = {"line"} \cup DefaultKinds
  BY <1>7, PlainHeadings, ConcatHeadings
<1>9. /\ Headings(<<Line>> \o DefaultHeaders \o t)
      /\ CallKinds(<<Line>> \o DefaultHeaders \o t) = {"line"} \cup DefaultKinds \cup CallKinds(t)
  BY <1>4, <1>8, ConcatHeadings
<1>10. /\ Headings(<<Line>> \o DefaultHeaders \o t \o a)
       /\ CallKinds(<<Line>> \o DefaultHeaders \o t \o a)
            = {"line"} \cup DefaultKinds \cup CallKinds(t) \cup CallKinds(a)
  BY <1>4, <1>9, ConcatHeadings
<1>11. /\ Headings(<<Line>> \o DefaultHeaders \o t \o a \o e)
       /\ CallKinds(<<Line>> \o DefaultHeaders \o t \o a \o e)
            = {"line"} \cup DefaultKinds \cup CallKinds(t) \cup CallKinds(a) \cup CallKinds(e)
  BY <1>4, <1>10, ConcatHeadings
<1>12. LineAndHeaders(kinds, auth) = <<Line>> \o DefaultHeaders \o t \o a \o e
  BY DEF LineAndHeaders, t, a, e, H
<1>13. ASSUME NEW kind \in HeaderKinds
       PROVE  kind \in {"line"} \cup DefaultKinds \cup CallKinds(t) \cup CallKinds(a)
                         \cup CallKinds(e)
                <=> kind \in DefaultKinds \cup (kinds \cap {"type", "auth", "etag"})
  <2>1. kind \in CallKinds(t) <=> kind = "type" /\ "type" \in kinds
    BY <1>4
  <2>2. kind \in CallKinds(e) <=> kind = "etag" /\ "etag" \in kinds
    BY <1>4
  <2>3. kind \in CallKinds(a) <=> kind = "auth" /\ "auth" \in kinds
    BY <1>4, AuthHeadings
  <2>4. kind # "line"
    BY <1>1
  <2> QED
    BY <2>1, <2>2, <2>3, <2>4
<1> QED
  BY <1>11, <1>12, <1>13

(* What comes after the headings.                                          *)
LEMMA EmptyLineLayout ==
  ASSUME NEW last \in {Ready, Started}
  PROVE  /\ <<EmptyLine, last>> \in Seq(Calls) /\ Layout(<<EmptyLine, last>>, 1, 0, 0)
         /\ \A kind \in HeaderKinds : kind \notin CallKinds(<<EmptyLine, last>>)
         /\ Starts(<<EmptyLine, last>>) <=> last = Started
<1> DEFINE s == <<EmptyLine, last>>
<1>1. EmptyLine \in Calls /\ last \in Calls
  BY CallTypes DEF Calls
<1>2. s \in Seq(Calls) /\ Len(s) = 2 /\ s[1] = EmptyLine /\ s[2] = last
  BY <1>1
<1>3. EmptyLine.do = "body" /\ Ready.do = "ready" /\ Started.do = "started"
  BY DEF EmptyLine, Piece, Ready, Started
<1>4. last.do \in {"ready", "started"} /\ (last.do = "started" <=> last = Started)
  BY <1>3
<1> HIDE DEF s
<1>5. \A i \in 1..2 : i = 1 \/ i = 2
  OBVIOUS
<1>6. \A i \in 1..2 : ~IsLength(s[i]) /\ s[i].do # "header" /\ KindOf(s[i]) = s[i].do
  BY <1>2, <1>3, <1>4, <1>5 DEF IsLength, KindOf
<1>7. Layout(s, 1, 0, 0)
  <2>1. 1 \in 0..Len(s) - 1 /\ 1..1 - 1 = {} /\ 1 + 1..Len(s) - 1 = {} /\ 1..Len(s) = 1..2
    BY <1>2
  <2>2. From(s, 1 + 1, 0) = 0 + 1
    <3>1. s[1 + 1] = last /\ last.do # "body"
      BY <1>2, <1>4
    <3> QED
      BY <3>1 DEF From
  <2> QED
    BY <1>2, <1>4, <1>6, <2>1, <2>2 DEF Layout
<1>8. ASSUME NEW kind \in HeaderKinds PROVE kind \notin CallKinds(s)
  <2>1. {"body", "ready", "started"} \cap HeaderKinds = {}
    BY DEF HeaderKinds, DefaultKinds, OptionalKinds
  <2>2. \A i \in 1..2 : KindOf(s[i]) \in {"body", "ready", "started"}
    BY <1>2, <1>3, <1>4, <1>5, <1>6
  <2>3. CallKinds(s) = {KindOf(s[i]) : i \in 1..2}
    BY <1>2 DEF CallKinds
  <2> QED
    BY <2>1, <2>2, <2>3
<1>9. Starts(s) <=> last = Started
  BY <1>2, <1>4 DEF Starts
<1> QED
  BY <1>2, <1>7, <1>8, <1>9 DEF s

(* The Content-Length of all pieces, the empty line and the pieces are     *)
(* laid out, for any number of pieces.                                     *)
LEMMA WithBodyLayout ==
  ASSUME NEW pieces \in Seq(Nat)
  PROVE  LET s == WithBody(pieces) \o <<Ready>>
         IN /\ s \in Seq(Calls) /\ Layout(s, 2, 0, Whole(pieces))
            /\ \A kind \in HeaderKinds : kind \in CallKinds(s) <=> kind = "length"
            /\ ~Starts(s)
<1> DEFINE whole == Whole(pieces)
           length == Header("length", whole)
           first == <<length, EmptyLine>>
           body_ == [i \in DOMAIN pieces |-> Piece("body", pieces[i], Before(pieces, i) + 1)]
           s == WithBody(pieces) \o <<Ready>>
           k == Len(pieces)
<1>1. /\ length \in Calls /\ EmptyLine \in Calls /\ Ready \in Calls /\ whole \in Nat
  <2>1. "length" \in HeaderKinds /\ whole \in Nat
    BY BodyForm DEF HeaderKinds
  <2> QED
    BY <2>1, CallTypes DEF Calls
<1>2. k \in Nat /\ \A i \in 1..k : pieces[i] \in Nat
  OBVIOUS
<1>3. \A i \in 1..k : Before(pieces, i) \in Nat
  <2>1. \A i \in 1..k : i \in 1..k + 1
    BY <1>2
  <2> QED
    BY <2>1, BeforeType
<1>4. \A i \in 1..k : Piece("body", pieces[i], Before(pieces, i) + 1) \in Calls
  BY <1>2, <1>3, CallTypes DEF Calls, BodyKinds
<1>5. body_ \in Seq(Calls) /\ Len(body_) = k
      /\ \A i \in 1..k : body_[i] = Piece("body", pieces[i], Before(pieces, i) + 1)
  BY <1>2, <1>4
<1>6. first \in Seq(Calls) /\ Len(first) = 2 /\ first[1] = length /\ first[2] = EmptyLine
  BY <1>1
<1>7. <<Ready>> \in Seq(Calls) /\ Len(<<Ready>>) = 1 /\ <<Ready>>[1] = Ready
  BY <1>1
<1>8. WithBody(pieces) = first \o body_
  BY DEF WithBody
<1> HIDE DEF first, body_, whole, length
<1> DEFINE w == first \o body_
<1>9. /\ w \in Seq(Calls) /\ Len(w) = 2 + k
      /\ \A i \in 1..2 : w[i] = first[i]
      /\ \A i \in 1..k : w[2 + i] = body_[i]
  <2>1. /\ w \in Seq(Calls) /\ Len(w) = Len(first) + Len(body_)
        /\ \A i \in 1..Len(first) : w[i] = first[i]
        /\ \A i \in 1..Len(body_) : w[Len(first) + i] = body_[i]
    BY <1>5, <1>6, ConcatKinds
  <2> QED
    BY <1>5, <1>6, <2>1
<1> HIDE DEF w
<1>10. s = w \o <<Ready>>
  BY <1>8 DEF w
<1> HIDE DEF s
<1>11. /\ s \in Seq(Calls) /\ Len(s) = k + 3
       /\ \A i \in 1..k + 2 : s[i] = w[i]
       /\ s[k + 3] = Ready
  <2>1. /\ s \in Seq(Calls) /\ Len(s) = Len(w) + Len(<<Ready>>)
        /\ \A i \in 1..Len(w) : s[i] = w[i]
        /\ \A i \in 1..Len(<<Ready>>) : s[Len(w) + i] = <<Ready>>[i]
    BY <1>7, <1>9, <1>10, ConcatKinds
  <2>2. Len(w) + 1 = k + 3 /\ Len(w) = k + 2 /\ 1 \in 1..1
    BY <1>2, <1>9
  <2>3. s[Len(w) + 1] = Ready
    BY <1>7, <2>1, <2>2
  <2> QED
    BY <1>7, <2>1, <2>2, <2>3
<1>12. s[1] = length /\ s[2] = EmptyLine
  <2>1. 1 \in 1..k + 2 /\ 2 \in 1..k + 2 /\ 1 \in 1..2 /\ 2 \in 1..2
    BY <1>2
  <2> QED
    BY <1>6, <1>9, <1>11, <2>1
<1>13. ASSUME NEW i \in 3..k + 2
       PROVE  /\ s[i].do = "body" /\ s[i].kind = "body"
              /\ i - 2 \in 1..k /\ s[i].size = pieces[i - 2]
              /\ s[i].n = Before(pieces, i - 2) + 1
  <2>1. i - 2 \in 1..k /\ 2 + (i - 2) = i /\ i \in 1..k + 2
    BY <1>2
  <2>2. w[2 + (i - 2)] = body_[i - 2]
    BY <1>9, <2>1
  <2>3. s[i] = Piece("body", pieces[i - 2], Before(pieces, i - 2) + 1)
    BY <1>5, <1>11, <2>1, <2>2
  <2> QED
    BY <2>1, <2>3 DEF Piece
<1>14. /\ length.do = "header" /\ length.kind = "length" /\ length.n = whole
       /\ length.size = HeaderSize["length"]
       /\ EmptyLine.do = "body" /\ Ready.do = "ready"
  BY DEF length, Header, EmptyLine, Piece, Ready
<1>15. \A i \in 1..Len(s) : i = 1 \/ i = 2 \/ i \in 3..k + 2 \/ i = k + 3
  BY <1>2, <1>11
<1>16. ASSUME NEW i \in 3..k + 3
       PROVE  From(s, i, whole) = Before(pieces, i - 2) + 1
  <2>1. CASE i \in 3..k + 2
    BY <1>13, <2>1 DEF From
  <2>2. CASE i = k + 3
    <3>1. From(s, i, whole) = whole + 1
      BY <1>11, <1>14, <2>2 DEF From
    <3>2. i - 2 = Len(pieces) + 1
      BY <1>2, <2>2
    <3> QED
      BY <3>1, <3>2 DEF whole, Whole
  <2> QED
    BY <1>2, <2>1, <2>2
<1>17. From(s, 2 + 1, whole) = 0 + 1
  <2>1. 3 \in 3..k + 3 /\ 2 + 1 = 3 /\ 3 - 2 = 1
    BY <1>2
  <2>2. From(s, 3, whole) = Before(pieces, 1) + 1
    BY <1>16, <2>1
  <2>3. Before(pieces, 1) = 0
    BY BeforeNext
  <2> QED
    BY <2>1, <2>2, <2>3
<1>18. ASSUME NEW i \in 2 + 1..Len(s) - 1
       PROVE  /\ s[i].do = "body" /\ s[i].kind = "body"
              /\ From(s, i + 1, whole) = From(s, i, whole) + s[i].size
  <2>1. /\ i \in 3..k + 2 /\ i \in 3..k + 3 /\ i + 1 \in 3..k + 3
        /\ (i + 1) - 2 = (i - 2) + 1 /\ i - 2 \in 1..k
    BY <1>2, <1>11
  <2>2. From(s, i + 1, whole) = Before(pieces, (i - 2) + 1) + 1
    BY <1>16, <2>1
  <2>3. From(s, i, whole) = Before(pieces, i - 2) + 1
    BY <1>16, <2>1
  <2>4. Before(pieces, (i - 2) + 1) = Before(pieces, i - 2) + pieces[i - 2]
    BY <2>1, BeforeNext
  <2>5. Before(pieces, i - 2) \in Nat /\ pieces[i - 2] \in Nat
    BY <1>2, <1>3, <2>1
  <2>6. From(s, i + 1, whole) = From(s, i, whole) + pieces[i - 2]
    <3>1. \A x, p \in Nat : (x + p) + 1 = (x + 1) + p
      OBVIOUS
    <3>2. (Before(pieces, i - 2) + pieces[i - 2]) + 1
            = (Before(pieces, i - 2) + 1) + pieces[i - 2]
      BY <2>5, <3>1
    <3>3. From(s, i + 1, whole) = (Before(pieces, i - 2) + pieces[i - 2]) + 1
      BY <2>2, <2>4
    <3> QED
      BY <2>3, <3>2, <3>3
  <2> QED
    BY <1>13, <2>1, <2>6
<1>19. ASSUME NEW i \in 1..Len(s)
       PROVE  /\ IsLength(s[i]) => i = 2 - 1 /\ s[i].n = whole
              /\ s[i].do = "header" => s[i].size = HeaderSize[s[i].kind]
  BY <1>11, <1>12, <1>13, <1>14, <1>15 DEF IsLength
<1>20. Layout(s, 2, 0, whole)
  <2>1. 2 \in 0..Len(s) - 1 /\ \A i \in 1..2 - 1 : i = 1
    BY <1>2, <1>11
  <2>2. "header" \in HeadCalls
    BY DEF HeadCalls
  <2>3. s[Len(s)].do \in {"ready", "started"}
    BY <1>11, <1>14
  <2> QED
    BY <1>12, <1>14, <1>17, <1>18, <1>19, <2>1, <2>2, <2>3 DEF Layout
<1>21. ~Starts(s)
  BY <1>11, <1>14 DEF Starts
<1>22. ASSUME NEW kind \in HeaderKinds
       PROVE  kind \in CallKinds(s) <=> kind = "length"
  <2>1. {"body", "ready"} \cap HeaderKinds = {}
    BY DEF HeaderKinds, DefaultKinds, OptionalKinds
  <2>2. KindOf(s[1]) = "length" /\ 1 \in 1..Len(s)
    BY <1>2, <1>11, <1>12, <1>14 DEF KindOf
  <2>3. \A i \in 1..Len(s) : i # 1 => KindOf(s[i]) \in {"body", "ready"}
    BY <1>11, <1>12, <1>13, <1>14, <1>15 DEF KindOf
  <2>4. CallKinds(s) = {KindOf(s[i]) : i \in 1..Len(s)}
    BY DEF CallKinds
  <2> QED
    BY <2>1, <2>2, <2>3, <2>4
<1> QED
  BY <1>11, <1>20, <1>21, <1>22 DEF s, whole

-----------------------------------------------------------------------------
(* The operations: each begins with a plan of what its caller wants.       *)

(* An operation that has written nothing, and whose calls have the kinds   *)
(* its caller asked for, is on its plan.                                   *)
LEMMA PlanBegins ==
  ASSUME NEW request \in Requests, NEW left, NEW starts \in BOOLEAN,
         NEW length \in BOOLEAN, ~length => Wanted(request) = 0,
         starts => ~length,
         \A kind \in HeaderKinds :
           kind \in left <=> \/ kind \in DefaultKinds \cup request.headers
                             \/ kind = "extra" /\ request.keys # <<>>
                             \/ kind = "length" /\ length
  PROVE  Plan(request, {}, left, starts)
<1>1. /\ DefaultKinds \subseteq HeaderKinds /\ OptionalKinds \subseteq HeaderKinds
      /\ "length" \in HeaderKinds /\ "extra" \in HeaderKinds
      /\ "encoding" \in OptionalKinds /\ "encoding" \notin DefaultKinds
      /\ "length" \notin DefaultKinds \cup OptionalKinds
      /\ "extra" \notin DefaultKinds \cup OptionalKinds /\ "extra" # "length"
      /\ DefaultKinds \cap OptionalKinds = {}
  BY DEF HeaderKinds, DefaultKinds, OptionalKinds
<1>2. request.headers \subseteq OptionalKinds
  BY DEF Requests
<1>3. Asks(request, left)
  <2>1. DefaultKinds \subseteq left
    BY <1>1
  <2>2. left \cap (OptionalKinds \ {"encoding"}) = request.headers \ {"encoding"}
    BY <1>1, <1>2
  <2>3. "encoding" \in left => "encoding" \in request.headers
    BY <1>1
  <2>4. "extra" \in left <=> request.keys # <<>>
    BY <1>1, <1>2
  <2> QED
    BY <2>1, <2>2, <2>3, <2>4 DEF Asks
<1>4. "length" \in left <=> length
  BY <1>1, <1>2
<1>5. {} \cup left = left
  OBVIOUS
<1> QED
  BY <1>3, <1>4, <1>5 DEF Plan

(* An operation that begins with a request line, headers and calls that    *)
(* are laid out has ContentInv.                                            *)
LEMMA BeginContent ==
  ASSUME IInv, ContentInv, NEW h, Headings(h), NEW t \in Seq(Calls),
         h # <<>>, h[1] = Line,
         NEW headers, NEW size, NEW keys, Begin(h \o t, headers, size, keys),
         NEW request \in Requests,
         request = [headers |-> headers, body |-> size, keys |-> keys],
         NEW b \in Nat, b > 0, Layout(t, b, 0, Wanted(request)),
         Plan(request, {}, CallKinds(h) \cup CallKinds(t), Starts(t))
  PROVE  ContentInv'
<1> DEFINE calls == h \o t
<1>1. h \in Seq(Calls) /\ Len(h) \in Nat /\ 1 \in 1..Len(h)
  BY DEF Headings
<1>2. Wanted(request) \in Nat
  <2>1. request.body \in Nat \cup {NoBody}
    BY DEF Requests
  <2> QED
    BY <2>1 DEF Wanted
<1>3. /\ calls \in Seq(Calls) /\ Layout(calls, Len(h) + b, 0, Wanted(request))
      /\ Len(h) + b \in Nat /\ Len(h) + b > 0
      /\ CallKinds(calls) = CallKinds(h) \cup CallKinds(t)
      /\ Starts(calls) = Starts(t)
  BY <1>2, LayoutAfter
<1>4. calls[1] = Line /\ 1 \in 1..Len(calls) /\ DOMAIN calls = 1..Len(calls)
  <2>1. calls[1] = h[1] /\ Len(calls) = Len(h) + Len(t) /\ Len(t) \in Nat
    BY <1>1, ConcatKinds
  <2>2. 1 \in 1..Len(calls)
    BY <1>1, <2>1
  <2> QED
    BY <1>3, <2>1, <2>2
<1> HIDE DEF calls
<1>5. /\ todo' = calls /\ result' = "pending" /\ building' = FALSE
      /\ asked' = request /\ state' = "IDLE"
  BY DEF Begin, Idle, calls
<1>6. ~Begun'
  BY <1>4, <1>5 DEF Begun, Line
<1>7. WrittenSoFar' = {}
  BY <1>6 DEF WrittenSoFar
<1>8. Plan(request, {}, CallKinds(calls), Starts(calls))
  BY <1>3
<1> DEFINE c == Len(h) + b
<1>9. c \in Nat /\ c # 0 /\ Layout(calls, c, 0, Wanted(request))
  BY <1>3
<1> HIDE DEF c
<1>10. LaidOut(c)'
  <2>1. Layout(todo', c, IF c = 0 THEN Sent' ELSE 0, Wanted(asked'))
    BY <1>5, <1>9
  <2>2. Plan(asked', WrittenSoFar', CallKinds(todo'), Starts(todo'))
    BY <1>5, <1>7, <1>8
  <2> QED
    BY <1>6, <2>1, <2>2 DEF LaidOut
<1> QED
  BY <1>5, <1>9, <1>10 DEF ContentInv, PendingOK, WrittenOK

(* The line and the headers of an operation begin with the line.           *)
LEMMA LineFirst ==
  ASSUME NEW kinds, NEW auth \in {Checked, Unchecked}
  PROVE  LET h == LineAndHeaders(kinds, auth)
         IN h # <<>> /\ h[1] = Line /\ Len(h) \in Nat /\ Len(h) > 0
<1>1. auth \in Seq(Rest)
  BY AuthTypes
<1>2. Form(LineAndHeaders(kinds, auth))
  BY <1>1, LineForm
<1> QED
  BY <1>2 DEF Form

(* A request with one body, or none, is laid out.                          *)
LEMMA BodyCallsLayout ==
  ASSUME NEW size \in BodySizes \cup {NoBody},
         NEW want, want = IF size = NoBody THEN 0 ELSE size
  PROVE  LET t == BodyCalls(size) \o <<Ready>>
         IN /\ t \in Seq(Calls) /\ ~Starts(t)
            /\ \E b \in Nat : b > 0 /\ Layout(t, b, 0, want)
            /\ \A kind \in HeaderKinds :
                 kind \in CallKinds(t) <=> kind = "length" /\ size # NoBody
<1>1. CASE size = NoBody
  <2>1. BodyCalls(size) \o <<Ready>> = <<EmptyLine, Ready>>
    <3>1. BodyCalls(size) = <<EmptyLine>>
      BY <1>1 DEF BodyCalls, Bodiless
    <3>2. EmptyLine \in Calls /\ Ready \in Calls
      BY CallTypes DEF Calls
    <3> DEFINE s == <<EmptyLine>> \o <<Ready>>
               t == <<EmptyLine, Ready>>
    <3>3. s \in Seq(Calls) /\ Len(s) = 2 /\ s[1] = EmptyLine /\ s[2] = Ready
      BY <3>2
    <3>4. t \in Seq(Calls) /\ Len(t) = 2 /\ t[1] = EmptyLine /\ t[2] = Ready
      BY <3>2
    <3> HIDE DEF s, t
    <3>5. \A i \in 1..2 : i = 1 \/ i = 2
      OBVIOUS
    <3>6. \A i \in 1..2 : s[i] = t[i]
      BY <3>3, <3>4, <3>5
    <3>7. s = t
      BY <3>3, <3>4, <3>6
    <3> QED
      BY <3>1, <3>7 DEF s, t
  <2>2. Ready # Started
    BY DEF Ready, Started
  <2>3. 1 \in Nat /\ 1 > 0
    OBVIOUS
  <2> QED
    BY <1>1, <2>1, <2>2, <2>3, EmptyLineLayout
<1>2. CASE size # NoBody
  <2>1. size \in Nat
    BY <1>2, ConstantTypes
  <2>2. <<size>> \in Seq(Nat) /\ Len(<<size>>) = 1 /\ <<size>>[1] = size
    BY <2>1
  <2>3. Whole(<<size>>) = size
    <3>1. 1 \in 1..Len(<<size>>)
      BY <2>2
    <3>2. Before(<<size>>, 1 + 1) = Before(<<size>>, 1) + <<size>>[1]
      BY <2>2, <3>1, BeforeNext
    <3>3. Before(<<size>>, 1) = 0
      BY <2>2, BeforeNext
    <3>4. Before(<<size>>, Len(<<size>>) + 1) = 0 + size
      BY <2>2, <3>2, <3>3
    <3> QED
      BY <2>1, <3>4 DEF Whole
  <2>4. BodyCalls(size) = WithBody(<<size>>)
    BY <1>2 DEF BodyCalls
  <2>5. 2 \in Nat /\ 2 > 0
    OBVIOUS
  <2> QED
    BY <1>2, <2>2, <2>3, <2>4, <2>5, WithBodyLayout
<1> QED
  BY <1>1, <1>2

(* Headings that begin with the line still do with others after them.      *)
LEMMA HeadingsFirst ==
  ASSUME NEW s, Headings(s), s # <<>>, s[1] = Line, NEW t, Headings(t)
  PROVE  /\ Headings(s \o t) /\ CallKinds(s \o t) = CallKinds(s) \cup CallKinds(t)
         /\ s \o t # <<>> /\ (s \o t)[1] = Line
<1>1. /\ s \in Seq(Calls) /\ t \in Seq(Calls)
  BY DEF Headings
<1>2. Len(s) \in Nat /\ Len(s) > 0 /\ Len(t) \in Nat /\ 1 \in 1..Len(s)
  BY <1>1
<1>3. s \o t \in Seq(Calls) /\ Len(s \o t) = Len(s) + Len(t) /\ (s \o t)[1] = Line
  BY <1>1, <1>2, ConcatKinds
<1>4. \A w \in Seq(Calls) : Len(w) > 0 => w # <<>>
  OBVIOUS
<1>5. Len(s \o t) > 0
  BY <1>2, <1>3
<1>6. s \o t # <<>>
  BY <1>3, <1>4, <1>5, Zenon
<1> QED
  BY <1>3, <1>6, ConcatHeadings

(* Headings of the kinds wanted, then the empty line and the body wanted.  *)
LEMMA PlannedBegin ==
  ASSUME IInv, ContentInv, NEW kinds \in SUBSET OptionalKinds,
         NEW size \in Nat \cup {NoBody}, NEW keys \in Seq(Seq(STRING)),
         NEW h, Headings(h), h # <<>>, h[1] = Line,
         NEW t \in Seq(Calls), Starts(t) => size = NoBody,
         \E b \in Nat : b > 0 /\ Layout(t, b, 0, IF size = NoBody THEN 0 ELSE size),
         \A kind \in HeaderKinds :
           kind \in CallKinds(h) <=>
             kind \in DefaultKinds \cup kinds \/ (kind = "extra" /\ keys # <<>>),
         \A kind \in HeaderKinds :
           kind \in CallKinds(t) <=> kind = "length" /\ size # NoBody,
         Begin(h \o t, kinds, size, keys)
  PROVE  ContentInv'
<1> DEFINE request == [headers |-> kinds, body |-> size, keys |-> keys]
           left == CallKinds(h) \cup CallKinds(t)
           length == size # NoBody
<1>1. /\ request \in Requests /\ request.headers = kinds /\ request.keys = keys
      /\ Wanted(request) = IF size = NoBody THEN 0 ELSE size
      /\ request = [headers |-> kinds, body |-> size, keys |-> keys]
  BY DEF Requests, Wanted
<1> HIDE DEF request
<1>2. ~length => Wanted(request) = 0
  BY <1>1
<1>3. \A kind \in HeaderKinds :
        kind \in left <=> \/ kind \in DefaultKinds \cup request.headers
                          \/ kind = "extra" /\ request.keys # <<>>
                          \/ kind = "length" /\ length
  BY <1>1
<1>4. Starts(t) \in BOOLEAN /\ length \in BOOLEAN /\ (Starts(t) => ~length)
  BY DEF Starts
<1> HIDE DEF left, length
<1>5. Plan(request, {}, left, Starts(t))
  BY <1>1, <1>2, <1>3, <1>4, PlanBegins
<1>6. PICK b \in Nat : b > 0 /\ Layout(t, b, 0, Wanted(request))
  BY <1>1
<1> QED
  BY <1>1, <1>5, <1>6, BeginContent DEF left

(* prv_http_request begins its operations with ContentInv.                 *)
LEMMA HttpRequestContent ==
  ASSUME IInv, ContentInv, NEW always \in SUBSET OptionalKinds,
         NEW optional \in SUBSET OptionalKinds, NEW size \in BodySizes \cup {NoBody},
         HttpRequest(always, optional, size)
  PROVE  ContentInv'
<1>1. PICK given \in SUBSET optional :
        LET kinds == always \cup given
        IN Begin(LineAndHeaders(kinds, Checked)
                   \o If("encoding" \in kinds, <<Encoding>>)
                   \o BodyCalls(size) \o <<Ready>>,
                 kinds, size, <<>>)
  BY DEF HttpRequest
<1> DEFINE kinds == always \cup given
           line == LineAndHeaders(kinds, Checked)
           encoding == If("encoding" \in kinds, <<Encoding>>)
           h == line \o encoding
           t == BodyCalls(size) \o <<Ready>>
<1>2. kinds \in SUBSET OptionalKinds
  OBVIOUS
<1>3. Headings(line) /\ line # <<>> /\ line[1] = Line
  BY LineHeadings, LineFirst
<1>4. /\ Headings(encoding)
      /\ CallKinds(encoding) = IF "encoding" \in kinds THEN {"encoding"} ELSE {}
  <2>1. ("encoding" \in kinds) \in BOOLEAN
    OBVIOUS
  <2> QED
    BY <2>1, PlainHeadings, ConditionalHeadings
<1>5. /\ t \in Seq(Calls) /\ ~Starts(t)
      /\ \E b \in Nat : b > 0 /\ Layout(t, b, 0, IF size = NoBody THEN 0 ELSE size)
      /\ \A kind \in HeaderKinds :
           kind \in CallKinds(t) <=> kind = "length" /\ size # NoBody
  BY BodyCallsLayout
<1>6. size \in Nat \cup {NoBody} /\ <<>> \in Seq(Seq(STRING))
  BY ConstantTypes
<1>7. /\ line \in Seq(Calls) /\ encoding \in Seq(Calls) /\ BodyCalls(size) \in Seq(Calls)
      /\ <<Ready>> \in Seq(Calls)
  <2>1. BodyCalls(size) \in Seq(Rest)
    BY BodyCallsForm
  <2> QED
    BY <1>3, <1>4, <2>1, CallTypes DEF Headings, Calls
<1>8. Begin(h \o t, kinds, size, <<>>)
  <2>1. h \in Seq(Calls)
    BY <1>7, ConcatKinds
  <2>2. (h \o BodyCalls(size)) \o <<Ready>> = h \o t
    BY <1>7, <2>1, ConcatAssociative
  <2>3. Begin((h \o BodyCalls(size)) \o <<Ready>>, kinds, size, <<>>)
    BY <1>1
  <2> HIDE DEF h, t, kinds
  <2> QED
    BY <2>2, <2>3
<1>9. ASSUME NEW kind \in HeaderKinds
      PROVE  /\ kind \in CallKinds(line) <=>
                  kind \in DefaultKinds \cup (kinds \cap {"type", "auth", "etag"})
             /\ kind \in CallKinds(encoding) <=> kind = "encoding" /\ kind \in kinds
             /\ kind \in kinds => kind \in {"type", "auth", "etag", "encoding"}
  BY <1>2, <1>4, LineHeadings DEF OptionalKinds
<1> HIDE DEF line, encoding, t, kinds
<1>10. /\ Headings(h) /\ CallKinds(h) = CallKinds(line) \cup CallKinds(encoding)
       /\ h # <<>> /\ h[1] = Line
  BY <1>3, <1>4, HeadingsFirst
<1>11. \A kind \in HeaderKinds :
         kind \in CallKinds(h) <=>
           kind \in DefaultKinds \cup kinds \/ (kind = "extra" /\ <<>> # <<>>)
  BY <1>9, <1>10
<1> HIDE DEF h
<1> QED
  BY ZenonT(30), <1>2, <1>5, <1>6, <1>8, <1>10, <1>11, PlannedBegin

(* Operations that append their body in pieces begin with ContentInv.      *)
LEMMA InPiecesContent ==
  ASSUME IInv, ContentInv, NEW optional \in SUBSET {"auth"},
         NEW pieces \in Seq(Nat), InPieces(optional, pieces)
  PROVE  ContentInv'
<1>1. PICK given \in SUBSET optional :
        LET kinds == {"type"} \cup given
        IN Begin(LineAndHeaders(kinds, Checked) \o WithBody(pieces) \o <<Ready>>,
                 kinds, Whole(pieces), <<>>)
  BY DEF InPieces
<1> DEFINE kinds == {"type"} \cup given
           h == LineAndHeaders(kinds, Checked)
           t == WithBody(pieces) \o <<Ready>>
<1>2. kinds \in SUBSET OptionalKinds /\ \A kind \in kinds : kind \in {"type", "auth"}
  BY DEF OptionalKinds
<1>3. Headings(h) /\ h # <<>> /\ h[1] = Line /\ h \in Seq(Calls)
  BY LineHeadings, LineFirst DEF Headings
<1>4. \A kind \in HeaderKinds :
        kind \in CallKinds(h) <=>
          kind \in DefaultKinds \cup (kinds \cap {"type", "auth", "etag"})
  BY LineHeadings
<1>5. Whole(pieces) \in Nat /\ NoBody \notin Nat /\ WithBody(pieces) \in Seq(Calls)
      /\ <<Ready>> \in Seq(Calls) /\ <<>> \in Seq(Seq(STRING))
  BY BodyForm, CallTypes DEF Calls, NoBody
<1>6. /\ t \in Seq(Calls) /\ Layout(t, 2, 0, Whole(pieces))
      /\ \A kind \in HeaderKinds : kind \in CallKinds(t) <=> kind = "length"
      /\ ~Starts(t)
  BY WithBodyLayout
<1>7. Begin(h \o t, kinds, Whole(pieces), <<>>)
  <2>1. (h \o WithBody(pieces)) \o <<Ready>> = h \o t
    BY SMTT(30), <1>3, <1>5, ConcatAssociative
  <2>2. Begin((h \o WithBody(pieces)) \o <<Ready>>, kinds, Whole(pieces), <<>>)
    BY <1>1
  <2> HIDE DEF h, t, kinds
  <2> QED
    BY <2>1, <2>2
<1> DEFINE size == Whole(pieces)
<1> HIDE DEF h, t, kinds, size
<1>8. /\ size \in Nat \cup {NoBody} /\ size # NoBody
      /\ t \in Seq(Calls) /\ (Starts(t) => size = NoBody)
      /\ <<>> \in Seq(Seq(STRING))
      /\ Layout(t, 2, 0, IF size = NoBody THEN 0 ELSE size)
      /\ Begin(h \o t, kinds, size, <<>>)
  BY <1>5, <1>6, <1>7 DEF size
<1>9. \E b \in Nat : b > 0 /\ Layout(t, b, 0, IF size = NoBody THEN 0 ELSE size)
  <2>1. 2 \in Nat /\ 2 > 0
    OBVIOUS
  <2> QED
    BY <1>8, <2>1
<1>10. \A kind \in HeaderKinds :
         kind \in CallKinds(h) <=>
           kind \in DefaultKinds \cup kinds \/ (kind = "extra" /\ <<>> # <<>>)
  BY <1>2, <1>4
<1>11. \A kind \in HeaderKinds :
         kind \in CallKinds(t) <=> kind = "length" /\ size # NoBody
  BY <1>6, <1>8
<1>12. kinds \in SUBSET OptionalKinds /\ Headings(h) /\ h # <<>> /\ h[1] = Line
  BY <1>2, <1>3
<1> QED
  BY <1>8, <1>9, <1>10, <1>11, <1>12, PlannedBegin

(* The additional headers of kii_core_api_call, or the end of them.        *)
LEMMA ExtraHeadings ==
  ASSUME NEW keys \in Seq(Seq(STRING)), NEW malformed \in BOOLEAN
  PROVE  /\ Headings(Extras(keys, malformed))
         /\ \A kind \in HeaderKinds :
              kind \in CallKinds(Extras(keys, malformed)) <=> kind = "extra" /\ keys # <<>>
<1>1. CASE keys = <<>> /\ malformed
  <2>1. "stop" \notin HeaderKinds
    BY DEF HeaderKinds, DefaultKinds, OptionalKinds
  <2> QED
    BY <1>1, <2>1, PlainHeadings DEF Extras
<1>2. CASE ~(keys = <<>> /\ malformed)
  <2> DEFINE s == [i \in DOMAIN keys |-> Extra(keys[i])]
  <2>1. Len(keys) \in Nat /\ DOMAIN keys = 1..Len(keys)
    OBVIOUS
  <2>2. \A i \in 1..Len(keys) : Extra(keys[i]) \in Calls
    BY CallTypes DEF Calls
  <2>3. s \in Seq(Calls) /\ Len(s) = Len(keys) /\ \A i \in 1..Len(keys) : s[i] = Extra(keys[i])
    BY <2>1, <2>2
  <2> HIDE DEF s
  <2>4. \A i \in 1..Len(keys) : s[i].do = "extra"
    <3>1. \A key : Extra(key).do = "extra"
      BY DEF Extra
    <3> QED
      BY <2>3, <3>1
  <2>5. Headings(s)
    BY <2>3, <2>4 DEF Headings, HeadCalls, IsLength
  <2>6. \A i \in 1..Len(keys) : KindOf(s[i]) = "extra"
    BY <2>4 DEF KindOf
  <2>7. CallKinds(s) = {KindOf(s[i]) : i \in 1..Len(keys)}
    BY <2>3 DEF CallKinds
  <2>8. keys # <<>> => 1 \in 1..Len(keys)
    OBVIOUS
  <2>9. keys = <<>> => 1..Len(keys) = {}
    OBVIOUS
  <2>10. Extras(keys, malformed) = s
    BY <1>2 DEF Extras, s
  <2> QED
    BY <2>5, <2>6, <2>7, <2>8, <2>9, <2>10
<1> QED
  BY <1>1, <1>2

(* kii_core_api_call begins with ContentInv.                               *)
LEMMA ApiCallContent ==
  ASSUME IInv, ContentInv, ApiCall
  PROVE  ContentInv'
<1>1. PICK kinds \in SUBSET {"type", "auth"}, size \in BodySizes \cup {NoBody},
           keys \in UNION {[1..k -> Keys] : k \in 0..MaxExtras},
           malformed \in BOOLEAN :
             Begin(LineAndHeaders(kinds, Unchecked) \o Extras(keys, malformed)
                     \o BodyCalls(size) \o <<Ready>>, kinds, size, keys)
  BY DEF ApiCall
<1>2. keys \in Seq(Seq(STRING))
  <2>1. PICK k \in 0..MaxExtras : keys \in [1..k -> Keys]
    BY <1>1
  <2>2. k \in Nat
    BY <2>1, ConstantTypes
  <2>3. keys \in [1..k -> Seq(STRING)]
    BY <2>1, ConstantTypes
  <2> QED
    BY <2>2, <2>3
<1> DEFINE line == LineAndHeaders(kinds, Unchecked)
           extras == Extras(keys, malformed)
           h == line \o extras
           t == BodyCalls(size) \o <<Ready>>
<1>3. Headings(line) /\ line # <<>> /\ line[1] = Line
  BY LineHeadings, LineFirst
<1>4. /\ Headings(extras)
      /\ \A kind \in HeaderKinds :
           kind \in CallKinds(extras) <=> kind = "extra" /\ keys # <<>>
  BY <1>2, ExtraHeadings
<1>5. /\ t \in Seq(Calls) /\ ~Starts(t)
      /\ \E b \in Nat : b > 0 /\ Layout(t, b, 0, IF size = NoBody THEN 0 ELSE size)
      /\ \A kind \in HeaderKinds :
           kind \in CallKinds(t) <=> kind = "length" /\ size # NoBody
  BY BodyCallsLayout
<1>6. size \in Nat \cup {NoBody} /\ kinds \in SUBSET OptionalKinds
      /\ \A kind \in kinds : kind \in {"type", "auth", "etag"}
  BY ConstantTypes DEF OptionalKinds
<1>7. /\ line \in Seq(Calls) /\ extras \in Seq(Calls) /\ BodyCalls(size) \in Seq(Calls)
      /\ <<Ready>> \in Seq(Calls)
  <2>1. BodyCalls(size) \in Seq(Rest)
    BY BodyCallsForm
  <2> QED
    BY <1>3, <1>4, <2>1, CallTypes DEF Headings, Calls
<1>8. Begin(h \o t, kinds, size, keys)
  <2>1. h \in Seq(Calls)
    BY <1>7, ConcatKinds
  <2>2. (h \o BodyCalls(size)) \o <<Ready>> = h \o t
    BY SMTT(30), <1>7, <2>1, ConcatAssociative
  <2>3. Begin((h \o BodyCalls(size)) \o <<Ready>>, kinds, size, keys)
    BY <1>1
  <2> HIDE DEF h, t
  <2> QED
    BY <2>2, <2>3
<1>9. \A kind \in HeaderKinds :
        kind \in CallKinds(line) <=>
          kind \in DefaultKinds \cup (kinds \cap {"type", "auth", "etag"})
  BY LineHeadings
<1> HIDE DEF line, extras, t
<1>10. /\ Headings(h) /\ CallKinds(h) = CallKinds(line) \cup CallKinds(extras)
       /\ h # <<>> /\ h[1] = Line
  BY <1>3, <1>4, HeadingsFirst
<1>11. \A kind \in HeaderKinds :
         kind \in CallKinds(h) <=>
           kind \in DefaultKinds \cup kinds \/ (kind = "extra" /\ keys # <<>>)
  BY <1>4, <1>6, <1>9, <1>10
<1> HIDE DEF h
<1> QED
  BY <1>2, <1>5, <1>6, <1>8, <1>10, <1>11, PlannedBegin

(* kii_core_api_call_start begins with ContentInv.                         *)
LEMMA ApiCallStartContent ==
  ASSUME IInv, ContentInv, ApiCallStart
  PROVE  ContentInv'
<1>1. PICK kinds \in SUBSET {"type", "auth"} :
        Begin(LineAndHeaders(kinds, Checked) \o <<EmptyLine, Started>>,
              kinds, NoBody, <<>>)
  BY DEF ApiCallStart
<1> DEFINE h == LineAndHeaders(kinds, Checked)
           t == <<EmptyLine, Started>>
           size == NoBody
<1>2. Headings(h) /\ h # <<>> /\ h[1] = Line
  BY LineHeadings, LineFirst
<1>3. \A kind \in HeaderKinds :
        kind \in CallKinds(h) <=>
          kind \in DefaultKinds \cup (kinds \cap {"type", "auth", "etag"})
  BY LineHeadings
<1>4. /\ t \in Seq(Calls) /\ Layout(t, 1, 0, 0)
      /\ \A kind \in HeaderKinds : kind \notin CallKinds(t)
  BY EmptyLineLayout
<1>5. /\ NoBody \in Nat \cup {NoBody} /\ kinds \in SUBSET OptionalKinds
      /\ \A kind \in kinds : kind \in {"type", "auth", "etag"}
      /\ <<>> \in Seq(Seq(STRING)) /\ 1 \in Nat /\ 1 > 0
  BY DEF OptionalKinds
<1>6. Begin(h \o t, kinds, size, <<>>) /\ size = NoBody
  BY <1>1
<1> HIDE DEF h, t, size
<1>7. \E b \in Nat : b > 0 /\ Layout(t, b, 0, IF size = NoBody THEN 0 ELSE size)
  BY <1>4, <1>5, <1>6
<1>8. \A kind \in HeaderKinds :
        kind \in CallKinds(h) <=>
          kind \in DefaultKinds \cup kinds \/ (kind = "extra" /\ <<>> # <<>>)
  BY <1>3, <1>5
<1>9. \A kind \in HeaderKinds :
        kind \in CallKinds(t) <=> kind = "length" /\ size # NoBody
  BY <1>4, <1>6
<1>10. size \in Nat \cup {NoBody} /\ (Starts(t) => size = NoBody)
  BY <1>6
<1>11. /\ kinds \in SUBSET OptionalKinds /\ <<>> \in Seq(Seq(STRING))
       /\ t \in Seq(Calls) /\ Begin(h \o t, kinds, size, <<>>)
  BY <1>4, <1>5, <1>6
<1> QED
  BY <1>2, <1>7, <1>8, <1>9, <1>10, <1>11, PlannedBegin

(* The length of a type that is not there is never written.                *)
LEMMA WithoutTypeContent ==
  ASSUME IInv, ContentInv, RegisterThingWithoutType
  PROVE  ContentInv'
<1> DEFINE h == LineAndHeaders({"type"}, Checked)
           calls == h \o <<Crash>>
<1>1. Headings(h) /\ h \in Seq(Calls) /\ Headings(<<Crash>>)
  BY LineHeadings, PlainHeadings DEF Headings
<1>2. <<Crash>> \in Seq(Calls) /\ Len(<<Crash>>) = 1 /\ <<Crash>>[1] = Crash
  BY CallTypes DEF Calls
<1>3. Headings(calls)
  BY <1>1, ConcatHeadings
<1>4. Len(calls) = Len(h) + 1 /\ calls[Len(h) + 1] = Crash
  <2>1. 1 \in 1..Len(<<Crash>>)
    BY <1>2
  <2> QED
    BY <1>1, <1>2, <2>1, ConcatKinds
<1>5. /\ todo' = calls /\ building' = FALSE /\ state' = "IDLE"
      /\ asked' = [headers |-> {"type"}, body |-> NoBody, keys |-> <<>>]
  BY DEF RegisterThingWithoutType, Begin, Idle
<1>6. Doomed(calls)
  BY <1>3, <1>4 DEF Doomed, Headings, Crash
<1>7. asked' \in Requests
  <2>1. <<>> \in Seq(Seq(STRING)) /\ {"type"} \in SUBSET OptionalKinds
    BY DEF OptionalKinds
  <2> QED
    BY <1>5, <2>1 DEF Requests
<1> HIDE DEF calls
<1> QED
  BY <1>5, <1>6, <1>7 DEF ContentInv, PendingOK, WrittenOK

(* Every operation begins with ContentInv, whatever the one before it      *)
(* left.                                                                   *)
LEMMA OperationContent ==
  ASSUME IInv, ContentInv, Operation
  PROVE  ContentInv'
<1>1. /\ {"type"} \in SUBSET OptionalKinds /\ {} \in SUBSET OptionalKinds
      /\ {"auth"} \in SUBSET OptionalKinds /\ {"auth", "encoding"} \in SUBSET OptionalKinds
      /\ {"auth", "etag"} \in SUBSET OptionalKinds
      /\ \A n \in BodySizes : n \in BodySizes \cup {NoBody}
      /\ NoBody \in BodySizes \cup {NoBody}
  BY DEF OptionalKinds
<1>2. CASE RegisterThing
  BY <1>1, <1>2, HttpRequestContent DEF RegisterThing
<1>3. CASE UploadThingState
  BY <1>1, <1>3, HttpRequestContent DEF UploadThingState
<1>4. CASE CreateObject
  BY <1>1, <1>4, HttpRequestContent DEF CreateObject
<1>5. CASE ChangeObject
  BY <1>1, <1>5, HttpRequestContent DEF ChangeObject
<1>6. CASE GetOrDeleteObject \/ BucketSubscription \/ TopicOrSubscription
           \/ GetMqttEndpoint
  BY <1>1, <1>6, HttpRequestContent
     DEF GetOrDeleteObject, BucketSubscription, TopicOrSubscription, GetMqttEndpoint
<1>7. CASE RegisterThingWithId
  <2>1. PICK id, password, type \in ArgSizes :
          InPieces({}, <<1, id, 1, password, 1, type, 1>>)
    BY <1>7 DEF RegisterThingWithId
  <2>2. <<1, id, 1, password, 1, type, 1>> \in Seq(Nat)
    BY <2>1, ConstantTypes
  <2>3. {} \in SUBSET {"auth"}
    OBVIOUS
  <2> QED
    BY <2>1, <2>2, <2>3, InPiecesContent
<1>8. CASE ThingAuthentication
  <2>1. PICK id, password \in ArgSizes : InPieces({}, <<1, id, 1, password, 1>>)
    BY <1>8 DEF ThingAuthentication
  <2>2. <<1, id, 1, password, 1>> \in Seq(Nat)
    BY <2>1, ConstantTypes
  <2>3. {} \in SUBSET {"auth"}
    OBVIOUS
  <2> QED
    BY <2>1, <2>2, <2>3, InPiecesContent
<1>9. CASE InstallThingPush
  <2>1. PICK flag \in ArgSizes : InPieces({"auth"}, <<1, flag, 1>>)
    BY <1>9 DEF InstallThingPush
  <2>2. <<1, flag, 1>> \in Seq(Nat)
    BY <2>1, ConstantTypes
  <2>3. {"auth"} \in SUBSET {"auth"}
    OBVIOUS
  <2> QED
    BY <2>1, <2>2, <2>3, InPiecesContent
<1> QED
  BY <1>2, <1>3, <1>4, <1>5, <1>6, <1>7, <1>8, <1>9, ApiCallContent,
     ApiCallStartContent, WithoutTypeContent DEF Operation

-----------------------------------------------------------------------------
(* The keys of the additional headers: those written and those of the      *)
(* calls left are the caller's, in his order.                              *)

BeginsWith(sent, key) == Len(key) <= Len(sent) /\ SubSeq(sent, 1, Len(key)) = key

(* The calls are those for keys number from + 1 to the last, one after the *)
(* other from place e + 1, and others.                                     *)
ExtrasAre(calls, e, keys, from) ==
  /\ from <= Len(keys)
  /\ e \in 0..Len(calls) - (Len(keys) - from)
  /\ \A i \in 1..Len(calls) : calls[i].do = "extra" => i \in e + 1..e + (Len(keys) - from)
  /\ \A j \in 1..Len(keys) - from : calls[e + j] = Extra(keys[from + j])

SentInTurn ==
  \A i \in 1..Len(sentKeys) : BeginsWith(sentKeys[i], asked.keys[i])

KeysInv ==
  /\ sentKeys \in Seq(Seq(STRING))
  /\ todo # <<>> /\ result = "pending" /\ ~Doomed(todo) =>
       /\ SentInTurn
       /\ \E e \in Nat : ExtrasAre(todo, e, asked.keys, Len(sentKeys))
  /\ building \/ state = "READY" =>
       SentInTurn /\ Len(sentKeys) = Len(asked.keys)

(* The first call is made, and was the next key's or none.                 *)
LEMMA ExtrasTail ==
  ASSUME NEW calls \in Seq(Calls), calls # <<>>, NEW keys \in Seq(Seq(STRING)),
         NEW from \in Nat, NEW e \in Nat, ExtrasAre(calls, e, keys, from)
  PROVE  /\ calls[1].do # "extra" =>
              \E d \in Nat : ExtrasAre(Tail(calls), d, keys, from)
         /\ calls[1].do = "extra" =>
              /\ from + 1 <= Len(keys) /\ calls[1] = Extra(keys[from + 1])
              /\ ExtrasAre(Tail(calls), 0, keys, from + 1)
         /\ calls[1].do # "extra" /\ Len(calls) = 1 => from = Len(keys)
<1> DEFINE rest == Tail(calls)
           k == Len(keys) - from
<1>1. /\ Len(calls) \in Nat /\ Len(calls) > 0 /\ Len(keys) \in Nat
      /\ Len(rest) = Len(calls) - 1
      /\ \A i \in 1..Len(rest) : i + 1 \in 1..Len(calls) /\ rest[i] = calls[i + 1]
  OBVIOUS
<1>2. k \in Nat /\ from <= Len(keys)
  BY <1>1 DEF ExtrasAre
<1>3. /\ e \in 0..Len(calls) - k
      /\ \A i \in 1..Len(calls) : calls[i].do = "extra" => i \in e + 1..e + k
      /\ \A j \in 1..k : calls[e + j] = Extra(keys[from + j])
  BY DEF ExtrasAre
<1>4. \A key : Extra(key).do = "extra"
  BY DEF Extra
<1>5. k = Len(keys) - from
  OBVIOUS
<1> HIDE DEF rest, k
<1>6. ASSUME calls[1].do # "extra"
      PROVE  \E d \in Nat : ExtrasAre(rest, d, keys, from)
  <2>1. CASE e > 0
    <3>1. e - 1 \in Nat /\ e - 1 \in 0..Len(rest) - k
      BY <1>1, <1>2, <1>3, <2>1
    <3>2. ASSUME NEW i \in 1..Len(rest), rest[i].do = "extra"
          PROVE  i \in (e - 1) + 1..(e - 1) + k
      <4>1. i + 1 \in 1..Len(calls) /\ calls[i + 1].do = "extra"
        BY <1>1, <3>2
      <4>2. i + 1 \in e + 1..e + k
        BY <1>3, <4>1
      <4> QED
        BY <1>1, <1>2, <4>2
    <3>3. ASSUME NEW j \in 1..k PROVE rest[(e - 1) + j] = Extra(keys[from + j])
      <4>1. (e - 1) + j \in 1..Len(rest) /\ ((e - 1) + j) + 1 = e + j
        BY <1>1, <1>2, <1>3, <2>1
      <4>2. rest[(e - 1) + j] = calls[e + j]
        BY <1>1, <4>1
      <4> QED
        BY <1>3, <4>2
    <3>4. ExtrasAre(rest, e - 1, keys, from)
      BY <1>2, <1>5, <3>1, <3>2, <3>3 DEF ExtrasAre
    <3> QED
      BY <3>1, <3>4
  <2>2. CASE e = 0
    <3>1. k = 0
      <4>1. k > 0 => 1 \in 1..k /\ e + 1 = 1
        BY <1>2, <2>2
      <4>2. k > 0 => calls[1].do = "extra"
        BY <1>3, <1>4, <4>1
      <4> QED
        BY <1>2, <1>6, <4>2
    <3>2. \A i \in 1..Len(rest) : rest[i].do # "extra"
      <4> SUFFICES ASSUME NEW i \in 1..Len(rest), rest[i].do = "extra" PROVE FALSE
        OBVIOUS
      <4>1. i + 1 \in e + 1..e + k
        BY <1>1, <1>3
      <4> QED
        BY <2>2, <3>1, <4>1
    <3>3. 0 \in 0..Len(rest) - k
      BY <1>1, <3>1
    <3>4. \A j \in 1..k : FALSE
      BY <3>1
    <3>5. ExtrasAre(rest, 0, keys, from)
      BY <1>2, <1>5, <3>2, <3>3, <3>4 DEF ExtrasAre
    <3> QED
      BY <3>5
  <2> QED
    BY <2>1, <2>2
<1>7. ASSUME calls[1].do = "extra"
      PROVE  /\ from + 1 <= Len(keys) /\ calls[1] = Extra(keys[from + 1])
             /\ ExtrasAre(rest, 0, keys, from + 1)
  <2>1. 1 \in e + 1..e + k
    BY <1>1, <1>3, <1>7
  <2>2. e = 0 /\ k >= 1
    BY <1>2, <2>1
  <2>3. from + 1 <= Len(keys) /\ Len(keys) - (from + 1) = k - 1
    BY <1>1, <1>5, <2>2
  <2>4. 1 \in 1..k /\ e + 1 = 1
    BY <1>2, <2>2
  <2>5. calls[1] = Extra(keys[from + 1])
    BY <1>3, <2>4
  <2>6. 0 \in 0..Len(rest) - (k - 1)
    BY <1>1, <1>2, <1>3, <2>2
  <2>7. ASSUME NEW i \in 1..Len(rest), rest[i].do = "extra"
        PROVE  i \in 0 + 1..0 + (k - 1)
    <3>1. i + 1 \in e + 1..e + k
      BY <1>1, <1>3, <2>7
    <3> QED
      BY <1>2, <2>2, <3>1
  <2>8. ASSUME NEW j \in 1..k - 1
        PROVE  rest[0 + j] = Extra(keys[(from + 1) + j])
    <3>1. j \in 1..Len(rest) /\ j + 1 \in 1..k /\ e + (j + 1) = j + 1
          /\ from + (j + 1) = (from + 1) + j /\ 0 + j = j
      BY <1>1, <1>2, <1>3, <2>2
    <3>2. rest[j] = calls[j + 1] /\ calls[j + 1] = Extra(keys[(from + 1) + j])
      BY <1>1, <1>3, <3>1
    <3> QED
      BY <3>1, <3>2
  <2>9. ExtrasAre(rest, 0, keys, from + 1)
    BY <2>3, <2>6, <2>7, <2>8 DEF ExtrasAre
  <2> QED
    BY <2>3, <2>5, <2>9
<1>8. ASSUME calls[1].do # "extra", Len(calls) = 1 PROVE from = Len(keys)
  <2>1. k > 0 => e = 0 /\ 1 \in 1..k /\ e + 1 = 1
    BY <1>2, <1>3, <1>8
  <2>2. ~(k > 0)
    BY <1>3, <1>4, <1>8, <2>1
  <2> QED
    BY <1>1, <1>2, <1>5, <2>2
<1> QED
  BY <1>6, <1>7, <1>8 DEF rest

(* Calls without additional headers are those for no key.                  *)
LEMMA NoExtras ==
  ASSUME NEW calls \in Seq(Calls), "extra" \notin CallKinds(calls)
  PROVE  /\ \A i \in 1..Len(calls) : calls[i].do # "extra"
         /\ ExtrasAre(calls, 0, <<>>, 0)
<1>1. \A i \in 1..Len(calls) : calls[i].do # "extra"
  <2> SUFFICES ASSUME NEW i \in 1..Len(calls), calls[i].do = "extra" PROVE FALSE
    OBVIOUS
  <2>1. KindOf(calls[i]) = "extra"
    BY DEF KindOf
  <2> QED
    BY <2>1 DEF CallKinds
<1>2. Len(<<>>) = 0 /\ Len(calls) \in Nat
  OBVIOUS
<1>3. 0 \in 0..Len(calls) - (0 - 0) /\ \A j \in 1..0 - 0 : FALSE
  BY <1>2
<1> QED
  BY <1>1, <1>2, <1>3 DEF ExtrasAre

(* What is copied over an older key begins with the new one.               *)
LEMMA OverBegins ==
  ASSUME NEW new \in Seq(STRING), NEW old \in Seq(STRING)
  PROVE  Over(new, old) \in Seq(STRING) /\ BeginsWith(Over(new, old), new)
<1> DEFINE end == SubSeq(old, Len(new) + 1, Len(old))
<1>1. end \in Seq(STRING) /\ Len(end) \in Nat /\ Len(new) \in Nat
  OBVIOUS
<1>2. Over(new, old) = new \o end
  BY DEF Over
<1> HIDE DEF end
<1> DEFINE all == new \o end
<1>3. /\ all \in Seq(STRING) /\ Len(all) = Len(new) + Len(end)
      /\ \A i \in 1..Len(new) : all[i] = new[i]
  BY <1>1, Concatenation
<1> HIDE DEF all
<1>4. Len(new) <= Len(all)
  BY <1>1, <1>3
<1>5. SubSeq(all, 1, Len(new)) = new
  <2>1. /\ Len(SubSeq(all, 1, Len(new))) = Len(new)
        /\ SubSeq(all, 1, Len(new)) \in Seq(STRING)
        /\ \A i \in 1..Len(new) : SubSeq(all, 1, Len(new))[i] = all[i]
    BY <1>1, <1>3, <1>4
  <2> QED
    BY <1>1, <1>3, <2>1
<1> QED
  BY <1>2, <1>3, <1>4, <1>5 DEF BeginsWith, all

LEMMA BeginsWithItself ==
  ASSUME NEW key \in Seq(STRING)
  PROVE  BeginsWith(key, key)
<1>1. SubSeq(key, 1, Len(key)) = key
  OBVIOUS
<1> QED
  BY <1>1 DEF BeginsWith

(* One more key, sent as the next one asked for.                           *)
LEMMA OneMoreKey ==
  ASSUME NEW s \in Seq(Seq(STRING)), NEW keys \in Seq(Seq(STRING)),
         \A i \in 1..Len(s) : BeginsWith(s[i], keys[i]),
         NEW sent \in Seq(STRING), BeginsWith(sent, keys[Len(s) + 1])
  PROVE  /\ Append(s, sent) \in Seq(Seq(STRING)) /\ Len(Append(s, sent)) = Len(s) + 1
         /\ \A i \in 1..Len(s) + 1 : BeginsWith(Append(s, sent)[i], keys[i])
<1>1. ASSUME NEW S, NEW q \in Seq(S), NEW e \in S
      PROVE  /\ Append(q, e) \in Seq(S) /\ Len(Append(q, e)) = Len(q) + 1
             /\ \A i \in 1..Len(q) : Append(q, e)[i] = q[i]
             /\ Append(q, e)[Len(q) + 1] = e
             /\ \A i \in 1..Len(q) + 1 : i \in 1..Len(q) \/ i = Len(q) + 1
  OBVIOUS
<1>2. /\ Append(s, sent) \in Seq(Seq(STRING)) /\ Len(Append(s, sent)) = Len(s) + 1
      /\ \A i \in 1..Len(s) : Append(s, sent)[i] = s[i]
      /\ Append(s, sent)[Len(s) + 1] = sent
      /\ \A i \in 1..Len(s) + 1 : i \in 1..Len(s) \/ i = Len(s) + 1
  BY <1>1, Zenon
<1> QED
  BY <1>2, Zenon

(* A call that leaves the keys as they are.                                *)
LEMMA OtherCallKeys ==
  ASSUME IInv, ContentInv, KeysInv, NEW do, Now(do), do # "extra", Done,
         state' = state, sentKeys' = sentKeys
  PROVE  KeysInv'
<1>1. /\ todo # <<>> /\ todo \in Seq(Calls) /\ Call.do = do
      /\ state = "IDLE" /\ building = FALSE
  BY NowFacts
<1>2. todo' = Tail(todo) /\ result' = result /\ building' = building /\ asked' = asked
  BY DEF Done
<1>3. ASSUME todo' # <<>>, result' = "pending", ~Doomed(todo')
      PROVE  SentInTurn' /\ \E e \in Nat : ExtrasAre(todo', e, asked'.keys, Len(sentKeys'))
  <2>1. ~Doomed(todo)
    BY <1>1, <1>2, <1>3, KindsTail
  <2>2. SentInTurn /\ sentKeys \in Seq(Seq(STRING))
    BY <1>1, <1>2, <1>3, <2>1 DEF KeysInv
  <2>3. PICK e \in Nat : ExtrasAre(todo, e, asked.keys, Len(sentKeys))
    BY <1>1, <1>2, <1>3, <2>1 DEF KeysInv
  <2>4. todo[1].do # "extra" /\ asked.keys \in Seq(Seq(STRING)) /\ Len(sentKeys) \in Nat
    BY <1>1, <2>2 DEF Call, ContentInv, Requests
  <2>5. \E d \in Nat : ExtrasAre(Tail(todo), d, asked.keys, Len(sentKeys))
    BY <1>1, <2>3, <2>4, ExtrasTail
  <2> QED
    BY <1>2, <2>2, <2>5 DEF SentInTurn
<1> QED
  BY <1>1, <1>2, <1>3 DEF KeysInv

(* The call of an additional header sends the next key.                    *)
LEMMA ExtraCallKeys ==
  ASSUME IInv, ContentInv, KeysInv, Now("extra"), Done, state' = state,
         keyBuffer' = Over(Call.key, keyBuffer), sentKeys' = Append(sentKeys, keyBuffer')
  PROVE  KeysInv'
<1>1. /\ todo # <<>> /\ todo \in Seq(Calls) /\ Call.do = "extra"
      /\ state = "IDLE" /\ building = FALSE
      /\ Call.key \in Seq(STRING) /\ keyBuffer \in Seq(STRING)
  BY NowFacts, ArgumentTypes, ResultTypes
<1>2. todo' = Tail(todo) /\ result' = result /\ building' = building /\ asked' = asked
  BY DEF Done
<1>3. keyBuffer' \in Seq(STRING) /\ BeginsWith(keyBuffer', Call.key)
  BY <1>1, OverBegins
<1>4. /\ sentKeys \in Seq(Seq(STRING)) /\ Len(sentKeys) \in Nat
      /\ asked.keys \in Seq(Seq(STRING))
  BY DEF KeysInv, ContentInv, Requests
<1>5. sentKeys' \in Seq(Seq(STRING))
  BY <1>3, <1>4
<1>6. ASSUME todo' # <<>>, result' = "pending", ~Doomed(todo')
      PROVE  SentInTurn' /\ \E e \in Nat : ExtrasAre(todo', e, asked'.keys, Len(sentKeys'))
  <2>1. ~Doomed(todo)
    BY <1>1, <1>2, <1>6, KindsTail
  <2>2. SentInTurn
    BY <1>1, <1>2, <1>6, <2>1 DEF KeysInv
  <2>3. PICK e \in Nat : ExtrasAre(todo, e, asked.keys, Len(sentKeys))
    BY <1>1, <1>2, <1>6, <2>1 DEF KeysInv
  <2>4. /\ todo[1] = Extra(asked.keys[Len(sentKeys) + 1])
        /\ ExtrasAre(Tail(todo), 0, asked.keys, Len(sentKeys) + 1)
    BY <1>1, <1>4, <2>3, ExtrasTail DEF Call
  <2>5. Call.key = asked.keys[Len(sentKeys) + 1]
    BY <1>1, <2>4 DEF Call, Extra
  <2> DEFINE s == sentKeys
             keys == asked.keys
             sent == keyBuffer'
  <2>6. /\ s \in Seq(Seq(STRING)) /\ keys \in Seq(Seq(STRING)) /\ sent \in Seq(STRING)
        /\ \A i \in 1..Len(s) : BeginsWith(s[i], keys[i])
        /\ BeginsWith(sent, keys[Len(s) + 1])
    BY <1>3, <1>4, <2>2, <2>5 DEF SentInTurn
  <2>7. sentKeys' = Append(s, sent) /\ asked'.keys = keys
    BY <1>2
  <2> HIDE DEF s, keys, sent
  <2>8. /\ Len(Append(s, sent)) = Len(s) + 1
        /\ \A i \in 1..Len(s) + 1 : BeginsWith(Append(s, sent)[i], keys[i])
    BY <2>6, OneMoreKey
  <2>9. SentInTurn'
    BY <2>7, <2>8 DEF SentInTurn
  <2>10. ExtrasAre(todo', 0, asked'.keys, Len(sentKeys'))
    BY <1>2, <2>4, <2>7, <2>8 DEF s, keys
  <2> QED
    BY <2>9, <2>10
<1> QED
  BY <1>1, <1>2, <1>5, <1>6 DEF KeysInv

(* An operation that fails sends nothing.                                  *)
LEMMA FailureKeys ==
  ASSUME IInv, KeysInv, NEW do, Now(do), state' = state, sentKeys' = sentKeys,
         Fails \/ (todo' = <<>> /\ UNCHANGED building)
  PROVE  KeysInv'
<1>1. state = "IDLE" /\ building = FALSE
  BY NowFacts
<1>2. building' = building /\ (result' # "pending" \/ todo' = <<>>)
  BY DEF Fails
<1> QED
  BY <1>1, <1>2 DEF KeysInv

(* The last call finds every key sent.                                     *)
LEMMA LastCallKeys ==
  ASSUME IInv, ContentInv, KeysInv, NEW do \in {"ready", "started"}, Now(do)
  PROVE  SentInTurn /\ Len(sentKeys) = Len(asked.keys)
<1>1. /\ todo # <<>> /\ todo \in Seq(Calls) /\ Call.do = do /\ result = "pending"
  <2>1. do \notin {"encoding", "stop"}
    OBVIOUS
  <2> QED
    BY <2>1, NowFacts, Zenon
<1>2. Len(todo) = 1 /\ ~Doomed(todo)
  BY LastCallFacts
<1>3. SentInTurn /\ sentKeys \in Seq(Seq(STRING))
  BY <1>1, <1>2 DEF KeysInv
<1>4. PICK e \in Nat : ExtrasAre(todo, e, asked.keys, Len(sentKeys))
  BY <1>1, <1>2 DEF KeysInv
<1>5. todo[1].do # "extra" /\ asked.keys \in Seq(Seq(STRING)) /\ Len(sentKeys) \in Nat
  BY <1>1, <1>3 DEF Call, ContentInv, Requests
<1> QED
  BY <1>1, <1>2, <1>3, <1>4, <1>5, ExtrasTail

LEMMA StepKeys ==
  ASSUME IInv, ContentInv, KeysInv, Step
  PROVE  KeysInv'
<1>1. CASE SetRequestLine
  <2>1. Now("line") /\ state' = state /\ sentKeys' = sentKeys /\ (Done \/ Fails)
    BY <1>1 DEF SetRequestLine, Same
  <2> QED
    BY <2>1, OtherCallKeys, FailureKeys
<1>2. CASE SetHeader
  <2>1. Now("header") /\ state' = state /\ sentKeys' = sentKeys /\ (Done \/ Fails)
    BY <1>2 DEF SetHeader, Same
  <2> QED
    BY <2>1, OtherCallKeys, FailureKeys
<1>3. CASE SetExtraHeader
  <2>1. /\ Now("extra") /\ state' = state /\ keyBuffer' = Over(Call.key, keyBuffer)
        /\ \/ Done /\ sentKeys' = Append(sentKeys, keyBuffer')
           \/ Fails /\ sentKeys' = sentKeys
    BY <1>3 DEF SetExtraHeader
  <2> QED
    BY <2>1, ExtraCallKeys, FailureKeys
<1>4. CASE SetEncoding
  <2>1. /\ Now("encoding") /\ state' = state /\ sentKeys' = sentKeys
        /\ Done \/ (todo' = <<>> /\ UNCHANGED building)
    BY <1>4 DEF SetEncoding, Same
  <2> QED
    BY <2>1, OtherCallKeys, FailureKeys
<1>5. CASE AppendBody
  <2>1. Now("body") /\ state' = state /\ sentKeys' = sentKeys /\ (Done \/ Fails)
    BY <1>5 DEF AppendBody, Same
  <2> QED
    BY <2>1, OtherCallKeys, FailureKeys
<1>6. CASE TokenFits
  <2>1. Now("token") /\ state' = state /\ sentKeys' = sentKeys /\ Done
    BY <1>6 DEF TokenFits, Same
  <2> QED
    BY <2>1, OtherCallKeys
<1>7. CASE GiveUp
  <2>1. PICK do \in {"token", "stop"} : Now(do)
    BY <1>7 DEF GiveUp
  <2> QED
    BY <1>7, <2>1, FailureKeys DEF GiveUp, Same
<1>8. CASE Dereference
  <2>1. /\ Now("crash") /\ state' = state /\ sentKeys' = sentKeys
        /\ todo' = <<>> /\ UNCHANGED building
    BY <1>8 DEF Dereference, Same
  <2> QED
    BY <2>1, FailureKeys
<1>9. CASE Finish
  <2>1. Now("ready") /\ todo' = <<>> /\ UNCHANGED <<asked, sentKeys>>
    BY <1>9 DEF Finish
  <2>2. SentInTurn /\ Len(sentKeys) = Len(asked.keys)
    BY <2>1, LastCallKeys
  <2> QED
    BY <2>1, <2>2 DEF KeysInv, SentInTurn
<1>10. CASE FinishStart
  <2>1. Now("started") /\ todo' = <<>> /\ UNCHANGED <<asked, sentKeys>>
    BY <1>10 DEF FinishStart
  <2>2. SentInTurn /\ Len(sentKeys) = Len(asked.keys)
    BY <2>1, LastCallKeys
  <2> QED
    BY <2>1, <2>2 DEF KeysInv, SentInTurn
<1> QED
  BY <1>1, <1>2, <1>3, <1>4, <1>5, <1>6, <1>7, <1>8, <1>9, <1>10 DEF Step

(* A header added to a request that is being built sends its own key.      *)
LEMMA BetweenKeys ==
  ASSUME IInv, ContentInv, KeysInv, Between
  PROVE  KeysInv'
<1>1. /\ Building => building /\ todo = <<>>
      /\ sentKeys \in Seq(Seq(STRING)) /\ asked.keys \in Seq(Seq(STRING))
  BY BuildingFacts DEF KeysInv, ContentInv, Requests
<1>2. CASE ApiCallAppendBody
  <2>1. Building /\ UNCHANGED <<todo, sentKeys>> /\ asked'.keys = asked.keys
    BY <1>2 DEF ApiCallAppendBody, ContentInv, Requests
  <2> QED
    BY <1>1, <2>1 DEF KeysInv, SentInTurn
<1>3. CASE ApiCallAppendHeader
  <2>1. Building /\ UNCHANGED todo
    BY <1>3 DEF ApiCallAppendHeader
  <2>2. SentInTurn /\ Len(sentKeys) = Len(asked.keys)
    BY <1>1, <2>1 DEF KeysInv
  <2>3. PICK key \in Keys :
          \/ /\ sentKeys' = Append(sentKeys, key)
             /\ asked' = [asked EXCEPT !.keys = Append(@, key)]
          \/ UNCHANGED <<sentKeys, asked>>
    BY <1>3 DEF ApiCallAppendHeader
  <2>4. CASE UNCHANGED <<sentKeys, asked>>
    BY <1>1, <2>1, <2>2, <2>4 DEF KeysInv, SentInTurn
  <2>5. CASE /\ sentKeys' = Append(sentKeys, key)
             /\ asked' = [asked EXCEPT !.keys = Append(@, key)]
    <3> DEFINE s == sentKeys
               old == asked.keys
               keys == Append(old, key)
    <3>1. asked'.keys = keys /\ sentKeys' = Append(s, key) /\ key \in Seq(STRING)
      BY <2>5, ConstantTypes DEF ContentInv, Requests
    <3>2. /\ s \in Seq(Seq(STRING)) /\ old \in Seq(Seq(STRING)) /\ Len(s) = Len(old)
          /\ \A i \in 1..Len(s) : BeginsWith(s[i], old[i])
      BY <1>1, <2>2 DEF SentInTurn
    <3>3. /\ keys \in Seq(Seq(STRING)) /\ Len(keys) = Len(old) + 1
          /\ \A i \in 1..Len(old) : keys[i] = old[i]
          /\ keys[Len(old) + 1] = key
      <4>1. ASSUME NEW S, NEW q \in Seq(S), NEW e \in S
            PROVE  /\ Append(q, e) \in Seq(S) /\ Len(Append(q, e)) = Len(q) + 1
                   /\ \A i \in 1..Len(q) : Append(q, e)[i] = q[i]
                   /\ Append(q, e)[Len(q) + 1] = e
        OBVIOUS
      <4> QED
        BY <3>1, <3>2, <4>1, Zenon
    <3> HIDE DEF s, old, keys
    <3>4. BeginsWith(key, key)
      BY <3>1, BeginsWithItself
    <3>5. /\ \A i \in 1..Len(s) : BeginsWith(s[i], keys[i])
          /\ BeginsWith(key, keys[Len(s) + 1])
      BY <3>2, <3>3, <3>4
    <3>6. /\ Append(s, key) \in Seq(Seq(STRING)) /\ Len(Append(s, key)) = Len(s) + 1
          /\ \A i \in 1..Len(s) + 1 : BeginsWith(Append(s, key)[i], keys[i])
      BY <3>1, <3>2, <3>3, <3>5, OneMoreKey
    <3>7. SentInTurn' /\ Len(sentKeys') = Len(asked'.keys) /\ sentKeys' \in Seq(Seq(STRING))
      BY <3>1, <3>2, <3>3, <3>6 DEF SentInTurn
    <3> QED
      BY <1>1, <2>1, <3>7 DEF KeysInv
  <2> QED
    BY <2>3, <2>4, <2>5
<1>4. CASE ApiCallEnd
  <2>1. Building /\ UNCHANGED <<todo, asked, sentKeys>>
    BY <1>4 DEF ApiCallEnd
  <2> QED
    BY <1>1, <2>1 DEF KeysInv, SentInTurn
<1> QED
  BY <1>2, <1>3, <1>4 DEF Between

LEMMA RunKeys ==
  ASSUME IInv, Run
  PROVE  KeysInv'
<1>1. /\ state' = "IDLE" /\ result' = "none" /\ building' = building /\ building = FALSE
      /\ sentKeys' = <<>> /\ <<>> \in Seq(Seq(STRING))
  BY DEF Run, IInv, PhaseOK, TypeOK
<1> QED
  BY <1>1 DEF KeysInv

(* Calls without additional headers may be put in front and behind.        *)
LEMMA ExtrasBetween ==
  ASSUME NEW s \in Seq(Calls), NEW x \in Seq(Calls), NEW t \in Seq(Calls),
         "extra" \notin CallKinds(s), "extra" \notin CallKinds(t),
         NEW keys \in Seq(Seq(STRING)), ExtrasAre(x, 0, keys, 0)
  PROVE  ExtrasAre((s \o x) \o t, Len(s), keys, 0)
<1> DEFINE u == s \o x
           w == u \o t
           k == Len(keys)
<1>1. /\ \A i \in 1..Len(s) : s[i].do # "extra"
      /\ \A i \in 1..Len(t) : t[i].do # "extra"
  BY NoExtras
<1>2. /\ u \in Seq(Calls) /\ Len(u) = Len(s) + Len(x)
      /\ \A i \in 1..Len(s) : u[i] = s[i]
      /\ \A i \in 1..Len(x) : u[Len(s) + i] = x[i]
  BY ConcatKinds
<1> HIDE DEF u
<1>3. /\ Len(w) = Len(u) + Len(t)
      /\ \A i \in 1..Len(u) : w[i] = u[i]
      /\ \A i \in 1..Len(t) : w[Len(u) + i] = t[i]
  BY <1>2, ConcatKinds
<1> HIDE DEF w, k
<1>4. Len(s) \in Nat /\ Len(x) \in Nat /\ Len(t) \in Nat /\ k \in Nat
  BY DEF k
<1>5. /\ k <= Len(x)
      /\ \A i \in 1..Len(x) : x[i].do = "extra" => i \in 1..k
      /\ \A j \in 1..k : x[j] = Extra(keys[j])
  BY <1>4 DEF ExtrasAre, k
<1>6. ASSUME NEW i \in 1..Len(w), w[i].do = "extra"
      PROVE  i \in Len(s) + 1..Len(s) + k
  <2>1. CASE i <= Len(s)
    <3>1. i \in 1..Len(s) /\ i \in 1..Len(u)
      BY <1>2, <1>4, <2>1
    <3> QED
      BY <1>1, <1>2, <1>3, <1>6, <3>1
  <2>2. CASE i > Len(s) /\ i <= Len(u)
    <3>1. i \in 1..Len(u) /\ i - Len(s) \in 1..Len(x) /\ Len(s) + (i - Len(s)) = i
      BY <1>2, <1>4, <2>2
    <3>2. x[i - Len(s)].do = "extra"
      BY <1>2, <1>3, <1>6, <3>1
    <3>3. i - Len(s) \in 1..k
      BY <1>5, <3>1, <3>2
    <3> QED
      BY <1>4, <3>3
  <2>3. CASE i > Len(u)
    <3>1. i - Len(u) \in 1..Len(t) /\ Len(u) + (i - Len(u)) = i
      BY <1>2, <1>3, <1>4, <2>3
    <3> QED
      BY <1>1, <1>3, <1>6, <3>1
  <2> QED
    BY <1>2, <1>4, <2>1, <2>2, <2>3
<1>7. ASSUME NEW j \in 1..k PROVE w[Len(s) + j] = Extra(keys[0 + j])
  <2>1. j \in 1..Len(x) /\ Len(s) + j \in 1..Len(u) /\ 0 + j = j
    BY <1>2, <1>4, <1>5
  <2> QED
    BY <1>2, <1>3, <1>5, <2>1
<1>8. 0 <= k /\ Len(s) \in 0..Len(w) - (k - 0) /\ k - 0 = k
  BY <1>2, <1>3, <1>4, <1>5
<1> QED
  BY <1>6, <1>7, <1>8 DEF ExtrasAre, u, w, k

(* The additional headers of kii_core_api_call are those it was given.     *)
LEMMA ExtrasGiven ==
  ASSUME NEW keys \in Seq(Seq(STRING)), NEW malformed \in BOOLEAN
  PROVE  ExtrasAre(Extras(keys, malformed), 0, keys, 0)
<1>1. CASE keys = <<>> /\ malformed
  <2>1. Extras(keys, malformed) \in Seq(Calls)
    BY ExtraHeadings DEF Headings
  <2>2. "extra" \notin CallKinds(Extras(keys, malformed))
    BY <1>1, ExtraHeadings DEF HeaderKinds
  <2> QED
    BY <1>1, <2>1, <2>2, NoExtras
<1>2. CASE ~(keys = <<>> /\ malformed)
  <2> DEFINE s == [i \in DOMAIN keys |-> Extra(keys[i])]
             k == Len(keys)
  <2>1. k \in Nat /\ DOMAIN keys = 1..k
    OBVIOUS
  <2>2. s = [i \in 1..k |-> Extra(keys[i])] /\ Len(s) = k
    BY <2>1
  <2>3. Extras(keys, malformed) = s
    BY <1>2 DEF Extras
  <2> HIDE DEF s, k
  <2>4. /\ 0 <= k /\ 0 \in 0..k - (k - 0) /\ k - 0 = k
        /\ \A i \in 1..k : i \in 0 + 1..0 + (k - 0) /\ 0 + i = i
    BY <2>1
  <2>5. \A j \in 1..k : s[j] = Extra(keys[j])
    BY <2>2
  <2> QED
    BY <2>2, <2>3, <2>4, <2>5 DEF ExtrasAre, k
<1> QED
  BY <1>1, <1>2

(* What every operation begins with.                                       *)
LEMMA FreshKeys ==
  ASSUME NEW calls, NEW headers, NEW size, NEW keys, Begin(calls, headers, size, keys)
  PROVE  /\ todo' = calls /\ result' = "pending" /\ building' = FALSE /\ state' = "IDLE"
         /\ asked'.keys = keys /\ sentKeys' = <<>>
BY DEF Begin, Idle

LEMMA KeylessOperation ==
  ASSUME Operation, ~ApiCall
  PROVE  /\ result' = "pending" /\ building' = FALSE /\ state' = "IDLE"
         /\ asked'.keys = <<>> /\ sentKeys' = <<>>
<1>1. ASSUME NEW always, NEW optional, NEW size, HttpRequest(always, optional, size)
      PROVE  /\ result' = "pending" /\ building' = FALSE /\ state' = "IDLE"
             /\ asked'.keys = <<>> /\ sentKeys' = <<>>
  BY <1>1, FreshKeys DEF HttpRequest
<1>2. ASSUME NEW optional, NEW pieces, InPieces(optional, pieces)
      PROVE  /\ result' = "pending" /\ building' = FALSE /\ state' = "IDLE"
             /\ asked'.keys = <<>> /\ sentKeys' = <<>>
  BY <1>2, FreshKeys DEF InPieces
<1>3. CASE RegisterThingWithoutType \/ ApiCallStart
  BY <1>3, FreshKeys DEF RegisterThingWithoutType, ApiCallStart
<1>4. CASE RegisterThingWithId \/ ThingAuthentication \/ InstallThingPush
  BY <1>2, <1>4 DEF RegisterThingWithId, ThingAuthentication, InstallThingPush
<1>5. CASE \/ RegisterThing \/ UploadThingState \/ CreateObject \/ ChangeObject
           \/ GetOrDeleteObject \/ BucketSubscription \/ TopicOrSubscription
           \/ GetMqttEndpoint
  BY <1>1, <1>5
     DEF RegisterThing, UploadThingState, CreateObject, ChangeObject,
         GetOrDeleteObject, BucketSubscription, TopicOrSubscription, GetMqttEndpoint
<1> QED
  BY <1>3, <1>4, <1>5 DEF Operation

(* The keys of every operation are its caller's.                           *)
LEMMA OperationKeys ==
  ASSUME IInv, ContentInv, KeysInv, Operation
  PROVE  KeysInv'
<1>1. IInv' /\ ContentInv' /\ ~Begun'
  BY OperationKeeps, OperationContent
<1>2. Len(<<>>) = 0 /\ <<>> \in Seq(Seq(STRING))
  OBVIOUS
<1>3. CASE ~ApiCall
  <2>1. /\ result' = "pending" /\ building' = FALSE /\ state' = "IDLE"
        /\ asked'.keys = <<>> /\ sentKeys' = <<>>
    BY <1>3, KeylessOperation
  <2>2. ASSUME todo' # <<>>, ~Doomed(todo')
        PROVE  ExtrasAre(todo', 0, asked'.keys, Len(sentKeys'))
    <3>1. PICK b \in Nat : LaidOut(b)'
      BY <1>1, <2>1, <2>2 DEF ContentInv, PendingOK, Overrun
    <3>2. Plan(asked', {}, CallKinds(todo'), Starts(todo'))
      BY <1>1, <3>1 DEF LaidOut, WrittenSoFar
    <3>3. {} \cup CallKinds(todo') = CallKinds(todo')
      OBVIOUS
    <3>4. "extra" \notin CallKinds(todo')
      BY <2>1, <3>2, <3>3 DEF Plan, Asks
    <3>5. todo' \in Seq(Calls)
      BY <1>1 DEF IInv, TodoOK
    <3> QED
      BY <1>2, <2>1, <3>4, <3>5, NoExtras
  <2>3. SentInTurn'
    BY <1>2, <2>1 DEF SentInTurn
  <2> QED
    BY <1>2, <2>1, <2>2, <2>3 DEF KeysInv
<1>4. CASE ApiCall
  <2>1. PICK kinds \in SUBSET {"type", "auth"}, size \in BodySizes \cup {NoBody},
             keys \in UNION {[1..k -> Keys] : k \in 0..MaxExtras},
             malformed \in BOOLEAN :
               Begin(LineAndHeaders(kinds, Unchecked) \o Extras(keys, malformed)
                       \o BodyCalls(size) \o <<Ready>>, kinds, size, keys)
    BY <1>4 DEF ApiCall
  <2>2. keys \in Seq(Seq(STRING))
    <3>1. PICK k \in 0..MaxExtras : keys \in [1..k -> Keys]
      BY <2>1
    <3>2. k \in Nat /\ keys \in [1..k -> Seq(STRING)]
      BY <3>1, ConstantTypes
    <3> QED
      BY <3>2
  <2> DEFINE line == LineAndHeaders(kinds, Unchecked)
             extras == Extras(keys, malformed)
             content == BodyCalls(size)
  <2>3. "extra" \in HeaderKinds /\ "extra" \notin DefaultKinds \cup {"type", "auth", "etag"}
        /\ "extra" # "length"
    BY DEF HeaderKinds, DefaultKinds
  <2>4. line \in Seq(Calls) /\ "extra" \notin CallKinds(line)
    BY <2>3, LineHeadings DEF Headings
  <2>5. extras \in Seq(Calls)
    BY <2>2, ExtraHeadings DEF Headings
  <2>6. ExtrasAre(extras, 0, keys, 0)
    BY <2>2, ExtrasGiven
  <2>7. /\ content \o <<Ready>> \in Seq(Calls)
        /\ "extra" \notin CallKinds(content \o <<Ready>>)
    BY <2>3, BodyCallsLayout
  <2>8. content \in Seq(Calls) /\ <<Ready>> \in Seq(Calls)
    <3>1. BodyCalls(size) \in Seq(Rest)
      BY BodyCallsForm
    <3> QED
      BY <3>1, CallTypes DEF Calls
  <2>9. /\ todo' = line \o extras \o content \o <<Ready>> /\ sentKeys' = <<>>
        /\ asked'.keys = keys /\ building' = FALSE /\ state' = "IDLE"
    BY <2>1, FreshKeys
  <2> HIDE DEF line, extras, content
  <2>10. line \o extras \in Seq(Calls)
    BY <2>4, <2>5, ConcatKinds
  <2>11. ((line \o extras) \o content) \o <<Ready>> = (line \o extras) \o (content \o <<Ready>>)
    BY SMTT(30), <2>8, <2>10, ConcatAssociative
  <2>12. ExtrasAre((line \o extras) \o (content \o <<Ready>>), Len(line), keys, 0)
    BY <2>2, <2>4, <2>5, <2>6, <2>7, ExtrasBetween
  <2>13. ExtrasAre(todo', Len(line), asked'.keys, Len(sentKeys')) /\ Len(line) \in Nat
    <3>1. ExtrasAre(todo', Len(line), keys, 0)
      BY <2>9, <2>11, <2>12, Zenon
    <3>2. Len(sentKeys') = 0 /\ Len(line) \in Nat
      BY <1>2, <2>4, <2>9
    <3> QED
      BY <2>9, <3>1, <3>2
  <2>14. SentInTurn'
    BY <1>2, <2>9 DEF SentInTurn
  <2> QED
    BY <1>2, <2>9, <2>13, <2>14 DEF KeysInv
<1> QED
  BY <1>3, <1>4

(* Every step keeps KeysInv.                                               *)
LEMMA NextKeys == IInv /\ ContentInv /\ KeysInv /\ [Next]_vars => KeysInv'
<1> SUFFICES ASSUME IInv, ContentInv, KeysInv, [Next]_vars PROVE KeysInv'
  OBVIOUS
<1>1. CASE UNCHANGED vars
  BY <1>1 DEF KeysInv, SentInTurn, vars
<1>2. CASE Next
  BY <1>2, OperationKeys, StepKeys, BetweenKeys, RunKeys DEF Next
<1> QED
  BY <1>1, <1>2

-----------------------------------------------------------------------------
(* The theorems.                                                           *)

(* A request that is READY is inside of the buffer.                        *)
LEMMA ReadyFits ==
  ASSUME IInv, state = "READY"
  PROVE  total < BufferSize
BY ConstantTypes, PositionTypes DEF IInv, OverrunOK, OnlyLineOverruns

(* Before the first operation there is nothing to write and nothing        *)
(* written.                                                                *)
LEMMA InitContent == Init => ContentInv
<1> SUFFICES ASSUME Init PROVE ContentInv
  OBVIOUS
<1>1. Nothing \in Requests
  BY DEF Nothing, Requests
<1> QED
  BY <1>1 DEF Init, ContentInv, PendingOK, WrittenOK

(* Every step keeps ContentInv.                                            *)
LEMMA NextContent == IInv /\ ContentInv /\ [Next]_vars => ContentInv'
<1> SUFFICES ASSUME IInv, ContentInv, [Next]_vars PROVE ContentInv'
  OBVIOUS
<1>1. CASE UNCHANGED vars
  <2>1. /\ todo' = todo /\ result' = result /\ asked' = asked /\ building' = building
        /\ state' = state /\ buffer' = buffer /\ total' = total /\ body' = body
        /\ contentLength' = contentLength
    BY <1>1 DEF vars, text
  <2>2. /\ InBuffer' = InBuffer /\ Sent' = Sent /\ EmptyLineWritten' = EmptyLineWritten
        /\ HeadersOnly' = HeadersOnly /\ AnnouncedOnce' = AnnouncedOnce
        /\ Begun' = Begun /\ Overrun' = Overrun
    BY <2>1 DEF InBuffer, Sent, EmptyLineWritten, HeadersOnly, AnnouncedOnce, Begun, Overrun
  <2>3. ASSUME NEW b \in Nat PROVE LaidOut(b)' = LaidOut(b)
    BY <2>1, <2>2 DEF LaidOut, WrittenSoFar
  <2> QED
    BY <2>1, <2>2, <2>3 DEF ContentInv, PendingOK, WrittenOK
<1>2. CASE Next
  BY <1>2, OperationContent, StepContent, BetweenContentKeeps, RunContentKeeps DEF Next
<1> QED
  BY <1>1, <1>2

(* What is in the buffer and what the calls left will write add up to what *)
(* the caller asked for, however many operations have failed or been       *)
(* abandoned before (kii_core.c:356-468, 885-990, 1717-1842).              *)
THEOREM ContentCorrect == Spec => []ContentInv
<1>1. Init => IInv /\ ContentInv
  BY InitInvariant, InitContent
<1>2. IInv /\ ContentInv /\ [Next]_vars => (IInv /\ ContentInv)'
  BY NextInvariant, NextContent
<1> QED
  BY <1>1, <1>2, PTL DEF Spec

(* A request that is READY is whole: one empty line where its headers end, *)
(* every byte of its body once and in order, and a NUL                     *)
(* (kii_core.c:410-437, 449-461).                                          *)
THEOREM WholeRequestCorrect == Spec => []WholeRequest
<1>1. IInv /\ ContentInv => WholeRequest
  <2> SUFFICES ASSUME IInv, ContentInv, state = "READY"
               PROVE  /\ 0 < body /\ body + 2 <= total /\ total < BufferSize
                      /\ buffer[total] = Nul
                      /\ \A i \in 0..body - 1 : buffer[i].kind \in LineKinds
                      /\ buffer[body] = Of("crlf", 1) /\ buffer[body + 1] = Of("crlf", 2)
                      /\ \A i \in body + 2..total - 1 : buffer[i] = Of("body", i - body - 1)
    BY DEF WholeRequest
  <2>1. EmptyLineWritten
    BY DEF ContentInv, WrittenOK
  <2>2. Ordered
    BY DEF IInv, InOrder, Writing
  <2>3. /\ BufferSize \in Nat /\ total \in Nat /\ body \in Nat /\ body <= total
        /\ total < BufferSize
    BY ConstantTypes, PositionTypes, ReadyFits DEF IInv
  <2>4. buffer[total] = Nul /\ \A i \in 0..body - 1 : buffer[i].kind \in LineKinds
    BY <2>2, <2>3 DEF Ordered, Addresses
  <2> QED
    BY <2>1, <2>3, <2>4 DEF EmptyLineWritten
<1> QED
  BY <1>1, ContentCorrect, InvariantCorrect, PTL

(* The Content-Length of a request that is READY is that of its body, and  *)
(* is there exactly once (kii_core.c:892-904, 1753, 1811).                 *)
THEOREM LengthMatchesBodyCorrect == Spec => []LengthMatchesBody
<1>1. IInv /\ ContentInv => LengthMatchesBody
  <2> DEFINE announced == {i \in 0..body - 1 : buffer[i].kind = "length"}
             sent == total - body - 2
  <2> SUFFICES ASSUME ContentInv, state = "READY"
               PROVE  /\ sent = IF asked.body = NoBody THEN 0 ELSE asked.body
                      /\ \A i \in announced : buffer[i].n = sent
                      /\ \A i, j \in announced : i - j < HeaderSize["length"]
                      /\ announced = {} => sent = 0
    BY DEF LengthMatchesBody
  <2>1. /\ sent = Wanted(asked) /\ AnnouncedOnce
        /\ "length" \notin InBuffer => Wanted(asked) = 0
    BY DEF ContentInv, WrittenOK, Sent
  <2>2. announced = {} => "length" \notin InBuffer
    BY DEF InBuffer
  <2>3. \A i \in announced : i \in 0..body - 1 /\ buffer[i].kind = "length"
    OBVIOUS
  <2> HIDE DEF announced, sent
  <2>4. \A i \in announced : buffer[i].n = sent
    BY <2>1, <2>3 DEF AnnouncedOnce
  <2>5. \A i, j \in announced : i - j < HeaderSize["length"]
    BY <2>1, <2>3 DEF AnnouncedOnce
  <2> QED
    BY <2>1, <2>2, <2>4, <2>5 DEF Wanted
<1> QED
  BY <1>1, ContentCorrect, InvariantCorrect, PTL

(* The keys of the additional headers, written and left to write, are the  *)
(* caller's, however many of the calls before have failed                  *)
(* (kii_core.c:1609-1642, 1815-1826).                                      *)
THEOREM KeysCorrect == Spec => []KeysInv
<1>1. Init => IInv /\ ContentInv /\ KeysInv
  <2>1. <<>> \in Seq(Seq(STRING))
    OBVIOUS
  <2> QED
    BY <2>1, InitInvariant, InitContent DEF Init, KeysInv
<1>2. IInv /\ ContentInv /\ KeysInv /\ [Next]_vars => (IInv /\ ContentInv /\ KeysInv)'
  BY NextInvariant, NextContent, NextKeys
<1> QED
  BY <1>1, <1>2, PTL DEF Spec

(* A request that is READY has the SDK's own headers and those its caller  *)
(* asked for, and no others; the additional ones are as many as he gave,   *)
(* in his order, and each key begins as he gave it                         *)
(* (kii_core.c:619-686, 1609-1642, 1815-1826).                             *)
THEOREM HeadersAsAskedCorrect == Spec => []HeadersAsAsked
<1>1. ContentInv /\ KeysInv => HeadersAsAsked
  <2> SUFFICES ASSUME ContentInv, KeysInv, state = "READY" PROVE HeadersAsAsked
    BY DEF HeadersAsAsked
  <2>1. asked.keys \in Seq(Seq(STRING)) /\ SentInTurn /\ Len(sentKeys) = Len(asked.keys)
    BY DEF ContentInv, Requests, KeysInv
  <2>2. DOMAIN asked.keys = 1..Len(sentKeys)
    BY <2>1
  <2>3. KeysInTurn
    BY <2>1, <2>2 DEF SentInTurn, BeginsWith, KeysInTurn
  <2> QED
    BY <2>3 DEF ContentInv, WrittenOK, Asks, HeadersAsAsked, InBuffer
<1> QED
  BY <1>1, ContentCorrect, KeysCorrect, PTL
=============================================================================
