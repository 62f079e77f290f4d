---------------------------- MODULE FrameStream ----------------------------
(***************************************************************************)
(* One TCP connection between a SyncTcpClient and a FrameSession, as the   *)
(* bytes that travel on it.  TCP keeps the order of bytes and nothing      *)
(* else: a read gets any part of what is on the way, and a write may go    *)
(* out in parts.                                                           *)
(*                                                                         *)
(* The session does not wait for a response to be written before it reads  *)
(* and handles the next frame, so there can be several writes under way,   *)
(* whose parts mix.                                                        *)
(*                                                                         *)
(* What a request does is in OrderProcessor; here a reply to it is any of  *)
(* the ones it can get.  Connections that break are in RequestChain.       *)
(***************************************************************************)
EXTENDS Messages

CONSTANTS
    Requests,   \* messages that the client sends
    Replies(_), \* a request -> messages that the processor may answer it with
    Malformed   \* the OrderReject for a payload that cannot be read

VARIABLES
    open,        \* the client has not closed the connection
    call,        \* the request that sendAndReceive has sent, or NONE
    toServer,    \* bytes on the way to the session
    serverInbox, \* FrameSession::inbox_
    writes,      \* responses that async_write is working on: bytes left to write
    toClient,    \* bytes on the way to the client
    clientInbox, \* SyncTcpClient::inbox_
    served,      \* history: what was made of the request under way
    result       \* what the last call returned

clientVars == <<call, clientInbox, result>>
serverVars == <<serverInbox, writes, served>>
vars == <<open, toServer, toClient, clientVars, serverVars>>

Byte == 0 .. Base - 1

\* All that travels on the connection.
Sendable == Requests \cup UNION {Replies(m) : m \in Requests}

ASSUME MessagesTyped ==
    /\ \A type \in DOMAIN MessageType : MessageType[type] \in Byte
    /\ \A message \in Sendable : IsMessage(message)

ASSUME NoneIsNoMessage ==
    /\ NONE \notin Requests
    /\ NONE \notin [request : Requests, reply : Sendable]
    /\ NONE \notin [code : Byte, payload : Seq(Byte), bytesConsumed : Nat]

TypeOK ==
    /\ open \in BOOLEAN
    /\ call \in Requests \cup {NONE}
    /\ \A bytes \in {toServer, serverInbox, toClient, clientInbox} : bytes \in Seq(Byte)
    /\ writes \in Seq(Seq(Byte) \ {<<>>})

Init ==
    /\ open = TRUE
    /\ call = NONE
    /\ toServer = <<>> /\ serverInbox = <<>>
    /\ writes = <<>>
    /\ toClient = <<>> /\ clientInbox = <<>>
    /\ served = NONE
    /\ result = NONE

First(bytes, n) == SubSeq(bytes, 1, n)

Rest(bytes, n) == SubSeq(bytes, n + 1, Len(bytes))

FrameOf(message) == EncodeFrame(MessageType[message.type], Write(message))

-----------------------------------------------------------------------------
\* The client.

\* Mutant: the call does not wait for the reply to the one before it.
CallUnanswered(request) ==
    /\ open
    /\ call' = request
    /\ toServer' = toServer \o FrameOf(request)
    /\ UNCHANGED <<open, toClient, clientInbox, result, serverVars>>

\* sendAndReceive() writes the whole frame, and is called again only after it has
\* returned.
Call(request) ==
    /\ open
    /\ call = NONE
    /\ call' = request
    /\ toServer' = toServer \o FrameOf(request)
    /\ UNCHANGED <<open, toClient, clientInbox, result, serverVars>>

\* read_some() of the loop in sendAndReceive().
ClientRead(n) ==
    /\ call # NONE
    /\ TryDecodeFrame(clientInbox) = NONE
    /\ n \in 1 .. Len(toClient)
    /\ clientInbox' = clientInbox \o First(toClient, n)
    /\ toClient' = Rest(toClient, n)
    /\ UNCHANGED <<open, toServer, call, result, serverVars>>

\* Mutant: the frame stays in the inbox.
ReturnUnconsumed ==
    /\ call # NONE
    /\ LET frame == TryDecodeFrame(clientInbox)
       IN /\ frame # NONE
          /\ result' \in Read(TypeOfCode(frame.code), frame.payload)
    /\ call' = NONE
    /\ served' = NONE
    /\ UNCHANGED <<open, toServer, toClient, clientInbox, serverInbox, writes>>

\* sendAndReceive() returns a frame, and the caller reads the message in it.
Return ==
    /\ call # NONE
    /\ LET frame == TryDecodeFrame(clientInbox)
       IN /\ frame # NONE
          /\ clientInbox' = Rest(clientInbox, frame.bytesConsumed)
          /\ result' \in Read(TypeOfCode(frame.code), frame.payload)
    /\ call' = NONE
    /\ served' = NONE
    /\ UNCHANGED <<open, toServer, toClient, serverInbox, writes>>

\* The program ends; the session gets an error and reads no more.
Close ==
    /\ open
    /\ call = NONE
    /\ open' = FALSE
    /\ UNCHANGED <<toServer, toClient, clientVars, serverVars>>

-----------------------------------------------------------------------------
\* The session.

\* readMore().  Its handler leaves no whole frame in the inbox before the next.
SessionRead(n) ==
    /\ TryDecodeFrame(serverInbox) = NONE
    /\ n \in 1 .. Len(toServer)
    /\ serverInbox' = serverInbox \o First(toServer, n)
    /\ toServer' = Rest(toServer, n)
    /\ UNCHANGED <<open, toClient, clientVars, writes, served>>

\* What handle() makes of a frame.
Handled(frame) ==
    LET requests == Read(TypeOfCode(frame.code), frame.payload)
    IN IF requests = {}
       THEN {[request |-> NONE, reply |-> Malformed]}
       ELSE UNION {{[request |-> m, reply |-> r] : r \in Replies(m)} : m \in requests}

\* Mutant: a request that is turned down gets no response.
ProcessFrameOrDrop ==
    LET frame == TryDecodeFrame(serverInbox)
    IN /\ frame # NONE
       /\ serverInbox' = Rest(serverInbox, frame.bytesConsumed)
       /\ served' \in Handled(frame)
       /\ writes' = IF served'.reply.type = "OrderReject" THEN writes
                    ELSE Append(writes, FrameOf(served'.reply))
       /\ UNCHANGED <<open, toServer, toClient, clientVars>>

\* One turn of processCompleteFrames(), with the start of the response.
ProcessFrame ==
    LET frame == TryDecodeFrame(serverInbox)
    IN /\ frame # NONE
       /\ serverInbox' = Rest(serverInbox, frame.bytesConsumed)
       /\ served' \in Handled(frame)
       /\ writes' = Append(writes, FrameOf(served'.reply))
       /\ UNCHANGED <<open, toServer, toClient, clientVars>>

\* async_write() gets n more bytes of the w-th response out.
WriteSome(w, n) ==
    /\ toClient' = toClient \o First(writes[w], n)
    /\ writes' = IF n = Len(writes[w]) THEN RemoveAt(writes, w)
                 ELSE [writes EXCEPT ![w] = Rest(@, n)]
    /\ UNCHANGED <<open, toServer, clientVars, serverInbox, served>>

ClientStep == Return \/ \E n \in 1 .. Len(toClient) : ClientRead(n)

SessionStep ==
    \/ ProcessFrame
    \/ \E n \in 1 .. Len(toServer) : SessionRead(n)
    \/ \E w \in DOMAIN writes : \E n \in 1 .. Len(writes[w]) : WriteSome(w, n)

Next ==
    \/ \E request \in Requests : Call(request)
    \/ Close
    \/ ClientStep
    \/ SessionStep

Spec == Init /\ [][Next]_vars

\* Both programs go on, and the network carries what is written.
FairSpec == Spec /\ WF_vars(ClientStep) /\ WF_vars(SessionStep)

-----------------------------------------------------------------------------
\* However frames are cut, the processor gets each request once and as it was sent,
\* and the call returns the reply to it: bytes, fields, signs and lists survive.
RequestReplyOfBytes == INSTANCE RequestReply WITH asked <- call

ImplementsRequestReply == RequestReplyOfBytes!Spec

\* processCompleteFrames() waits for no write, and bytes of two responses would mix
\* on the socket: what keeps them apart is that a caller waits for its reply.
WritesDoNotOverlap == Len(writes) <= 1

\* A message is written as bytes, no more than the length of a frame can count, and
\* what is read from them is the message.
Survives(message) ==
    /\ message.type \in DOMAIN Layout /\ MessageType[message.type] \in Byte
    /\ Write(message) \in Seq(Byte) /\ Len(Write(message)) + 1 < Bytes(LenBytes)
    /\ Read(message.type, Write(message)) = {message}

\* ByteWriter and ByteReader: a payload is read as what was written, signs, strings and
\* lists included, and one that ends too early is refused, wherever it ends: no field
\* is read past the end.
PayloadsExact ==
    \A message \in {call, result} \ {NONE} :
        /\ Survives(message)
        /\ \A n \in 0 .. Len(Write(message)) - 1 :
               Read(message.type, First(Write(message), n)) = {}

\* Every call gets its reply: no byte that one side waits for is kept back by the
\* other.
CallReturns == call # NONE ~> call = NONE
=============================================================================
