------------------------------ MODULE LoginTls ------------------------------
(***************************************************************************)
(* The RecvComplete and SendComplete SSL_CLoginServer puts in place of     *)
(* CLanServer's: TLS between the socket and the messages.  Both hold the   *)
(* session's _srwSSL from their first line to their last; who holds it is  *)
(* the worker inside one of them, so the lock needs no variable.           *)
(*                                                                         *)
(* Of OpenSSL the model has what the code asks it: whether bytes are to be *)
(* sent, and whether the handshake is done, goes on or failed.  A message  *)
(* with n = 0 stands for the bytes of a handshake; what is encrypted keeps *)
(* the name of its message.                                                *)
(***************************************************************************)
EXTENDS LanServer

VARIABLE _sslState

tlsVars == <<vars, _sslState>>

\* Labels under the lock of the session.
RecvSide == {"finRead", "hsFlag", "hsSend", "hsError", "hsResult", "SSL_read",
             "RecvPacket", "WSARecv", "recvPending", "recvError"} \cup CallLabels
SendSide == {"flagOff", "recheck", "flagOn", "Pop", "sendLive", "WSASend",
             "sendPending", "sendError"}

Unlocked(w) ==
  \A u \in Workers \ {w} : ses[u] = ses[w] => pc[u] \notin RecvSide \cup SendSide

-----------------------------------------------------------------------------
(* RecvComplete *)

\* transferred == 0: RecvComplete has nothing to give to OpenSSL then.
TlsFin(w) ==
  /\ pc[w] = "fin"
  /\ m_blive' = [m_blive EXCEPT ![ses[w]] = FALSE]
  /\ Goto(w, "finRead")
  /\ UNCHANGED <<m_SeqID, m_ioCount, m_flag, m_sendBuffer, m_sendOverlapped, pool, io, local,
                 log, _sslState>>

FinRead(w) ==
  /\ pc[w] = "finRead" /\ Unlocked(w)
  /\ Goto(w, "RecvPacket")
  /\ UNCHANGED <<session, pool, io, local, log, _sslState>>

\* SSL_do_handshake; its bytes, if any, are put into m_sendOverlapped whatever is there.
Handshake(w) ==
  LET s == ses[w] IN
  /\ pc[w] = "RecvComplete" /\ Unlocked(w)
  /\ _sslState[s] = "None"
  /\ \/ Goto(w, "hsResult") /\ UNCHANGED m_sendOverlapped
     \/ /\ m_sendOverlapped' = [m_sendOverlapped EXCEPT ![s] =
                                  <<[own |-> <<s, m_SeqID[s]>>, n |-> 0]>>]
        /\ Goto(w, "hsFlag")
  /\ UNCHANGED <<m_SeqID, m_ioCount, m_blive, m_flag, m_sendBuffer, pool, io, local, log, _sslState>>

\* m_flag is exchanged, not compared.
HandshakeFlag(w) ==
  /\ pc[w] = "hsFlag"
  /\ m_flag' = [m_flag EXCEPT ![ses[w]] = TRUE]
  /\ Goto(w, "hsSend")
  /\ UNCHANGED <<m_SeqID, m_ioCount, m_blive, m_sendBuffer, m_sendOverlapped, pool, io, local,
                 log, _sslState>>

\* WSASend of the handshake is pending, has completed, or failed.
HandshakeSend(w) ==
  LET s == ses[w] IN
  /\ pc[w] = "hsSend"
  /\ Add(s, 1)
  /\ \/ /\ kernel' = [kernel EXCEPT ![s].send = @ + 1]
        /\ Goto(w, "hsResult")
        /\ UNCHANGED iocp
     \/ conn[s] = "up" /\ Posted(s, "send") /\ Goto(w, "hsResult") /\ UNCHANGED kernel
     \/ conn[s] = "reset" /\ Goto(w, "hsError") /\ UNCHANGED <<kernel, iocp>>
  /\ UNCHANGED <<m_SeqID, m_blive, m_flag, m_sendBuffer, m_sendOverlapped, pool, conn, local, log,
                 _sslState>>

\* WSASendError
HandshakeError(w) ==
  /\ pc[w] = "hsError"
  /\ m_blive' = [m_blive EXCEPT ![ses[w]] = FALSE]
  /\ Add(ses[w], -1)
  /\ Goto(w, "hsResult")
  /\ UNCHANGED <<m_SeqID, m_flag, m_sendBuffer, m_sendOverlapped, pool, io, local, log, _sslState>>

\* Done, SSL_ERROR_WANT_READ, or failed.
HandshakeResult(w) ==
  LET s == ses[w] IN
  /\ pc[w] = "hsResult"
  /\ \/ /\ _sslState' = [_sslState EXCEPT ![s] = "Established"]
        /\ Goto(w, "SSL_read")
        /\ UNCHANGED id
     \/ Goto(w, "RecvPacket") /\ UNCHANGED <<id, _sslState>>
     \/ /\ id' = [id EXCEPT ![w] = m_SeqID[s]]
        /\ Goto(w, "Disconnect")
        /\ UNCHANGED _sslState
  /\ UNCHANGED <<session, pool, io, ses, call, log>>

\* Messages go to OnRecv; an error of OpenSSL, or too many or too long messages, disconnect.
SSLRead(w) ==
  LET s == ses[w] IN
  /\ \/ pc[w] = "SSL_read"
     \/ pc[w] = "RecvComplete" /\ Unlocked(w) /\ _sslState[s] = "Established"
  /\ \/ Goto(w, "RecvPacket") /\ UNCHANGED id
     \/ /\ id' = [id EXCEPT ![w] = m_SeqID[s]]
        /\ Goto(w, "Disconnect")
  /\ UNCHANGED <<session, pool, io, ses, call, log, _sslState>>

-----------------------------------------------------------------------------
(* SendComplete *)

\* Every queued message is taken and encrypted, not SENDWSABUF_MAX of them.
EncryptAll(w) ==
  LET s == ses[w] IN
  /\ pc[w] = "Pop"
  /\ m_sendOverlapped' = [m_sendOverlapped EXCEPT ![s] = m_sendBuffer[s]]
  /\ m_sendBuffer' = [m_sendBuffer EXCEPT ![s] = <<>>]
  /\ Goto(w, "sendLive")
  /\ UNCHANGED <<m_SeqID, m_ioCount, m_blive, m_flag, pool, io, local, log, _sslState>>

TlsSendComplete(w) ==
  /\ \/ SendComplete(w) /\ Unlocked(w)
     \/ FlagOff(w) \/ Recheck(w) \/ FlagOn(w) \/ SendLive(w) \/ WSASend(w)
  /\ UNCHANGED _sslState

-----------------------------------------------------------------------------
\* clsSession::Release
TlsRelease(w) ==
  /\ OnRelease(w)
  /\ _sslState' = [_sslState EXCEPT ![ses[w]] = "None"]

\* A client in the handshake sends nothing while an answer to it is with the system.
ClientWaits(s) ==
  _sslState[s] = "None" /\ kernel[s].send > 0 => iocp'[s].recv <= iocp[s].recv

TlsInit == Init /\ _sslState = [s \in Slots |-> "None"]

TlsWorkerStep(w) ==
  \/ TlsFin(w) \/ FinRead(w)
  \/ Handshake(w) \/ HandshakeFlag(w) \/ HandshakeSend(w) \/ HandshakeError(w)
  \/ HandshakeResult(w) \/ SSLRead(w)
  \/ TlsSendComplete(w) \/ EncryptAll(w)
  \/ TlsRelease(w)

\* What is CLanServer's own.
Inherited ==
  /\ \/ AcceptStep(Acceptor)
     \/ \E w \in Workers : PushIdx(w)
     \/ \E w \in Workers, s \in Slots, c \in Completions : TakeCompletion(w, s, c)
     \/ \E t \in Threads : IoStep(t)
     \/ \E t \in Contents : \/ SendStep(t)
                            \/ \E who \in accepted, op \in Calls : Call(t, who, op)
     \/ \E s \in Slots : KernelStep(s)
  /\ UNCHANGED _sslState

TlsNext ==
  /\ (\E w \in Workers : TlsWorkerStep(w)) \/ Inherited
  /\ \A s \in Slots : ClientWaits(s)

TlsSpec == TlsInit /\ [][TlsNext]_tlsVars

-----------------------------------------------------------------------------
\* Operations and threads that use m_sendOverlapped of a session.
SendUses(s) ==
  kernel[s].send + iocp[s].send
  + Count(Workers, SendLabels \cup {"sendError", "hsFlag", "hsSend", "hsError"}, s)

\* The README has a CAS keep two sends of a session from being under way together.
SingleSend == \A s \in Slots : SendUses(s) <= 1
=============================================================================
