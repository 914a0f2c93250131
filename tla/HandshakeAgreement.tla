--------------------------- MODULE HandshakeAgreement ---------------------------
(***************************************************************************)
(* Why two sessions of HandshakeSession agree.  What a session proves to    *)
(* its peer with a message is a fact about itself and about the peer; a     *)
(* fact never becomes false again, and each handler that returns a message  *)
(* adds the next fact to those its caller's message rests on.               *)
(***************************************************************************)
EXTENDS HandshakeSession

-----------------------------------------------------------------------------
(* The terms of a handshake between server s and client c.  An m1, m2 or    *)
(* m3 given as argument is the message as it was received, damaged or not.  *)

TH1Of(s)     == Ext(TH0(Sid(s)), M1(Sid(s), Pk(s), ServerKey[s]))
TH2Of(s, m2) == Ext(TH1Of(s), m2)
SsOf(s, m2)  == Decapsulate(Sk(s), m2.ct)
M3Of(s, m2)  == M3(Commit(Tef(s), Sid(s)), SsOf(s, m2), TH2Of(s, m2))

M2Of(c, s)      == M2(Sid(s), Ciphertext(c, Pk(s)), Commit(Tef(c), Sid(s)))
TH3Of(c, s, m3) == Ext(TH2Of(s, M2Of(c, s)), m3)
M4Of(c, s, m3)  == M4(SharedSecret(c, Pk(s)), Tef(c), TH3Of(c, s, m3))
TH4Of(c, s, m3) == Ext(TH3Of(c, s, m3), M4Of(c, s, m3))

\* From here on both sides have seen the same messages.
AgreedM3(s, c) == M3Of(s, M2Of(c, s))
WrapOf(s, c)   == WrapS(SharedSecret(c, Pk(s)), Tef(s), TH4Of(c, s, AgreedM3(s, c)))
TH5Of(s, c)    == Ext(TH4Of(c, s, AgreedM3(s, c)), WrapOf(s, c))
M5Of(s, c)     == M5(WrapOf(s, c), SessionKeyOf(s, c), TH5Of(s, c))
M6Of(s, c)     == M6(SessionKeyOf(s, c), TH5Of(s, c), M5Of(s, c))

-----------------------------------------------------------------------------
(* The facts. *)

\* Server s has answered the message m2: its commitment and the client's are
\* fixed, and so are, until it opens a TEFC, its secret and its transcript.
Committed(s, m2) ==
  LET h == sess[s]
  IN /\ h.state \in {"M3_CREATED", "M4_VERIFIED", "M5_CREATED", "ESTABLISHED"}
     /\ h.sid = Sid(s) /\ h.commitC = m2.CommitC /\ h.commitS = Commit(Tef(s), Sid(s))
     /\ h.state = "M3_CREATED" => exc[s] = Ok
     /\ h.state \in {"M3_CREATED", "M4_VERIFIED"} =>
          h.th = Ext(TH2Of(s, m2), M3Of(s, m2)) /\ h.key = None /\ h.tefs = Tef(s)
     /\ ~(h.state = "ESTABLISHED" /\ exc[s] = Ok) => h.ss = SsOf(s, m2)

\* Client c has revealed its TEF to server s, which is committed to c's M2.
Revealed(c, s, m3) ==
  LET h == sess[c]
  IN /\ Committed(s, M2Of(c, s))
     /\ h.state \in {"M4_CREATED", "M5_VERIFIED", "ESTABLISHED"}
     /\ h.sid = Sid(s) /\ h.commitC = Commit(Tef(c), Sid(s)) /\ h.commitS = m3.CommitS
     /\ h.state # "ESTABLISHED" =>
          /\ h.th = TH4Of(c, s, m3) /\ h.key = None
          /\ h.ss = SharedSecret(c, Pk(s)) /\ h.tefc = Tef(c)

\* Server s has derived the key of s and c, and c revealed its TEF to s.
ServerKeyed(s, c) ==
  LET h == sess[s]
  IN /\ Revealed(c, s, AgreedM3(s, c))
     /\ h.state \in {"M5_CREATED", "ESTABLISHED"}
     /\ h.key = SessionKeyOf(s, c) /\ h.m5 = M5Of(s, c) /\ h.th = TH5Of(s, c)

\* Client c has accepted the key of s and c, which s had derived.
ClientKeyed(c, s) ==
  LET h == sess[c]
  IN /\ ServerKeyed(s, c)
     /\ h.state = "ESTABLISHED" /\ exc[c] = Ok
     /\ h.key = SessionKeyOf(s, c) /\ h.m5 = M5Of(s, c) /\ h.th = TH5Of(s, c)

-----------------------------------------------------------------------------
(* The invariant. *)

\* What the state of a server says about it and its client.
ServerFacts(s) ==
  LET h == sess[s]
  IN /\ h.state = "M1_CREATED" /\ exc[s] = Ok =>
          h.sid = Sid(s) /\ h.skS = Sk(s) /\ h.th = TH1Of(s) /\ h.key = None
     /\ h.state = "M3_CREATED" /\ exc[s] = Ok => \E m2 \in Inbound("M2") : Committed(s, m2)
     /\ h.state \in {"M5_CREATED", "ESTABLISHED"} => h.key # None
     /\ h.key # None => \E c \in Clients : ServerKeyed(s, c)
     /\ h.state = "ESTABLISHED" /\ exc[s] = Ok => \E c \in Clients : ClientKeyed(c, s)

\* What the state of a client says about it and its server.
ClientFacts(c) ==
  LET h == sess[c]
  IN /\ h.state = "M2_CREATED" /\ exc[c] = Ok =>
          \E s \in Servers, m1 \in Inbound("M1") :
            /\ h.th = Ext(Ext(TH0(Sid(s)), m1), M2Of(c, s)) /\ h.sid = Sid(s)
            /\ h.ss = SharedSecret(c, Pk(s)) /\ h.tefc = Tef(c) /\ h.key = None
            /\ h.commitC = Commit(Tef(c), Sid(s))
     /\ h.state \in {"M4_CREATED", "M5_VERIFIED"} =>
          \E s \in Servers, m3 \in Inbound("M3") : Revealed(c, s, m3)
     /\ h.state = "ESTABLISHED" => h.key # None
     /\ h.key # None => \E s \in Servers : ClientKeyed(c, s)

\* What a message on the wire says about its sender; nothing rests on an M2.
Origin(m) ==
  /\ m.type = "M1" => \E s \in Servers : m.quote = Quote(Pk(s), Sid(s))
  /\ m.type = "M3" => \E s \in Servers, m2 \in Inbound("M2") :
                        m = M3Of(s, m2) /\ Committed(s, m2)
  /\ m.type = "M4" => \E c \in Clients, s \in Servers, m3 \in Inbound("M3") :
                        m = M4Of(c, s, m3) /\ Revealed(c, s, m3)
  /\ m.type = "M5" => \E s \in Servers, c \in Clients : m = M5Of(s, c) /\ ServerKeyed(s, c)
  /\ m.type = "M6" => \E s \in Servers, c \in Clients : m = M6Of(s, c) /\ ClientKeyed(c, s)

\* Every session is where its own state and the messages say it is, and so
\* is the session it talks to, although a message may have been damaged,
\* repeated or redirected on the way (session.py 83-199).
FactsOK ==
  /\ \A s \in Servers : ServerFacts(s)
  /\ \A c \in Clients : ClientFacts(c)
  /\ \A m \in wire : Origin(m)
=============================================================================
