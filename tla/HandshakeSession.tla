--------------------------- MODULE HandshakeSession ---------------------------
(***************************************************************************)
(* The HandshakeSession objects of a set of TAKD-PQE handshakes             *)
(* (backend/protocol/session.py, state_machine.py, m1.py to m6.py).         *)
(*                                                                          *)
(* A session never talks to another one: a caller passes what one handler   *)
(* returned to a handler of another session.  Here the caller may call any  *)
(* handler of any session at any time, with any message a handler has       *)
(* returned so far or with such a message with one field damaged.  Losing,  *)
(* repeating, delaying, reordering and redirecting messages are all such    *)
(* callers.                                                                 *)
(***************************************************************************)
EXTENDS Primitives, Naturals, FiniteSets

CONSTANTS Servers,      \* sessions built with SessionRole.SERVER
          Clients,      \* sessions built with SessionRole.CLIENT
          SigningKeys,  \* the long-term ML-DSA-87 key pairs
          ServerKey,    \* the key pair each session was built with
          MaxRejected   \* bound: sessions whose calls out of sequence are noted

Endpoints == Servers \cup Clients

ASSUME RolesAssumption   == Servers \cap Clients = {}
ASSUME SigningAssumption == ServerKey \in [Endpoints -> SigningKeys]
ASSUME BoundAssumption   == MaxRejected \in Nat

VARIABLES sess,      \* sess[e]: the attributes of e's HandshakeSession
          wire,      \* the messages the handlers have returned
          exc,       \* exc[e]: what a handler of e raised half way, else Ok
          rejected   \* the sessions that raised on a call out of sequence
vars == <<sess, wire, exc, rejected>>

-----------------------------------------------------------------------------
(* The state machine of state_machine.py. *)

ServerTransitions ==
  [INIT |-> "M1_CREATED", M1_CREATED |-> "M2_VERIFIED", M2_VERIFIED |-> "M3_CREATED",
   M3_CREATED |-> "M4_VERIFIED", M4_VERIFIED |-> "M5_CREATED",
   M5_CREATED |-> "ESTABLISHED", ESTABLISHED |-> "EMAIL_SECURE",
   EMAIL_SECURE |-> "TEARDOWN", TEARDOWN |-> "ZEROIZED"]

ClientTransitions ==
  [INIT |-> "M1_VERIFIED", M1_VERIFIED |-> "M2_CREATED", M2_CREATED |-> "M3_VERIFIED",
   M3_VERIFIED |-> "M4_CREATED", M4_CREATED |-> "M5_VERIFIED",
   M5_VERIFIED |-> "ESTABLISHED", ESTABLISHED |-> "EMAIL_SECURE",
   EMAIL_SECURE |-> "TEARDOWN", TEARDOWN |-> "ZEROIZED"]

\* Faulty variant: the table is not chosen by the role.
AdvanceWithoutRole(e, state) == ServerTransitions[state]

Advance(e, state) ==
  IF e \in Servers THEN ServerTransitions[state] ELSE ClientTransitions[state]

\* The states the public handlers require, in the order M1 to M6.
EntryStates == {"INIT", "M1_CREATED", "M2_CREATED", "M3_CREATED", "M4_CREATED", "M5_CREATED"}

Ok == "none"

-----------------------------------------------------------------------------
(* The messages.  M5 enters the transcript without its MACS. *)

M1(sid, pk, key) ==
  [type |-> "M1", sid |-> sid, TS |-> Timestamp, pkS |-> pk, quote |-> Quote(pk, sid),
   SigS |-> Signature(key, Quote(pk, sid))]
M2(sid, ct, commitC) == [type |-> "M2", sid |-> sid, ct |-> ct, CommitC |-> commitC]
M3(commitS, ss, th2) ==
  [type |-> "M3", CommitS |-> commitS, MAC1 |-> Hmac(DeriveTK(ss), "commit", th2)]
M4(ss, tefc, th3) == [type |-> "M4", wrappedC |-> Encrypt(DeriveKwrapC(ss), tefc, th3)]
WrapS(ss, tefs, th4) == Encrypt(DeriveKwrapS(ss), tefs, th4)
M5(wrappedS, key, th5) ==
  [type |-> "M5", wrappedS |-> wrappedS, MACS |-> Hmac(key, "confirm-S", th5)]
M6(key, th5, m5) ==
  [type |-> "M6", MACC |-> Hmac(key, "confirm-C", Ext(th5, m5))]

-----------------------------------------------------------------------------
(* The checks: the exception verify_m* raises, or Ok. *)

VerifyM1(m, key) ==
  IF m.quote = Garbled \/ m.SigS # Signature(key, m.quote) \/ m.quote[2] # m.pkS
  THEN "AttestationError"
  ELSE IF m.quote[3] # m.sid THEN "SessionIDMismatch" ELSE Ok

\* Faulty variant: the session id is not compared.
VerifyM2WithoutSid(m, sid) == Ok

VerifyM2(m, sid) == IF m.sid # sid THEN "SessionIDMismatch" ELSE Ok

\* Faulty variant: MAC1 is not checked.
VerifyM3WithoutMac(m, ss, th2) == Ok

VerifyM3(m, ss, th2) ==
  IF m.MAC1 # Hmac(DeriveTK(ss), "commit", th2) THEN "MACError" ELSE Ok

VerifyM4(m, ss, commitC, sid, th3) ==
  IF ~Opens(DeriveKwrapC(ss), m.wrappedC, th3) THEN "AEADError"
  ELSE IF commitC # Commit(Plaintext(m.wrappedC), sid) THEN "CommitmentError" ELSE Ok

\* Faulty variant: the two TEFs enter the fusion in the other order.
KeyFromM5Swapped(m, s) ==
  DeriveSessionKey(s.ss, Fusion(Plaintext(m.wrappedS), s.tefc, s.sid))

\* The key the client derives while it verifies M5.
KeyFromM5(m, s) ==
  DeriveSessionKey(s.ss, Fusion(s.tefc, Plaintext(m.wrappedS), s.sid))

\* Faulty variant: MACS is not checked.
VerifyM5WithoutMac(m, s) ==
  IF ~Opens(DeriveKwrapS(s.ss), m.wrappedS, s.th) THEN "AEADError"
  ELSE IF s.commitS # Commit(Plaintext(m.wrappedS), s.sid) THEN "CommitmentError" ELSE Ok

VerifyM5(m, s) ==
  IF ~Opens(DeriveKwrapS(s.ss), m.wrappedS, s.th) THEN "AEADError"
  ELSE IF s.commitS # Commit(Plaintext(m.wrappedS), s.sid) THEN "CommitmentError"
  ELSE IF m.MACS # Hmac(KeyFromM5(m, s), "confirm-S", Ext(s.th, m.wrappedS))
  THEN "MACError" ELSE Ok

\* Faulty variant: MACC is not checked.
VerifyM6WithoutMac(m, key, m5, th5) == Ok

VerifyM6(m, key, m5, th5) ==
  IF m.MACC # Hmac(key, "confirm-C", Ext(th5, m5)) THEN "MACError" ELSE Ok

-----------------------------------------------------------------------------
(* How a handler ends: with an exception, in the attributes assigned so    *)
(* far, or by returning a message.                                          *)

\* Faulty variant: the state advances only once the message is verified.
RaiseInEntryState(e, s, x) ==
  /\ sess' = [sess EXCEPT ![e] = [s EXCEPT !.state = sess[e].state]]
  /\ exc'  = [exc EXCEPT ![e] = x]
  /\ UNCHANGED <<wire, rejected>>

Raise(e, s, x) ==
  /\ sess' = [sess EXCEPT ![e] = s]
  /\ exc'  = [exc EXCEPT ![e] = x]
  /\ UNCHANGED <<wire, rejected>>

Return(e, s, m) ==
  /\ sess' = [sess EXCEPT ![e] = s]
  /\ wire' = wire \cup {m}
  /\ UNCHANGED <<exc, rejected>>

NewSession ==
  [state |-> "INIT", sid |-> None, pkS |-> None, skS |-> None, ss |-> None,
   tefc |-> None, tefs |-> None, commitC |-> None, commitS |-> None,
   key |-> None, m5 |-> None, th |-> None]

\* Faulty variant: the revealed TEFC is left in memory.
ZeroizeAllButTefC(s) == [s EXCEPT !.ss = None, !.tefs = None, !.skS = None]
Zeroize(s) == [s EXCEPT !.ss = None, !.tefc = None, !.tefs = None, !.skS = None]

\* How process_m5 and process_m6 end: the secrets go, and the state is assigned.
Established(s) == [Zeroize(s) EXCEPT !.state = "ESTABLISHED"]

Init ==
  /\ sess = [e \in Endpoints |-> NewSession]
  /\ wire = {}
  /\ exc = [e \in Endpoints |-> Ok]
  /\ rejected = {}

-----------------------------------------------------------------------------
(* The handlers.  Each advances the state before it looks at the message. *)

\* The state table accepts create_m1 for either role; a client has no signing
\* key, and building the message fails.
CreateM1(e) ==
  LET s == [sess[e] EXCEPT !.state = Advance(e, @), !.sid = Sid(e),
                           !.pkS = Pk(e), !.skS = Sk(e), !.th = TH0(Sid(e))]
      m == M1(Sid(e), Pk(e), ServerKey[e])
  IN /\ sess[e].state = "INIT"
     /\ \/ e \in Servers /\ Return(e, [s EXCEPT !.th = Ext(@, m)], m)
        \/ e \in Clients /\ Raise(e, s, "AttributeError")

\* The second transition of a server that is handed an M1 has no entry from
\* M1_CREATED as expected state, and raises after session_id was overwritten.
ProcessM1(e, m) ==
  LET s1 == [sess[e] EXCEPT !.state = Advance(e, @)]
      s2 == [s1 EXCEPT !.sid = m.sid, !.th = Ext(TH0(m.sid), m)]
      s3 == [s2 EXCEPT !.state = Advance(e, @)]
      m2 == M2(m.sid, Ciphertext(e, m.pkS), Commit(Tef(e), m.sid))
      x  == VerifyM1(m, ServerKey[e])
  IN /\ sess[e].state = "INIT"
     /\ \/ x # Ok /\ Raise(e, s1, x)
        \/ x = Ok /\ e \in Servers /\ Raise(e, s2, "InvalidStateTransition")
        \/ x = Ok /\ e \in Clients /\ Raise(e, s3, "RuntimeError")
        \/ /\ x = Ok /\ e \in Clients
           /\ Return(e, [s3 EXCEPT !.ss = SharedSecret(e, m.pkS), !.tefc = Tef(e),
                                   !.commitC = m2.CommitC, !.th = Ext(@, m2)], m2)

\* A server whose process_m1 failed holds no skS: decapsulation raises.
\* RuntimeError: the health tests rejected every sample generate_tef drew.
ProcessM2(e, m) ==
  LET s1  == [sess[e] EXCEPT !.state = Advance(e, @)]
      th2 == Ext(s1.th, m)
      s2  == [s1 EXCEPT !.state = Advance(e, @), !.commitC = m.CommitC, !.th = th2]
      ss  == Decapsulate(s1.skS, m.ct)
      m3  == M3(Commit(Tef(e), s1.sid), ss, th2)
      x   == VerifyM2(m, s1.sid)
  IN /\ sess[e].state = "M1_CREATED"
     /\ \/ x # Ok /\ Raise(e, s1, x)
        \/ x = Ok /\ s1.skS = None /\ Raise(e, s2, "AttributeError")
        \/ x = Ok /\ s1.skS # None /\ Raise(e, s2, "RuntimeError")
        \/ /\ x = Ok /\ s1.skS # None
           /\ Return(e, [s2 EXCEPT !.ss = ss, !.tefs = Tef(e), !.commitS = m3.CommitS,
                                   !.th = Ext(@, m3)], m3)

\* A client whose process_m1 ran out of entropy holds no ss: HKDF raises.
ProcessM3(e, m) ==
  LET s1  == [sess[e] EXCEPT !.state = Advance(e, @)]
      th3 == Ext(s1.th, m)
      m4  == M4(s1.ss, s1.tefc, th3)
      x   == IF s1.ss = None THEN "TypeError" ELSE VerifyM3(m, s1.ss, s1.th)
  IN /\ sess[e].state = "M2_CREATED"
     /\ \/ x # Ok /\ Raise(e, s1, x)
        \/ /\ x = Ok
           /\ Return(e, [s1 EXCEPT !.state = Advance(e, @), !.commitS = m.CommitS,
                                   !.th = Ext(th3, m4)], m4)

ProcessM4(e, m) ==
  LET s1   == [sess[e] EXCEPT !.state = Advance(e, @)]
      x    == IF s1.ss = None THEN "TypeError"
              ELSE VerifyM4(m, s1.ss, s1.commitC, s1.sid, s1.th)
      tefc == Plaintext(m.wrappedC)
      th4  == Ext(s1.th, m)
      key  == DeriveSessionKey(s1.ss, Fusion(tefc, s1.tefs, s1.sid))
      w    == WrapS(s1.ss, s1.tefs, th4)
      m5   == M5(w, key, Ext(th4, w))
  IN /\ sess[e].state = "M3_CREATED"
     /\ \/ x # Ok /\ Raise(e, s1, x)
        \/ /\ x = Ok
           /\ Return(e, [s1 EXCEPT !.state = Advance(e, @), !.tefc = tefc, !.key = key,
                                   !.m5 = m5, !.th = Ext(th4, w)], m5)

ProcessM5(e, m) ==
  LET s1  == [sess[e] EXCEPT !.state = Advance(e, @)]
      x   == VerifyM5(m, s1)
      key == KeyFromM5(m, s1)
      th5 == Ext(s1.th, m.wrappedS)
  IN /\ sess[e].state = "M4_CREATED"
     /\ \/ x # Ok /\ Raise(e, s1, x)
        \/ /\ x = Ok
           /\ Return(e, Established([s1 EXCEPT !.state = Advance(e, @), !.key = key, !.m5 = m,
                                               !.th = th5]),
                     M6(key, th5, m))

\* The transition already leads to ESTABLISHED when MACC is verified.
ProcessM6(e, m) ==
  LET s1 == [sess[e] EXCEPT !.state = Advance(e, @)]
      x  == VerifyM6(m, s1.key, s1.m5, s1.th)
  IN /\ sess[e].state = "M5_CREATED"
     /\ \/ x # Ok /\ Raise(e, s1, x)
        \/ /\ x = Ok
           /\ sess' = [sess EXCEPT ![e] = Established(s1)]
           /\ UNCHANGED <<wire, exc, rejected>>

\* require_state: a handler called in a state it does not expect raises
\* InvalidStateTransition and assigns nothing.
OutOfSequence(e) ==
  /\ \E expected \in EntryStates : sess[e].state # expected
  /\ Cardinality(rejected) < MaxRejected
  /\ rejected' = rejected \cup {e}
  /\ UNCHANGED <<sess, wire, exc>>

-----------------------------------------------------------------------------
(* The caller. *)

Damaged(m) == {[m EXCEPT ![f] = Garbled] : f \in DOMAIN m \ {"type"}}

Inbound(type) ==
  LET sent == {m \in wire : m.type = type}
  IN sent \cup UNION {Damaged(m) : m \in sent}

Next ==
  \E e \in Endpoints :
    \/ CreateM1(e)
    \/ \E m \in Inbound("M1") : ProcessM1(e, m)
    \/ \E m \in Inbound("M2") : ProcessM2(e, m)
    \/ \E m \in Inbound("M3") : ProcessM3(e, m)
    \/ \E m \in Inbound("M4") : ProcessM4(e, m)
    \/ \E m \in Inbound("M5") : ProcessM5(e, m)
    \/ \E m \in Inbound("M6") : ProcessM6(e, m)
    \/ OutOfSequence(e)

Spec == Init /\ [][Next]_vars

-----------------------------------------------------------------------------
(* Types.  Every term a session can hold, by the depth of its transcript.  *)

OrGarbled(S) == S \cup {Garbled}
OrNone(S)    == S \cup {None}

Sids    == {"sid"} \X Endpoints
Pks     == {"pk"} \X Endpoints
Sks     == {"sk"} \X Endpoints
Tefs    == {"tef"} \X Endpoints
Cts     == {"ct"} \X Clients \X Pks
Secrets == ({"ss"} \X Clients \X Pks) \cup ({"reject"} \X Sks \X OrGarbled(Cts))
Commits == {"commit"} \X Tefs \X Sids
Quotes  == {"quote"} \X Pks \X Sids
Sigs    == {"sig"} \X SigningKeys \X Quotes
TKs     == {"TK"} \X Secrets
KwrapCs == {"KwrapC"} \X Secrets
KwrapSs == {"KwrapS"} \X Secrets
Keys    == {"SessionKey"} \X Secrets \X ({"fusion"} \X Tefs \X Tefs \X Sids)

M1s == [type : {"M1"}, sid : OrGarbled(Sids), TS : OrGarbled({Timestamp}),
        pkS : OrGarbled(Pks), quote : OrGarbled(Quotes), SigS : OrGarbled(Sigs)]
TH1s == {"th"} \X ({"th0"} \X Sids) \X M1s
M2s == [type : {"M2"}, sid : OrGarbled(Sids), ct : OrGarbled(Cts), CommitC : OrGarbled(Commits)]
TH2s == {"th"} \X TH1s \X M2s
M3s == [type : {"M3"}, CommitS : OrGarbled(Commits),
        MAC1 : OrGarbled({"hmac"} \X TKs \X {"commit"} \X TH2s)]
TH3s == {"th"} \X TH2s \X M3s
M4s == [type : {"M4"}, wrappedC : OrGarbled({"aead"} \X KwrapCs \X Tefs \X TH3s)]
TH4s == {"th"} \X TH3s \X M4s
WrapSs == {"aead"} \X KwrapSs \X Tefs \X TH4s
TH5s == {"th"} \X TH4s \X WrapSs
M5s == [type : {"M5"}, wrappedS : OrGarbled(WrapSs),
        MACS : OrGarbled({"hmac"} \X Keys \X {"confirm-S"} \X TH5s)]
M6s == [type : {"M6"},
        MACC : OrGarbled({"hmac"} \X Keys \X {"confirm-C"} \X ({"th"} \X TH5s \X M5s))]
Messages == M1s \cup M2s \cup M3s \cup M4s \cup M5s \cup M6s

ServerStates == {"INIT", "M1_CREATED", "M2_VERIFIED", "M3_CREATED", "M4_VERIFIED",
                 "M5_CREATED", "ESTABLISHED"}
ClientStates == {"INIT", "M1_VERIFIED", "M2_CREATED", "M3_VERIFIED", "M4_CREATED",
                 "M5_VERIFIED", "ESTABLISHED"}
Exceptions == {"AttestationError", "SessionIDMismatch", "MACError", "AEADError",
               "CommitmentError", "InvalidStateTransition", "RuntimeError",
               "AttributeError", "TypeError"}

Transcripts ==
  OrNone({"th0"} \X Sids) \cup TH1s \cup TH2s \cup TH3s \cup TH4s \cup TH5s

Session ==
  [state : ServerStates \cup ClientStates, sid : OrNone(Sids), pkS : OrNone(Pks),
   skS : OrNone(Sks), ss : OrNone(Secrets), tefc : OrNone(Tefs), tefs : OrNone(Tefs),
   commitC : OrNone(OrGarbled(Commits)), commitS : OrNone(OrGarbled(Commits)),
   key : OrNone(Keys), m5 : OrNone(M5s),
   th : Transcripts]

\* Types: what the attributes of a session, the messages and the recorded
\* exceptions can be, the states of the other role excluded (session.py 46-70).
TypeOK ==
  /\ sess \in [Endpoints -> Session]
  /\ \A e \in Servers : sess[e].state \in ServerStates
  /\ \A e \in Clients : sess[e].state \in ClientStates
  /\ wire \subseteq Messages
  /\ exc \in [Endpoints -> Exceptions \cup {Ok}]
  /\ rejected \subseteq Endpoints

-----------------------------------------------------------------------------
(* Properties. *)

\* What a session holds while nothing has failed: each entry state comes
\* with the secrets and the transcript the next handler reads.
LiveOK(s) ==
  /\ s.state \in EntryStates \cup {"ESTABLISHED"}
  /\ s.state = "INIT" => s = NewSession
  /\ s.state = "M1_CREATED" =>
       s.sid # None /\ s.skS # None /\ s.ss = None /\ s.th \in TH1s
  /\ s.state = "M2_CREATED" =>
       s.sid # None /\ s.ss # None /\ s.tefc # None /\ s.th \in TH2s
  /\ s.state = "M3_CREATED" =>
       s.sid # None /\ s.ss # None /\ s.tefs # None /\ s.th \in TH3s
  /\ s.state = "M4_CREATED" =>
       s.sid # None /\ s.ss # None /\ s.tefc # None /\ s.th \in TH4s
  /\ s.state = "M5_CREATED" => s.key # None /\ s.m5 # None /\ s.th \in TH5s

\* What a failed session holds: its state moved on before the failure, so a
\* later handler may accept the state; what that handler needs is missing.
FailedOK(s) ==
  /\ s.state \notin {"INIT", "M4_CREATED", "M5_CREATED"}
  /\ s.state = "M1_CREATED" =>
       s.skS = None /\ s.ss = None /\ (s.sid # None => s.th \in TH1s)
  /\ s.state \in {"M2_CREATED", "M3_CREATED"} => s.ss = None

\* Every session is either live and complete for its state, or failed and
\* without what it would need to go on, although the handlers change the
\* state before they verify and no handler undoes anything (session.py 75-199).
PhaseOK ==
  \A e \in Endpoints : IF exc[e] = Ok THEN LiveOK(sess[e]) ELSE FailedOK(sess[e])

\* A step that changes a failed session: it returns no message, derives no
\* key and leaves the session failed.
FailedStep ==
  \A e \in Endpoints : exc[e] # Ok /\ sess'[e] # sess[e] =>
    exc'[e] # Ok /\ wire' = wire /\ sess'[e].key = sess[e].key

\* A session that failed never returns a message and never derives a key
\* again, whatever its caller does next (session.py 83-199, rule R5).
FailedStaysFailed == [][FailedStep]_vars

\* A client that holds a session key shares it, and the whole transcript up
\* to the server's confirmation, with a server session (session.py 183-199).
ClientKeyConfirmed ==
  \A c \in Clients : sess[c].key # None =>
    \E s \in Servers : /\ sess[s].key = sess[c].key
                        /\ sess[s].m5 = sess[c].m5
                        /\ sess[s].th = sess[c].th

\* A server that process_m6 let through shares its key and transcript with a
\* client that had established its side (session.py 129-135).
ServerEstablishedMatched ==
  \A s \in Servers : sess[s].state = "ESTABLISHED" /\ exc[s] = Ok =>
    \E c \in Clients : /\ sess[c].state = "ESTABLISHED"
                        /\ sess[c].key = sess[s].key
                        /\ sess[c].th = sess[s].th

\* Commit before reveal, client side: a client has put TEFC on the wire only
\* if a server with its shared secret holds its CommitC (session.py 169-181).
ClientRevealsToCommitted ==
  \A c \in Clients : sess[c].state \in {"M4_CREATED", "M5_VERIFIED"} =>
    \E s \in Servers : /\ sess[s].commitC = Commit(sess[c].tefc, sess[c].sid)
                        /\ sess[s].sid = sess[c].sid
                        /\ sess[s].ss = sess[c].ss

\* Commit before reveal, server side: a server that opened a TEFC, and so
\* derived a key and reveals TEFS, has its CommitS already accepted by the
\* client of that TEFC.  MAC1 does not cover CommitS: only the associated
\* data TH3 of M4 does (session.py 110-127, m4.py 10-32).
ServerRevealsToCommitted ==
  \A s \in Servers : sess[s].key # None =>
    \E c \in Clients : /\ sess[s].key[3][2] = Tef(c)
                        /\ sess[c].commitS = sess[s].commitS
                        /\ sess[c].commitC = sess[s].commitC

\* The refinement mapping to KeyAgreement: the key each session object would
\* give its caller, and whether the handshake is open, done or given up.
SessionKeyOf(s, c) ==
  DeriveSessionKey(SharedSecret(c, Pk(s)), Fusion(Tef(c), Tef(s), Sid(s)))
keyBar == [e \in Endpoints |-> sess[e].key]
statusBar == [e \in Endpoints |->
  CASE exc[e] # Ok -> "aborted"
    [] exc[e] = Ok /\ sess[e].state = "ESTABLISHED" -> "established"
    [] OTHER -> "open"]

Agreement == INSTANCE KeyAgreement
               WITH KeyOf <- SessionKeyOf, NoKey <- None, key <- keyBar, status <- statusBar

\* The sessions implement KeyAgreement: every handler call is one of its
\* steps or none, in particular a key is only ever the one both sides
\* contributed to, and is accepted in its order (session.py 83-199).
AgreementSpec == Agreement!Spec

\* PROTOCOL_SPEC.md 237-238: a server is ESTABLISHED only on a valid MACC.
EstablishedMeansVerified ==
  \A e \in Endpoints : sess[e].state = "ESTABLISHED" => exc[e] = Ok

\* PROTOCOL_SPEC.md 243-244: a call out of sequence must raise
\* InvalidStateTransition and abort the session.
OutOfSequenceAborts ==
  [][\A e \in rejected : sess'[e].state = sess[e].state]_vars
=============================================================================
