----------------------------- MODULE DeviceLink -----------------------------
(***************************************************************************)
(* Who the plugin reads from: pairing with a tablet, the two addresses a   *)
(* tablet may answer at, and the chain of a primary and a fallback source  *)
(* a run opens.                                                            *)
(*                                                                         *)
(* A tablet stands for its host key: one that was reset to factory state   *)
(* is another tablet.  A key is the number of the pairing that made it.    *)
(***************************************************************************)
EXTENDS Naturals

CONSTANTS Tablets, MaxPairings

Hosts == {"wifi", "cable"}
Sources == {"cloud", "ssh"}
Nobody == "nobody"

ASSUME DeviceLinkAssumption == Nobody \notin Tablets /\ MaxPairings \in Nat

Unpaired == [host |-> "cable", key |-> 0, pin |-> Nobody]

VARIABLES
  answersAt,   \* [Hosts -> Tablets or Nobody]: who answers, outside our control
  authorized,  \* the <<tablet, key>> a tablet accepts
  trusted,     \* the tablets whose host key the user has confirmed
  ssh,         \* SshSettings: host, privateKey, hostKeyFingerprint
  token,       \* TRUE when a device token of the cloud is stored
  chosen,      \* primaryTransport and fallbackTransport
  pro,         \* the entitlement
  pairing,     \* the pairing in progress, with its connection
  run,         \* the run that opens or holds a session
  sockets      \* the connections to a tablet that are open

linkVars == <<answersAt, authorized, trusted, ssh, token, chosen, pro, pairing, run, sockets>>

NoPairing == [pc |-> "idle", host |-> "cable", peer |-> Nobody, key |-> 0, wifi |-> FALSE]
NoRun == [pc |-> "idle", prim |-> "cloud", fb |-> "none", via |-> "cloud",
          host |-> "cable", ssh |-> Unpaired, peer |-> Nobody, tried |-> {}]

LinkInit ==
  /\ answersAt = [h \in Hosts |-> Nobody]
  /\ authorized = {}
  /\ trusted = {}
  /\ ssh = Unpaired
  /\ token = TRUE
  /\ chosen = [prim |-> "cloud", fb |-> "none"]
  /\ pro = TRUE
  /\ pairing = NoPairing
  /\ run = NoRun
  /\ sockets = {}

-----------------------------------------------------------------------------
(* The environment and the user.                                            *)

TabletMoves(h, t) ==
  /\ answersAt[h] # t
  /\ answersAt' = [answersAt EXCEPT ![h] = t]
  /\ UNCHANGED <<authorized, trusted, ssh, token, chosen, pro, pairing, run, sockets>>

AllowedTransports == IF pro THEN {"cloud", "ssh"} ELSE {"cloud"}

\* The dropdowns: a source the licence does not allow is disabled, and a
\* primary chosen over the fallback takes it out.
ChooseSource(p, f) ==
  /\ {p, f} \subseteq AllowedTransports \cup {"none"}
  /\ p # f
  /\ chosen' = [prim |-> p, fb |-> f]
  /\ chosen' # chosen
  /\ UNCHANGED <<answersAt, authorized, trusted, ssh, token, pro, pairing, run, sockets>>

ChangeTier ==
  /\ pro' = ~pro
  /\ UNCHANGED <<answersAt, authorized, trusted, ssh, token, chosen, pairing, run, sockets>>

ChangeToken ==
  /\ token' = ~token
  /\ UNCHANGED <<answersAt, authorized, trusted, ssh, chosen, pro, pairing, run, sockets>>

ForgetKey(keepsHost) ==
  /\ ssh.key # 0
  /\ ssh' = [Unpaired EXCEPT !.host = IF keepsHost THEN ssh.host ELSE "cable"]
  /\ UNCHANGED <<answersAt, authorized, trusted, token, chosen, pro, pairing, run, sockets>>

-----------------------------------------------------------------------------
(* Pairing.                                                                 *)

EndPairing == pairing' = NoPairing /\ sockets' = sockets \ {"pairing"}

\* Each pairing makes a key of its own; MaxPairings bounds them.
NewKey == 1 + CHOOSE n \in 0 .. MaxPairings :
            /\ \A a \in authorized : a[2] <= n
            /\ n = 0 \/ \E a \in authorized : a[2] = n

\* reachableHost: the address given, else the cable, else nothing answers.
Pair(h) ==
  LET host == IF answersAt[h] # Nobody THEN h ELSE "cable" IN
  /\ pairing.pc = "idle" /\ NewKey <= MaxPairings
  /\ answersAt[host] # Nobody
  /\ pairing' = [pairing EXCEPT !.pc = "probed", !.host = host]
  /\ UNCHANGED <<answersAt, authorized, trusted, ssh, token, chosen, pro, run, sockets>>

PasswordConnect(accepted) ==
  /\ pairing.pc = "probed"
  /\ IF accepted /\ answersAt[pairing.host] # Nobody
     THEN /\ pairing' = [pairing EXCEPT !.pc = "asking", !.peer = answersAt[pairing.host]]
          /\ sockets' = sockets \cup {"pairing"}
     ELSE EndPairing
  /\ UNCHANGED <<answersAt, authorized, trusted, ssh, token, chosen, pro, run>>

ConfirmHostKey(yes) ==
  /\ pairing.pc = "asking"
  /\ IF yes
     THEN /\ trusted' = trusted \cup {pairing.peer}
          /\ pairing' = [pairing EXCEPT !.pc = "trusted"]
          /\ UNCHANGED sockets
     ELSE EndPairing /\ UNCHANGED trusted
  /\ UNCHANGED <<answersAt, authorized, ssh, token, chosen, pro, run>>

\* The command may fail, or succeed and still leave a key the tablet does
\* not accept: a full disk, a file dropbear refuses as too readable.
InstallKey(succeeds, works) ==
  /\ pairing.pc = "trusted"
  /\ IF succeeds
     THEN /\ pairing' = [pairing EXCEPT !.pc = "installed", !.key = NewKey]
          /\ authorized' = authorized \cup (IF works THEN {<<pairing.peer, NewKey>>} ELSE {})
          /\ UNCHANGED sockets
     ELSE EndPairing /\ UNCHANGED authorized
  /\ UNCHANGED <<answersAt, trusted, ssh, token, chosen, pro, run>>

\* enableWifiAccess, whose failure is no failure of the pairing, and the end
\* of the connection the password opened.
OpenWifi(on) ==
  /\ pairing.pc = "installed"
  /\ pairing' = [pairing EXCEPT !.pc = "checking", !.wifi = on]
  /\ sockets' = sockets \ {"pairing"}
  /\ UNCHANGED <<answersAt, authorized, trusted, ssh, token, chosen, pro, run>>

\* Trusting the key command's exit code.
CheckKeyNot ==
  /\ pairing.pc = "checking"
  /\ ssh' = [host |-> IF pairing.wifi THEN "wifi" ELSE pairing.host,
             key |-> pairing.key, pin |-> pairing.peer]
  /\ pairing' = NoPairing
  /\ UNCHANGED <<answersAt, authorized, trusted, token, chosen, pro, run, sockets>>

\* The key is tried at the address pairing ran on, the password left out and
\* the host key pinned; only then are the settings kept.
CheckKey ==
  /\ pairing.pc = "checking"
  /\ IF /\ answersAt[pairing.host] = pairing.peer
        /\ <<pairing.peer, pairing.key>> \in authorized
     THEN ssh' = [host |-> IF pairing.wifi THEN "wifi" ELSE pairing.host,
                  key |-> pairing.key, pin |-> pairing.peer]
     ELSE UNCHANGED ssh
  /\ pairing' = NoPairing
  /\ UNCHANGED <<answersAt, authorized, trusted, token, chosen, pro, run, sockets>>

-----------------------------------------------------------------------------
(* Opening a source.                                                        *)

Connected(src) == IF src = "cloud" THEN token ELSE ssh.key # 0
Primary == IF chosen.prim \in AllowedTransports THEN chosen.prim ELSE "cloud"
Fallback == IF chosen.fb \in AllowedTransports \ {Primary} THEN chosen.fb ELSE "none"

\* preflightRun asks the source whether it is configured ...
ClaimRun ==
  /\ run.pc = "idle"
  /\ Connected(Primary)
  /\ run' = [NoRun EXCEPT !.pc = "claimed"]
  /\ UNCHANGED <<answersAt, authorized, trusted, ssh, token, chosen, pro, pairing, sockets>>

\* ... and openSource, after awaits, computes the chain anew.
OpenSource ==
  /\ run.pc = "claimed"
  /\ run' = [run EXCEPT !.pc = "opening", !.prim = Primary, !.fb = Fallback, !.via = Primary,
                        !.host = ssh.host, !.ssh = ssh]
  /\ UNCHANGED <<answersAt, authorized, trusted, ssh, token, chosen, pro, pairing, sockets>>

\* A handshake with what answers at an address: a pinned key that differs is
\* refused before any authentication.
Handshakes ==
  LET t == answersAt[run.host] IN
  IF t = Nobody THEN {"silent"}
  ELSE IF run.ssh.pin \notin {Nobody, t} THEN {"stranger"}
  ELSE IF <<t, run.ssh.key>> \notin authorized THEN {"refused", "silent"}
  ELSE {"ready", "silent", "failed"}

CloudAnswers == IF token THEN {"ready", "silent", "refused"} ELSE {"refused"}

Outcomes == IF run.via = "cloud" THEN CloudAnswers ELSE Handshakes

\* Failing over on any error.
NextDialAnyway(o) ==
  IF run.via = "ssh" /\ o = "silent" /\ run.host = "wifi"
  THEN [run EXCEPT !.host = "cable", !.tried = @ \cup {<<"ssh", "wifi", o>>}]
  ELSE IF run.via = run.prim /\ run.fb # "none" /\ Connected(run.fb)
  THEN [run EXCEPT !.via = run.fb, !.host = ssh.host, !.ssh = ssh,
                   !.tried = @ \cup {<<run.via, run.host, o>>}]
  ELSE NoRun

\* After an attempt that gave no session: the cable where the address was
\* silent, the fallback where nobody answered at all, the error otherwise.
NextDial(o) ==
  IF run.via = "ssh" /\ o = "silent" /\ run.host = "wifi"
  THEN [run EXCEPT !.host = "cable", !.tried = @ \cup {<<"ssh", "wifi", o>>}]
  ELSE IF o = "silent" /\ run.via = run.prim /\ run.fb # "none" /\ Connected(run.fb)
  THEN [run EXCEPT !.via = run.fb, !.host = ssh.host, !.ssh = ssh,
                   !.tried = @ \cup {<<run.via, run.host, o>>}]
  ELSE NoRun

\* "failed" is a connection that is made and then gives no SFTP or no index
\* of the account: it is closed again, by whoever still holds it.
Dial(o) ==
  /\ run.pc = "opening" /\ o \in Outcomes
  /\ IF o = "ready"
     THEN run' = [run EXCEPT !.pc = IF run.via = "ssh" THEN "indexing" ELSE "open",
                             !.peer = IF run.via = "ssh" THEN answersAt[run.host] ELSE Nobody]
     ELSE run' = NextDial(o)
  /\ sockets' = IF o = "ready" /\ run.via = "ssh" THEN sockets \cup {"session"} ELSE sockets
  /\ UNCHANGED <<answersAt, authorized, trusted, ssh, token, chosen, pro, pairing>>

\* An account that cannot be indexed, its connection left to itself.
IndexedLeaving(ok) ==
  /\ run.pc = "indexing"
  /\ run' = IF ok THEN [run EXCEPT !.pc = "open"] ELSE NextDial("failed")
  /\ UNCHANGED <<answersAt, authorized, trusted, ssh, token, chosen, pro, pairing, sockets>>

Indexed(ok) ==
  /\ run.pc = "indexing"
  /\ run' = IF ok THEN [run EXCEPT !.pc = "open"] ELSE NextDial("failed")
  /\ sockets' = IF ok THEN sockets ELSE sockets \ {"session"}
  /\ UNCHANGED <<answersAt, authorized, trusted, ssh, token, chosen, pro, pairing>>

CloseSession ==
  /\ run.pc = "open"
  /\ run' = NoRun
  /\ sockets' = sockets \ {"session"}
  /\ UNCHANGED <<answersAt, authorized, trusted, ssh, token, chosen, pro, pairing>>

LinkNext ==
  \/ \E h \in Hosts : Pair(h) \/ (\E t \in Tablets \cup {Nobody} : TabletMoves(h, t))
  \/ \E p \in Sources, f \in Sources \cup {"none"} : ChooseSource(p, f)
  \/ ChangeTier \/ ChangeToken
  \/ \E b \in BOOLEAN : \/ ForgetKey(b) \/ PasswordConnect(b) \/ ConfirmHostKey(b)
                        \/ OpenWifi(b) \/ Indexed(b)
                        \/ \E works \in BOOLEAN : InstallKey(b, works)
  \/ CheckKey
  \/ ClaimRun \/ OpenSource \/ CloseSession
  \/ \E o \in {"ready", "silent", "stranger", "refused", "failed"} : Dial(o)

LinkSpec == LinkInit /\ [][LinkNext]_linkVars

-----------------------------------------------------------------------------
Answering == Tablets \cup {Nobody}
Settings == [host : Hosts, key : 0 .. MaxPairings, pin : Answering]

LinkTypeOK ==
  /\ answersAt \in [Hosts -> Answering]
  /\ authorized \subseteq Tablets \X (1 .. MaxPairings)
  /\ trusted \subseteq Tablets
  /\ ssh \in Settings
  /\ token \in BOOLEAN /\ pro \in BOOLEAN
  /\ chosen \in [prim : Sources, fb : Sources \cup {"none"}]
  /\ pairing \in [pc : {"idle", "probed", "asking", "trusted", "installed", "checking"},
                  host : Hosts, peer : Answering, key : 0 .. MaxPairings, wifi : BOOLEAN]
  /\ run.pc \in {"idle", "claimed", "opening", "indexing", "open"}
  /\ run.prim \in Sources /\ run.via \in Sources /\ run.ssh \in Settings
  /\ sockets \subseteq {"pairing", "session"}

\* pairDevice, connectToDevice: whatever tablets come and go at the two
\* addresses while a pairing asks its questions and runs dial, a vault that
\* calls itself paired holds a key that its tablet accepted, and a session
\* reads from no tablet but one the user has said to trust.
OnlyTrustedTablets ==
  /\ ssh.key # 0 => ssh.pin \in trusted /\ <<ssh.pin, ssh.key>> \in authorized
  /\ "session" \in sockets => run.peer \in trusted /\ run.peer = run.ssh.pin

\* openTransportChain, SshTransport.connect: a run reads from the fallback
\* only when every address of the primary was silent; a refused key, a
\* rejected token or a changed host key is never covered up.
RefusalsSurface ==
  run.pc \in {"indexing", "open"} /\ run.via # run.prim =>
    /\ \A d \in run.tried : d[3] = "silent"
    /\ run.prim = "ssh" => <<"ssh", "cable", "silent">> \in run.tried
    /\ run.prim = "cloud" => \E d \in run.tried : d[1] = "cloud"

\* connect, open, installKey: on no path, refusals and failures between two
\* steps included, is a connection left open that nobody holds any more.
NoSocketLeft ==
  /\ "pairing" \in sockets => pairing.pc \in {"asking", "trusted", "installed"}
  /\ "session" \in sockets => run.pc \in {"indexing", "open"} /\ run.via = "ssh"
\* Nothing is read but from a tablet the user trusts, and what a tablet refuses is not covered up.
TrustIsKept == OnlyTrustedTablets /\ RefusalsSurface
=============================================================================
