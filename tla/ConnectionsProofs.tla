-------------------------- MODULE ConnectionsProofs -------------------------
(***************************************************************************)
(* What the connection to a tablet, the reading of its files, the stored   *)
(* settings and the client of Zotero guarantee, for all values of their    *)
(* constants.                                                              *)
(***************************************************************************)
EXTENDS DeviceLink, DeviceFiles, StoredSettings, ZoteroClient, FiniteSetTheorems, SequenceTheorems, TLAPS

-----------------------------------------------------------------------------
(***************************************************************************)
(* Whom the plugin reads from, for any tablets that come and go and any    *)
(* number of pairings: nobody the user has not said to trust, over no      *)
(* refusal, and with no connection left behind.                            *)
(***************************************************************************)

DialResults == {"ready", "silent", "stranger", "refused", "failed"}

\* LinkTypeOK leaves out what a run has tried.
RunType == [pc : {"idle", "claimed", "opening", "indexing", "open"}, prim : Sources, fb : Sources \cup {"none"},
            via : Sources, host : Hosts, ssh : Settings, peer : Answering,
            tried : SUBSET (Sources \X Hosts \X DialResults)]

LinkTyped == LinkTypeOK /\ run \in RunType

\* A number is the newest key's when no accepted key has a higher one, and one has it.
Newest(n) == (\A a \in authorized : a[2] <= n) /\ (n = 0 \/ \E a \in authorized : a[2] = n)

KeysCounted ==
  /\ \E n \in 0 .. MaxPairings : Newest(n)
  /\ pairing.pc \in {"probed", "asking", "trusted"} => NewKey <= MaxPairings

\* The tablet a pairing talks to is one the user confirmed from "trusted" on; a key that is kept, in the settings
\* or by a run that has read them, is one that tablet accepted.
TrustGrows ==
  /\ pairing.pc \in {"asking", "trusted", "installed", "checking"} => pairing.peer \in Tablets
  /\ pairing.pc \in {"trusted", "installed", "checking"} => pairing.peer \in trusted
  /\ \A s \in {ssh, run.ssh} : s.key # 0 => s.pin \in trusted /\ <<s.pin, s.key>> \in authorized
  /\ "session" \in sockets => run.peer \in trusted /\ run.peer = run.ssh.pin

\* What a run has behind it once it has left its primary source.
DialsOn(r) ==
  /\ \A d \in r.tried : d[3] = "silent"
  /\ r.via # r.prim => /\ r.prim = "ssh" => <<"ssh", "cable", "silent">> \in r.tried
                       /\ r.prim = "cloud" => \E d \in r.tried : d[1] = "cloud"

LinkInvariant == LinkTyped /\ KeysCounted /\ TrustGrows /\ DialsOn(run) /\ NoSocketLeft

-----------------------------------------------------------------------------
LEMMA NewestIsOne == ASSUME LinkTyped, \E n \in 0 .. MaxPairings : Newest(n)
                     PROVE  /\ NewKey - 1 \in 0 .. MaxPairings /\ NewKey \in 1 .. MaxPairings + 1
                            /\ Newest(NewKey - 1)
<1>1. PICK n \in 0 .. MaxPairings : Newest(n)
  OBVIOUS
<1> DEFINE m == CHOOSE x \in 0 .. MaxPairings : (\A a \in authorized : a[2] <= x) /\ (x = 0 \/ \E a \in authorized : a[2] = x)
<1>2. m \in 0 .. MaxPairings /\ (\A a \in authorized : a[2] <= m) /\ (m = 0 \/ \E a \in authorized : a[2] = m)
  BY <1>1 DEF Newest
<1>3. NewKey = 1 + m
  BY DEF NewKey
<1> HIDE DEF m
<1> QED BY <1>2, <1>3, DeviceLinkAssumption DEF Newest

LEMMA Allowed == ASSUME LinkTyped PROVE Primary \in Sources /\ Fallback \in Sources \cup {"none"}
  BY DEF LinkTyped, LinkTypeOK, Primary, Fallback, AllowedTransports, Sources

LEMMA NextDialIsFair == ASSUME LinkInvariant, NEW o \in DialResults
                        PROVE  /\ NextDial(o) \in RunType /\ NextDial(o).ssh \in {ssh, run.ssh, Unpaired}
                               /\ DialsOn(NextDial(o))
                               /\ NextDial(o).pc \in {run.pc, "idle"} /\ (o # "silent" => NextDial(o) = NoRun)
<1>1. NoRun \in RunType /\ DialsOn(NoRun) /\ NoRun.ssh = Unpaired /\ NoRun.pc = "idle"
  BY DeviceLinkAssumption DEF NoRun, RunType, Unpaired, Settings, Sources, Hosts, Answering, DialsOn
<1>2. ssh \in Settings /\ ssh.host \in Hosts /\ run \in RunType
  BY DEF LinkInvariant, LinkTyped, LinkTypeOK, Settings
<1>3. CASE run.via = "ssh" /\ o = "silent" /\ run.host = "wifi"
  <2> DEFINE r == [run EXCEPT !.host = "cable", !.tried = @ \cup {<<"ssh", "wifi", o>>}]
  <2>1. NextDial(o) = r
    BY <1>3 DEF NextDial
  <2>2. /\ r \in RunType /\ r.ssh = run.ssh /\ r.pc = run.pc /\ r.via = run.via /\ r.prim = run.prim
        /\ r.tried = run.tried \cup {<<"ssh", "wifi", o>>}
    <3>1. <<"ssh", "wifi", o>> \in Sources \X Hosts \X DialResults /\ "cable" \in Hosts
      BY DEF Sources, Hosts
    <3> DEFINE d == <<"ssh", "wifi", o>>
    <3> HIDE DEF d
    <3>2. run.tried \cup {d} \in SUBSET (Sources \X Hosts \X DialResults)
      BY <1>2, <3>1 DEF RunType, d
    <3>3. r = [run EXCEPT !.host = "cable", !.tried = run.tried \cup {d}]
      BY DEF d
    <3> HIDE DEF r
    <3> QED BY <1>2, <3>1, <3>2, <3>3 DEF RunType, d
  <2>3. DialsOn(r)
    BY <1>3, <2>2 DEF DialsOn, LinkInvariant
  <2> QED BY <1>3, <2>1, <2>2, <2>3
<1>4. CASE /\ ~(run.via = "ssh" /\ o = "silent" /\ run.host = "wifi")
           /\ o = "silent" /\ run.via = run.prim /\ run.fb # "none" /\ Connected(run.fb)
  <2> DEFINE r == [run EXCEPT !.via = run.fb, !.host = ssh.host, !.ssh = ssh,
                              !.tried = @ \cup {<<run.via, run.host, o>>}]
  <2>1. NextDial(o) = r
    BY <1>4, Zenon DEF NextDial
  <2>2. /\ r \in RunType /\ r.ssh = ssh /\ r.pc = run.pc /\ r.prim = run.prim
        /\ r.tried = run.tried \cup {<<run.via, run.host, o>>}
    <3> DEFINE d == <<run.via, run.host, o>>
    <3>1. d \in Sources \X Hosts \X DialResults /\ run.fb \in Sources
      BY <1>2, <1>4 DEF RunType
    <3> HIDE DEF d
    <3>2. run.tried \cup {d} \in SUBSET (Sources \X Hosts \X DialResults)
      BY <1>2, <3>1 DEF RunType
    <3>3. r = [run EXCEPT !.via = run.fb, !.host = ssh.host, !.ssh = ssh, !.tried = run.tried \cup {d}]
      BY DEF d
    <3> HIDE DEF r
    <3> QED BY <1>2, <3>1, <3>2, <3>3 DEF RunType, d
  <2>3. DialsOn(r)
    <3>1. run.prim = "ssh" => <<run.via, run.host, o>> = <<"ssh", "cable", "silent">>
      BY <1>2, <1>4 DEF RunType, Hosts
    <3>2. run.prim = "cloud" => <<run.via, run.host, o>>[1] = "cloud"
      BY <1>4
    <3>3. <<run.via, run.host, o>>[3] = "silent"
      BY <1>4
    <3> HIDE DEF r
    <3> QED BY <2>2, <3>1, <3>2, <3>3 DEF DialsOn, LinkInvariant
  <2> QED BY <1>4, <2>1, <2>2, <2>3
<1>5. CASE /\ ~(run.via = "ssh" /\ o = "silent" /\ run.host = "wifi")
           /\ ~(o = "silent" /\ run.via = run.prim /\ run.fb # "none" /\ Connected(run.fb))
  <2>1. NextDial(o) = NoRun
    BY <1>5, Zenon DEF NextDial
  <2> QED BY <1>1, <2>1
<1> QED BY <1>3, <1>4, <1>5

-----------------------------------------------------------------------------
LEMMA LinkStarts == ASSUME LinkInit PROVE LinkInvariant
<1>1. LinkTyped
  BY DeviceLinkAssumption DEF LinkInit, LinkTyped, LinkTypeOK, RunType, NoRun, NoPairing, Unpaired, Settings, Sources, Hosts, Answering
<1>2. KeysCounted
  BY DeviceLinkAssumption DEF LinkInit, KeysCounted, Newest, NoPairing
<1>3. TrustGrows /\ DialsOn(run) /\ NoSocketLeft
  BY DEF LinkInit, TrustGrows, DialsOn, NoSocketLeft, NoPairing, NoRun, Unpaired
<1> QED BY <1>1, <1>2, <1>3 DEF LinkInvariant

\* As long as no tablet accepts another key, the newest is the same.
LEMMA KeysStay == ASSUME KeysCounted, authorized' = authorized,
                         pairing'.pc \in {"probed", "asking", "trusted"} =>
                            pairing.pc \in {"probed", "asking", "trusted"} \/ NewKey <= MaxPairings
                  PROVE  KeysCounted'
  BY DEF KeysCounted, Newest, NewKey

\* What the tablets, the user and the licence do between the steps.
LEMMA OutsideKeeps == ASSUME LinkInvariant,
                             \/ \E h \in Hosts, t \in Tablets \cup {Nobody} : TabletMoves(h, t)
                             \/ \E p \in Sources, f \in Sources \cup {"none"} : ChooseSource(p, f)
                             \/ ChangeTier \/ ChangeToken \/ \E b \in BOOLEAN : ForgetKey(b)
                      PROVE  LinkInvariant'
<1>1. UNCHANGED <<authorized, trusted, pairing, run, sockets>>
  BY DEF TabletMoves, ChooseSource, ChangeTier, ChangeToken, ForgetKey
<1>2. ssh' = ssh \/ (ssh' \in Settings /\ ssh'.key = 0)
  BY DeviceLinkAssumption DEF TabletMoves, ChooseSource, ChangeTier, ChangeToken, ForgetKey, Unpaired, Settings, Hosts, Answering,
     LinkInvariant, LinkTyped, LinkTypeOK
<1>3. /\ answersAt' \in [Hosts -> Answering] /\ token' \in BOOLEAN /\ pro' \in BOOLEAN
      /\ chosen' \in [prim : Sources, fb : Sources \cup {"none"}]
  <2>1. answersAt' \in [Hosts -> Answering]
    BY DEF TabletMoves, ChooseSource, ChangeTier, ChangeToken, ForgetKey, Answering, LinkInvariant, LinkTyped, LinkTypeOK
  <2>2. token' \in BOOLEAN /\ pro' \in BOOLEAN
    BY DEF TabletMoves, ChooseSource, ChangeTier, ChangeToken, ForgetKey, LinkInvariant, LinkTyped, LinkTypeOK
  <2>3. ASSUME NEW p \in Sources, NEW f \in Sources \cup {"none"}, ChooseSource(p, f)
        PROVE  chosen' \in [prim : Sources, fb : Sources \cup {"none"}]
    BY <2>3 DEF ChooseSource
  <2>4. chosen \in [prim : Sources, fb : Sources \cup {"none"}]
    BY DEF LinkInvariant, LinkTyped, LinkTypeOK
  <2>5. chosen' \in [prim : Sources, fb : Sources \cup {"none"}]
    BY <2>3, <2>4 DEF TabletMoves, ChangeTier, ChangeToken, ForgetKey
  <2> QED BY <2>1, <2>2, <2>5
<1>4. LinkTyped'
  BY <1>1, <1>2, <1>3 DEF LinkInvariant, LinkTyped, LinkTypeOK
<1>5. KeysCounted'
  BY <1>1, KeysStay DEF LinkInvariant
<1>6. TrustGrows' /\ DialsOn(run)' /\ NoSocketLeft'
  BY <1>1, <1>2 DEF LinkInvariant, TrustGrows, DialsOn, NoSocketLeft
<1> QED BY <1>4, <1>5, <1>6 DEF LinkInvariant

\* A step of the pairing that makes and keeps no key.
LEMMA PairingStays == ASSUME LinkInvariant, UNCHANGED <<answersAt, authorized, ssh, token, chosen, pro, run>>,
                             trusted \subseteq trusted', trusted' \subseteq Tablets,
                             pairing' \in [pc : {"idle", "probed", "asking", "trusted", "installed", "checking"},
                                           host : Hosts, peer : Answering, key : 0 .. MaxPairings, wifi : BOOLEAN],
                             pairing'.pc \in {"probed", "asking", "trusted"} =>
                                pairing.pc \in {"probed", "asking", "trusted"} \/ NewKey <= MaxPairings,
                             pairing'.pc \in {"asking", "trusted", "installed", "checking"} => pairing'.peer \in Tablets,
                             pairing'.pc \in {"trusted", "installed", "checking"} => pairing'.peer \in trusted',
                             sockets' \subseteq {"pairing", "session"},
                             "pairing" \in sockets' => pairing'.pc \in {"asking", "trusted", "installed"},
                             "session" \in sockets' => "session" \in sockets
                      PROVE  LinkInvariant'
<1>1. LinkTyped'
  BY DEF LinkInvariant, LinkTyped, LinkTypeOK
<1>2. KeysCounted'
  BY KeysStay DEF LinkInvariant
<1>3. TrustGrows' /\ DialsOn(run)' /\ NoSocketLeft'
  BY DEF LinkInvariant, TrustGrows, DialsOn, NoSocketLeft
<1> QED BY <1>1, <1>2, <1>3 DEF LinkInvariant

LEMMA PairingKeeps == ASSUME LinkInvariant,
                             \/ \E h \in Hosts : Pair(h)
                             \/ \E b \in BOOLEAN : PasswordConnect(b) \/ ConfirmHostKey(b) \/ OpenWifi(b)
                      PROVE  LinkInvariant'
<1> DEFINE PairingType == [pc : {"idle", "probed", "asking", "trusted", "installed", "checking"},
                           host : Hosts, peer : Answering, key : 0 .. MaxPairings, wifi : BOOLEAN]
<1>1. /\ pairing \in PairingType /\ trusted \subseteq Tablets /\ sockets \subseteq {"pairing", "session"}
      /\ answersAt \in [Hosts -> Answering] /\ TrustGrows /\ NoSocketLeft
  BY DEF LinkInvariant, LinkTyped, LinkTypeOK
<1>2. NoPairing \in PairingType /\ NoPairing.pc = "idle"
  BY DeviceLinkAssumption DEF NoPairing, Hosts, Answering
<1>3. ASSUME EndPairing, UNCHANGED <<answersAt, authorized, ssh, token, chosen, pro, run, trusted>> PROVE LinkInvariant'
  <2>1. pairing' = NoPairing /\ sockets' = sockets \ {"pairing"}
    BY <1>3 DEF EndPairing
  <2> QED BY <1>1, <1>2, <1>3, <2>1, PairingStays
<1>4. ASSUME NEW h \in Hosts, Pair(h) PROVE LinkInvariant'
  <2> DEFINE host == IF answersAt[h] # Nobody THEN h ELSE "cable"
  <2>1. /\ pairing.pc = "idle" /\ NewKey <= MaxPairings /\ pairing' = [pairing EXCEPT !.pc = "probed", !.host = host]
        /\ UNCHANGED <<answersAt, authorized, trusted, ssh, token, chosen, pro, run, sockets>>
    BY <1>4 DEF Pair
  <2>2. host \in Hosts
    BY DEF Hosts
  <2> HIDE DEF host
  <2>3. pairing' \in PairingType /\ pairing'.pc = "probed"
    BY <1>1, <2>1, <2>2
  <2>4. "pairing" \notin sockets
    BY <1>1, <2>1 DEF NoSocketLeft
  <2> QED BY <1>1, <2>1, <2>3, <2>4, PairingStays
<1>5. ASSUME NEW b \in BOOLEAN, PasswordConnect(b) PROVE LinkInvariant'
  <2>1. pairing.pc = "probed" /\ UNCHANGED <<answersAt, authorized, trusted, ssh, token, chosen, pro, run>>
    BY <1>5 DEF PasswordConnect
  <2>2. CASE b /\ answersAt[pairing.host] # Nobody
    <3>1. /\ pairing' = [pairing EXCEPT !.pc = "asking", !.peer = answersAt[pairing.host]]
          /\ sockets' = sockets \cup {"pairing"}
      BY <1>5, <2>2 DEF PasswordConnect
    <3>2. answersAt[pairing.host] \in Tablets
      BY <1>1, <2>2 DEF Answering
    <3>3. pairing' \in PairingType /\ pairing'.pc = "asking" /\ pairing'.peer \in Tablets
      BY <1>1, <3>1, <3>2 DEF Answering
    <3> QED BY <1>1, <2>1, <3>1, <3>3, PairingStays
  <2>3. CASE ~(b /\ answersAt[pairing.host] # Nobody)
    BY <1>3, <1>5, <2>1, <2>3 DEF PasswordConnect
  <2> QED BY <2>2, <2>3
<1>6. ASSUME NEW b \in BOOLEAN, ConfirmHostKey(b) PROVE LinkInvariant'
  <2>1. pairing.pc = "asking" /\ UNCHANGED <<answersAt, authorized, ssh, token, chosen, pro, run>> /\ pairing.peer \in Tablets
    BY <1>1, <1>6 DEF ConfirmHostKey, TrustGrows
  <2>2. CASE b
    <3>1. trusted' = trusted \cup {pairing.peer} /\ pairing' = [pairing EXCEPT !.pc = "trusted"] /\ sockets' = sockets
      BY <1>6, <2>2 DEF ConfirmHostKey
    <3>2. pairing' \in PairingType /\ pairing'.pc = "trusted" /\ pairing'.peer = pairing.peer
      BY <1>1, <3>1
    <3> QED BY <1>1, <2>1, <3>1, <3>2, PairingStays
  <2>3. CASE ~b
    BY <1>3, <1>6, <2>1, <2>3 DEF ConfirmHostKey
  <2> QED BY <2>2, <2>3
<1>7. ASSUME NEW b \in BOOLEAN, OpenWifi(b) PROVE LinkInvariant'
  <2>1. /\ pairing.pc = "installed" /\ UNCHANGED <<answersAt, authorized, trusted, ssh, token, chosen, pro, run>>
        /\ pairing' = [pairing EXCEPT !.pc = "checking", !.wifi = b] /\ sockets' = sockets \ {"pairing"}
    BY <1>7 DEF OpenWifi
  <2>2. pairing' \in PairingType /\ pairing'.pc = "checking" /\ pairing'.peer = pairing.peer
    BY <1>1, <2>1
  <2>3. pairing.peer \in Tablets /\ pairing.peer \in trusted
    BY <1>1, <2>1 DEF TrustGrows
  <2> QED BY <1>1, <2>1, <2>2, <2>3, PairingStays
<1> QED BY <1>4, <1>5, <1>6, <1>7

LEMMA InstallKeeps == ASSUME LinkInvariant, NEW b \in BOOLEAN, NEW works \in BOOLEAN, InstallKey(b, works) PROVE LinkInvariant'
<1>1. /\ pairing.pc = "trusted" /\ UNCHANGED <<answersAt, trusted, ssh, token, chosen, pro, run>>
      /\ pairing.peer \in Tablets /\ pairing.peer \in trusted
  BY DEF InstallKey, LinkInvariant, TrustGrows
<1>2. NewKey \in 1 .. MaxPairings /\ Newest(NewKey - 1)
  BY <1>1, NewestIsOne, DeviceLinkAssumption DEF LinkInvariant, KeysCounted
<1>3. CASE b
  <2>1. /\ pairing' = [pairing EXCEPT !.pc = "installed", !.key = NewKey] /\ sockets' = sockets
        /\ authorized' = authorized \cup (IF works THEN {<<pairing.peer, NewKey>>} ELSE {})
    BY <1>3 DEF InstallKey
  <2>2. /\ pairing' \in [pc : {"idle", "probed", "asking", "trusted", "installed", "checking"},
                         host : Hosts, peer : Answering, key : 0 .. MaxPairings, wifi : BOOLEAN]
        /\ pairing'.pc = "installed" /\ pairing'.peer = pairing.peer
    <3>1. NewKey \in 0 .. MaxPairings
      BY <1>2, DeviceLinkAssumption
    <3> DEFINE k == NewKey
    <3>2. k \in 0 .. MaxPairings /\ pairing' = [pairing EXCEPT !.pc = "installed", !.key = k]
      BY <2>1, <3>1
    <3> HIDE DEF k
    <3> QED BY <3>2 DEF LinkInvariant, LinkTyped, LinkTypeOK
  <2>3. authorized' \subseteq Tablets \X (1 .. MaxPairings) /\ authorized \subseteq authorized'
    BY <1>1, <1>2, <2>1 DEF LinkInvariant, LinkTyped, LinkTypeOK
  <2>4. LinkTyped'
    BY <1>1, <2>1, <2>2, <2>3 DEF LinkInvariant, LinkTyped, LinkTypeOK
  <2>5. KeysCounted'
    <3>1. CASE works
      <4>1. \A a \in authorized' : a \in authorized \/ a = <<pairing.peer, NewKey>>
        BY <2>1, <3>1
      <4>2. <<pairing.peer, NewKey>> \in authorized'
        BY <2>1, <3>1
      <4>3. \A a \in authorized : a[2] \in 1 .. MaxPairings /\ a[2] <= NewKey - 1
        BY <1>2 DEF Newest, LinkInvariant, LinkTyped, LinkTypeOK
      <4>4. (\A a \in authorized' : a[2] <= NewKey) /\ (\E a \in authorized' : a[2] = NewKey)
        BY <1>2, <4>1, <4>2, <4>3, DeviceLinkAssumption
      <4> DEFINE n == NewKey
      <4>5. n \in 0 .. MaxPairings /\ (\A a \in authorized' : a[2] <= n) /\ (\E a \in authorized' : a[2] = n)
        BY <1>2, <4>4, DeviceLinkAssumption
      <4> HIDE DEF n
      <4> QED BY <2>2, <4>5 DEF KeysCounted, Newest
    <3>2. CASE ~works
      BY <2>1, <2>2, <3>2, KeysStay DEF LinkInvariant
    <3> QED BY <3>1, <3>2
  <2>6. TrustGrows' /\ DialsOn(run)' /\ NoSocketLeft'
    BY <1>1, <2>1, <2>2, <2>3 DEF LinkInvariant, TrustGrows, DialsOn, NoSocketLeft
  <2> QED BY <2>4, <2>5, <2>6 DEF LinkInvariant
<1>4. CASE ~b
  <2>1. pairing' = NoPairing /\ sockets' = sockets \ {"pairing"} /\ authorized' = authorized
    BY <1>4 DEF InstallKey, EndPairing
  <2>2. /\ NoPairing.pc = "idle"
        /\ NoPairing \in [pc : {"idle", "probed", "asking", "trusted", "installed", "checking"},
                          host : Hosts, peer : Answering, key : 0 .. MaxPairings, wifi : BOOLEAN]
    BY DeviceLinkAssumption DEF NoPairing, Hosts, Answering
  <2> QED BY <1>1, <2>1, <2>2, PairingStays DEF LinkInvariant, LinkTyped, LinkTypeOK, NoSocketLeft
<1> QED BY <1>3, <1>4

\* Only a key the tablet accepts, at the address it was paired at, is kept.
LEMMA CheckKeeps == ASSUME LinkInvariant, CheckKey PROVE LinkInvariant'
<1>1. /\ pairing.pc = "checking" /\ UNCHANGED <<answersAt, authorized, trusted, token, chosen, pro, run, sockets>>
      /\ pairing' = NoPairing /\ pairing.peer \in trusted /\ pairing.peer \in Tablets
  BY DEF CheckKey, LinkInvariant, TrustGrows
<1>2. /\ NoPairing.pc = "idle"
      /\ NoPairing \in [pc : {"idle", "probed", "asking", "trusted", "installed", "checking"},
                        host : Hosts, peer : Answering, key : 0 .. MaxPairings, wifi : BOOLEAN]
  BY DeviceLinkAssumption DEF NoPairing, Hosts, Answering
<1>3. ssh' \in Settings /\ (ssh'.key # 0 => ssh'.pin \in trusted /\ <<ssh'.pin, ssh'.key>> \in authorized)
  <2>1. CASE answersAt[pairing.host] = pairing.peer /\ <<pairing.peer, pairing.key>> \in authorized
    <3>1. ssh' = [host |-> IF pairing.wifi THEN "wifi" ELSE pairing.host, key |-> pairing.key, pin |-> pairing.peer]
      BY <2>1 DEF CheckKey
    <3> QED BY <1>1, <2>1, <3>1 DEF Settings, Hosts, Answering, LinkInvariant, LinkTyped, LinkTypeOK
  <2>2. CASE ~(answersAt[pairing.host] = pairing.peer /\ <<pairing.peer, pairing.key>> \in authorized)
    BY <2>2 DEF CheckKey, LinkInvariant, LinkTyped, LinkTypeOK, TrustGrows
  <2> QED BY <2>1, <2>2
<1>4. LinkTyped'
  BY <1>1, <1>2, <1>3 DEF LinkInvariant, LinkTyped, LinkTypeOK
<1>5. KeysCounted'
  BY <1>1, <1>2, KeysStay DEF LinkInvariant
<1>6. TrustGrows' /\ DialsOn(run)' /\ NoSocketLeft'
  BY <1>1, <1>2, <1>3 DEF LinkInvariant, TrustGrows, DialsOn, NoSocketLeft
<1> QED BY <1>4, <1>5, <1>6 DEF LinkInvariant

-----------------------------------------------------------------------------
\* A step of a run: what it is about to read it may read, and what it holds it holds openly.
LEMMA RunStays == ASSUME LinkInvariant, UNCHANGED <<answersAt, authorized, trusted, ssh, token, chosen, pro, pairing>>,
                         run' \in RunType, run'.ssh \in {ssh, run.ssh, Unpaired}, DialsOn(run'),
                         sockets' \subseteq {"pairing", "session"}, "pairing" \in sockets' => "pairing" \in sockets,
                         "session" \in sockets' => /\ run'.peer \in trusted /\ run'.peer = run'.ssh.pin
                                                   /\ run'.pc \in {"indexing", "open"} /\ run'.via = "ssh"
                  PROVE  LinkInvariant'
<1>1. LinkTyped'
  <2>1. /\ run'.pc \in {"idle", "claimed", "opening", "indexing", "open"}
        /\ run'.prim \in Sources /\ run'.via \in Sources /\ run'.ssh \in Settings
    BY DEF RunType
  <2> QED BY <2>1 DEF LinkInvariant, LinkTyped, LinkTypeOK
<1>2. KeysCounted'
  BY KeysStay DEF LinkInvariant
<1>3. TrustGrows'
  BY DEF LinkInvariant, TrustGrows, Unpaired
<1>4. NoSocketLeft' /\ DialsOn(run)'
  BY DEF LinkInvariant, NoSocketLeft, DialsOn
<1> QED BY <1>1, <1>2, <1>3, <1>4 DEF LinkInvariant

LEMMA NoRunTyped == /\ NoRun \in RunType /\ DialsOn(NoRun) /\ NoRun.ssh = Unpaired /\ NoRun.pc = "idle"
                    /\ [NoRun EXCEPT !.pc = "claimed"] \in RunType /\ DialsOn([NoRun EXCEPT !.pc = "claimed"])
                    /\ [NoRun EXCEPT !.pc = "claimed"].ssh = Unpaired /\ [NoRun EXCEPT !.pc = "claimed"].pc = "claimed"
  BY DeviceLinkAssumption DEF NoRun, RunType, Unpaired, Settings, Sources, Hosts, Answering, DialsOn

LEMMA OpenKeeps == ASSUME LinkInvariant, ClaimRun \/ OpenSource \/ CloseSession PROVE LinkInvariant'
<1>0. run \in RunType /\ ssh \in Settings /\ sockets \subseteq {"pairing", "session"}
  BY DEF LinkInvariant, LinkTyped, LinkTypeOK
<1>1. CASE ClaimRun
  <2>1. /\ run.pc = "idle" /\ run' = [NoRun EXCEPT !.pc = "claimed"]
        /\ UNCHANGED <<answersAt, authorized, trusted, ssh, token, chosen, pro, pairing, sockets>>
    BY <1>1 DEF ClaimRun
  <2>2. "session" \notin sockets'
    BY <2>1 DEF LinkInvariant, NoSocketLeft
  <2> QED BY <1>0, <2>1, <2>2, NoRunTyped, RunStays
<1>2. CASE OpenSource
  <2>1. /\ run.pc = "claimed"
        /\ run' = [run EXCEPT !.pc = "opening", !.prim = Primary, !.fb = Fallback, !.via = Primary,
                              !.host = ssh.host, !.ssh = ssh]
        /\ UNCHANGED <<answersAt, authorized, trusted, ssh, token, chosen, pro, pairing, sockets>>
    BY <1>2 DEF OpenSource
  <2> DEFINE pr == Primary
             fb == Fallback
  <2>2. pr \in Sources /\ fb \in Sources \cup {"none"} /\ ssh.host \in Hosts
        /\ run' = [run EXCEPT !.pc = "opening", !.prim = pr, !.fb = fb, !.via = pr, !.host = ssh.host, !.ssh = ssh]
    BY <1>0, <2>1, Allowed DEF LinkInvariant, Settings
  <2> HIDE DEF pr, fb
  <2>3. run' \in RunType /\ run'.ssh = ssh /\ run'.via = run'.prim /\ run'.tried = run.tried
    BY <1>0, <2>2 DEF RunType
  <2>4. DialsOn(run')
    BY <2>3 DEF LinkInvariant, DialsOn
  <2>5. "session" \notin sockets'
    BY <2>1 DEF LinkInvariant, NoSocketLeft
  <2> QED BY <1>0, <2>1, <2>3, <2>4, <2>5, RunStays
<1>3. CASE CloseSession
  <2>1. /\ run' = NoRun /\ sockets' = sockets \ {"session"}
        /\ UNCHANGED <<answersAt, authorized, trusted, ssh, token, chosen, pro, pairing>>
    BY <1>3 DEF CloseSession
  <2> QED BY <1>0, <2>1, NoRunTyped, RunStays
<1> QED BY <1>1, <1>2, <1>3

\* A session is opened to the tablet whose host key is pinned, after it has accepted the key that goes with the pin.
LEMMA DialKeeps == ASSUME LinkInvariant, NEW o \in DialResults, Dial(o) PROVE LinkInvariant'
<1>0. /\ run \in RunType /\ run.ssh \in Settings /\ sockets \subseteq {"pairing", "session"}
      /\ run.pc = "opening" /\ o \in Outcomes /\ "session" \notin sockets
      /\ UNCHANGED <<answersAt, authorized, trusted, ssh, token, chosen, pro, pairing>>
      /\ sockets' = IF o = "ready" /\ run.via = "ssh" THEN sockets \cup {"session"} ELSE sockets
  BY DEF LinkInvariant, LinkTyped, LinkTypeOK, NoSocketLeft, Dial
<1>1. CASE o # "ready"
  <2>1. run' = NextDial(o) /\ sockets' = sockets
    BY <1>0, <1>1 DEF Dial
  <2> QED BY <1>0, <2>1, NextDialIsFair, RunStays
<1>2. CASE o = "ready" /\ run.via = "ssh"
  <2> DEFINE t == answersAt[run.host]
  <2>1. run' = [run EXCEPT !.pc = "indexing", !.peer = t] /\ sockets' = sockets \cup {"session"}
    BY <1>0, <1>2 DEF Dial
  <2>2. t # Nobody /\ run.ssh.pin \in {Nobody, t} /\ <<t, run.ssh.key>> \in authorized
    BY <1>0, <1>2 DEF Outcomes, Handshakes
  <2>3. t \in Answering
    BY <1>0 DEF LinkInvariant, LinkTyped, LinkTypeOK, RunType
  <2>4. run.ssh.key # 0
    BY <2>2, DeviceLinkAssumption DEF LinkInvariant, LinkTyped, LinkTypeOK
  <2>5. run.ssh.pin \in trusted /\ trusted \subseteq Tablets
    BY <2>4 DEF LinkInvariant, TrustGrows, LinkTyped, LinkTypeOK
  <2>6. run.ssh.pin = t
    BY <2>2, <2>5, DeviceLinkAssumption
  <2> HIDE DEF t
  <2>7. /\ run' \in RunType /\ run'.ssh = run.ssh /\ run'.pc = "indexing" /\ run'.peer = t
        /\ run'.via = run.via /\ run'.prim = run.prim /\ run'.tried = run.tried
    BY <1>0, <2>1, <2>3 DEF RunType
  <2>8. DialsOn(run')
    BY <2>7 DEF LinkInvariant, DialsOn
  <2> QED BY <1>0, <1>2, <2>1, <2>5, <2>6, <2>7, <2>8, RunStays
<1>3. CASE o = "ready" /\ run.via # "ssh"
  <2>1. run' = [run EXCEPT !.pc = "open", !.peer = Nobody] /\ sockets' = sockets
    BY <1>0, <1>3 DEF Dial
  <2>2. /\ run' \in RunType /\ run'.ssh = run.ssh
        /\ run'.via = run.via /\ run'.prim = run.prim /\ run'.tried = run.tried
    BY <1>0, <2>1 DEF RunType, Answering
  <2>3. DialsOn(run')
    BY <2>2 DEF LinkInvariant, DialsOn
  <2> QED BY <1>0, <2>1, <2>2, <2>3, RunStays
<1> QED BY <1>1, <1>2, <1>3

LEMMA IndexedKeeps == ASSUME LinkInvariant, NEW ok \in BOOLEAN, Indexed(ok) PROVE LinkInvariant'
<1>0. /\ run \in RunType /\ sockets \subseteq {"pairing", "session"} /\ run.pc = "indexing"
      /\ UNCHANGED <<answersAt, authorized, trusted, ssh, token, chosen, pro, pairing>>
  BY DEF LinkInvariant, LinkTyped, LinkTypeOK, Indexed
<1>1. CASE ok
  <2>1. run' = [run EXCEPT !.pc = "open"] /\ sockets' = sockets
    BY <1>1 DEF Indexed
  <2>2. /\ run' \in RunType /\ run'.ssh = run.ssh /\ run'.pc = "open" /\ run'.peer = run.peer
        /\ run'.via = run.via /\ run'.prim = run.prim /\ run'.tried = run.tried
    BY <1>0, <2>1 DEF RunType
  <2>3. DialsOn(run')
    BY <2>2 DEF LinkInvariant, DialsOn
  <2> QED BY <1>0, <2>1, <2>2, <2>3, RunStays DEF LinkInvariant, TrustGrows, NoSocketLeft
<1>2. CASE ~ok
  <2>1. run' = NextDial("failed") /\ sockets' = sockets \ {"session"}
    BY <1>2 DEF Indexed
  <2>2. "failed" \in DialResults
    BY DEF DialResults
  <2> QED BY <1>0, <2>1, <2>2, NextDialIsFair, RunStays
<1> QED BY <1>1, <1>2

\* pairDevice, openTransportChain, SshTransport.connect: at every point of a pairing, a dial and a session the record
\* that is used is one the user confirmed, and every connection is held by the one step that closes it.
THEOREM LinkInvariance == LinkSpec => []LinkInvariant
<1>1. LinkInvariant /\ [LinkNext]_linkVars => LinkInvariant'
  <2> SUFFICES ASSUME LinkInvariant, [LinkNext]_linkVars PROVE LinkInvariant'
    OBVIOUS
  <2>1. CASE UNCHANGED linkVars
    BY <2>1 DEF linkVars, LinkInvariant, LinkTyped, LinkTypeOK, KeysCounted, Newest, NewKey, TrustGrows, DialsOn, NoSocketLeft
  <2>2. CASE LinkNext
    BY <2>2, OutsideKeeps, PairingKeeps, InstallKeeps, CheckKeeps, OpenKeeps, DialKeeps, IndexedKeeps DEF LinkNext, DialResults
  <2> QED BY <2>1, <2>2
<1> QED BY <1>1, LinkStarts, PTL DEF LinkSpec

\* pairDevice, SshTransport.connect, openTransportChain: whichever tablets answer at the two addresses while a
\* pairing asks and a run dials, a session reads only from a tablet the user has confirmed, with a key it accepted,
\* and no refusal of the primary source is covered up by the fallback.
THEOREM TrustIsAlwaysKept == LinkSpec => []TrustIsKept
<1>1. LinkInvariant => TrustIsKept
  <2> SUFFICES ASSUME LinkInvariant PROVE TrustIsKept
    OBVIOUS
  <2>1. OnlyTrustedTablets
    BY DEF LinkInvariant, TrustGrows, OnlyTrustedTablets
  <2>2. RefusalsSurface
    BY DEF LinkInvariant, DialsOn, RefusalsSurface
  <2> QED BY <2>1, <2>2 DEF TrustIsKept
<1> QED BY <1>1, LinkInvariance, PTL

\* connect, open, installKey: no connection is left open that nobody holds any more.
THEOREM NoConnectionIsLeft == LinkSpec => []NoSocketLeft
  BY LinkInvariance, PTL DEF LinkInvariant

-----------------------------------------------------------------------------
(***************************************************************************)
(* Reading a tablet that keeps writing, for every set of documents, every  *)
(* content and every clock: what the cache remembers is true, and a note   *)
(* is rendered from what its row says it was rendered from.                *)
(***************************************************************************)

\* Hashing the files a session does not know, and what this computer's clock is ahead of the tablet's, take less
\* than the freshness window.
HashedInTime == HashSeconds + Skew < Window

\* No entry is of this second, and one that fits its file is right.
Believed(S) ==
    \A e \in S : e.mtime < now /\ (bytes[e.file] # Gone /\ KeyOf(e) = Stat(e.file) => e.hash = bytes[e.file])

OneEach(S) == \A e, g \in S : KeyOf(e) = KeyOf(g) => e.hash = g.hash

CacheBelieved == Believed(stored) /\ Believed(seen) /\ OneEach(stored) /\ OneEach(seen)

Written == \A f \in Files : mtime[f] <= now

\* A file is listed once and hashed once; the texts fetched have the hashes of the index.
OnceEach ==
    /\ \A s, t \in stats : s.file = t.file => s = t
    /\ \A h, g \in hashes : h[1] = g[1] => h[2] = g[2]
    /\ \A h \in held : h \in hashes /\ h[1][2] = "content"
    /\ phase # "open" => held = {}
    /\ phase \in {"closed", "listed"} => seen = {} /\ hashes = {}

\* While hashing, a file that has not been written since it began is what its hash says.
HashingKnows ==
    phase = "hashing" =>
        /\ seen = Cached /\ \A e \in Cached : <<e.file, e.hash>> \in hashes
        /\ hashed \in Nat /\ hashed <= now /\ now <= hashed + HashSeconds
        /\ \A h \in hashes : h[1] \in Unknown /\ mtime[h[1]] < hashed => h[2] = bytes[h[1]]

\* While nothing is written, the listing and the hashes are the tablet's.
QuietKnows ==
    quiet =>
        /\ phase # "closed" /\ stats = {Stat(f) : f \in {f \in Files : bytes[f] # Gone}}
        /\ \A h \in hashes : h[2] = bytes[h[1]]
        /\ phase = "open" => \A f \in Files : bytes[f] # Gone => <<f, bytes[f]>> \in hashes

ReadAsIndexed == \A d \in Docs : synced[d].read = synced[d].index

FilesInvariant ==
    FilesTypeOK /\ Written /\ CacheBelieved /\ OnceEach /\ HashingKnows /\ QuietKnows /\ ReadAsIndexed

-----------------------------------------------------------------------------
(* Types.                                                                   *)

LEMMA FilesBegin == FilesInit => FilesInvariant
<1> SUFFICES ASSUME FilesInit PROVE FilesInvariant
  OBVIOUS
<1>1. 0 \in 0 .. MaxTime /\ Gone \in Gone .. MaxTime
  BY FilesAssumption DEF Gone
<1>2. bytes \in [Files -> Versions \cup {Gone}] /\ mtime \in [Files -> 0 .. MaxTime]
  BY <1>1, FilesAssumption DEF FilesInit
<1>3. synced \in [Docs -> [index : SUBSET (Files \X Versions), read : SUBSET (Files \X Versions)]]
  BY DEF FilesInit, NeverSynced
<1>4. FilesTypeOK
  BY <1>1, <1>2, <1>3 DEF FilesInit, FilesTypeOK
<1>5. Written /\ CacheBelieved /\ OnceEach /\ HashingKnows /\ QuietKnows /\ ReadAsIndexed
  BY FilesAssumption DEF FilesInit, NeverSynced, Written, CacheBelieved, Believed, OneEach, OnceEach, HashingKnows, QuietKnows, ReadAsIndexed
<1> QED BY <1>4, <1>5 DEF FilesInvariant

LEMMA StatIsKey == ASSUME FilesTypeOK, NEW f \in Files, bytes[f] # Gone PROVE Stat(f) \in Keys
<1>1. bytes[f] \in Nat /\ mtime[f] \in 0 .. MaxTime
  BY FilesAssumption DEF FilesTypeOK
<1>2. SizeOf(bytes[f]) \in {0, 1}
  BY <1>1 DEF SizeOf
<1> HIDE DEF SizeOf
<1> QED BY <1>1, <1>2 DEF Stat, Keys

-----------------------------------------------------------------------------
(* The tablet goes on.                                                      *)

LEMMA TickStep == ASSUME FilesInvariant, Tick PROVE FilesInvariant'
<1>1. /\ now < MaxTime /\ now' = now + 1
      /\ phase = "hashing" => now - hashed < HashSeconds
      /\ UNCHANGED <<bytes, mtime, stored, seen, phase, stats, hashes, hashed, held, todo, synced, quiet>>
  BY DEF Tick
<1>2. now' \in 0 .. MaxTime /\ now < now' /\ now \in Nat
  BY <1>1, FilesAssumption DEF FilesInvariant, FilesTypeOK
<1>3. FilesTypeOK'
  BY <1>1, <1>2 DEF FilesInvariant, FilesTypeOK
<1>4. Written'
  BY <1>1, <1>2 DEF FilesInvariant, FilesTypeOK, Written
<1>5. CacheBelieved'
  <2>1. \A e \in stored \cup seen : e.mtime \in 0 .. MaxTime
    BY DEF FilesInvariant, FilesTypeOK, KeyOf, Keys
  <2> QED BY <1>1, <1>2, <2>1 DEF FilesInvariant, CacheBelieved, Believed, OneEach, Stat
<1>6. HashingKnows'
  BY <1>1, <1>2, FilesAssumption DEF FilesInvariant, HashingKnows, Cached, Unknown
<1>7. OnceEach' /\ QuietKnows' /\ ReadAsIndexed'
  BY <1>1 DEF FilesInvariant, OnceEach, QuietKnows, ReadAsIndexed, Stat
<1> QED BY <1>3, <1>4, <1>5, <1>6, <1>7 DEF FilesInvariant

LEMMA WriteStep == ASSUME FilesInvariant, NEW f \in Files, NEW v \in Versions \cup {Gone}, Write(f, v) PROVE FilesInvariant'
<1>1. /\ bytes' = [bytes EXCEPT ![f] = v] /\ mtime' = [mtime EXCEPT ![f] = now] /\ quiet' = FALSE
      /\ UNCHANGED <<now, stored, seen, phase, stats, hashes, hashed, held, todo, synced>>
  BY DEF Write
<1>2. /\ bytes \in [Files -> Versions \cup {Gone}] /\ mtime \in [Files -> 0 .. MaxTime] /\ now \in 0 .. MaxTime
      /\ \A e \in stored \cup seen : e.file \in Files /\ e.mtime \in 0 .. MaxTime
      /\ hashes \subseteq Files \X Versions
  BY DEF FilesInvariant, FilesTypeOK, KeyOf, Keys
<1>3. \A g \in Files : /\ bytes'[g] = (IF g = f THEN v ELSE bytes[g])
                       /\ mtime'[g] = (IF g = f THEN now ELSE mtime[g])
  BY <1>1, <1>2
<1>4. FilesTypeOK'
  <2>1. bytes' \in [Files -> Versions \cup {Gone}] /\ mtime' \in [Files -> 0 .. MaxTime]
    BY <1>1, <1>2
  <2> QED BY <1>1, <2>1 DEF FilesInvariant, FilesTypeOK
<1>5. Written'
  BY <1>1, <1>2, <1>3 DEF FilesInvariant, Written
<1>6. ASSUME NEW e \in stored \cup seen, e.mtime < now /\ (bytes[e.file] # Gone /\ KeyOf(e) = Stat(e.file) => e.hash = bytes[e.file])
      PROVE  bytes'[e.file] # Gone /\ KeyOf(e) = Stat(e.file)' => e.hash = bytes'[e.file]
  <2>1. CASE e.file = f
    <3>1. Stat(e.file)'.mtime = now
      BY <1>3, <2>1 DEF Stat
    <3>2. KeyOf(e).mtime = e.mtime /\ e.mtime # now
      BY <1>2, <1>6 DEF KeyOf
    <3> QED BY <3>1, <3>2
  <2>2. CASE e.file # f
    <3>1. Stat(e.file)' = Stat(e.file) /\ bytes'[e.file] = bytes[e.file]
      BY <1>2, <1>3, <2>2 DEF Stat
    <3> QED BY <1>6, <3>1
  <2> QED BY <2>1, <2>2
<1>7. CacheBelieved'
  BY <1>1, <1>6 DEF FilesInvariant, CacheBelieved, Believed, OneEach
<1>8. HashingKnows'
  <2>1. ASSUME phase = "hashing" PROVE \A h \in hashes : h[1] \in Unknown /\ mtime'[h[1]] < hashed => h[2] = bytes'[h[1]]
    BY <1>2, <1>3, <2>1 DEF FilesInvariant, HashingKnows
  <2> QED BY <1>1, <2>1 DEF FilesInvariant, HashingKnows, Cached, Unknown
<1>9. OnceEach' /\ QuietKnows' /\ ReadAsIndexed'
  BY <1>1 DEF FilesInvariant, OnceEach, QuietKnows, ReadAsIndexed
<1> QED BY <1>4, <1>5, <1>7, <1>8, <1>9 DEF FilesInvariant

-----------------------------------------------------------------------------
(* The listing and the hashes.                                              *)

LEMMA ListStep == ASSUME FilesInvariant, List PROVE FilesInvariant'
<1>1. /\ phase = "closed" /\ stats' = {Stat(f) : f \in {f \in Files : bytes[f] # Gone}} /\ phase' = "listed" /\ quiet' = TRUE
      /\ UNCHANGED <<bytes, mtime, now, stored, seen, hashes, hashed, held, todo, synced>>
  BY DEF List
<1>2. stats' \subseteq Keys
  BY <1>1, StatIsKey DEF FilesInvariant
<1>3. FilesTypeOK'
  BY <1>1, <1>2 DEF FilesInvariant, FilesTypeOK
<1>4. \A s, t \in stats' : s.file = t.file => s = t
  BY <1>1 DEF Stat
<1>5. OnceEach'
  BY <1>1, <1>4 DEF FilesInvariant, OnceEach
<1>6. QuietKnows'
  BY <1>1 DEF FilesInvariant, OnceEach, QuietKnows, Stat
<1>7. Written' /\ CacheBelieved' /\ ReadAsIndexed'
  BY <1>1 DEF FilesInvariant, Written, CacheBelieved, Believed, OneEach, ReadAsIndexed, Stat
<1>8. HashingKnows'
  BY <1>1 DEF HashingKnows
<1> QED BY <1>3, <1>5, <1>6, <1>7, <1>8 DEF FilesInvariant

\* What the cache answers for is not unknown.
LEMMA CachedIsKnown == ASSUME OnceEach, NEW e \in Cached PROVE e.file \notin Unknown
<1>1. KeyOf(e) \in stats /\ e \in stored /\ KeyOf(e).file = e.file
  BY DEF Cached, KeyOf
<1>2. \A s \in stats : s.file = e.file => s = KeyOf(e)
  BY <1>1 DEF OnceEach
<1> QED BY <1>1, <1>2 DEF Unknown

LEMMA AskCacheStep == ASSUME FilesInvariant, AskCache PROVE FilesInvariant'
<1>1. /\ phase = "listed" /\ seen' = Cached /\ hashes' = {<<e.file, e.hash>> : e \in Cached} /\ phase' = "hashing" /\ hashed' = now
      /\ UNCHANGED <<bytes, mtime, now, stored, stats, held, todo, synced, quiet>>
  BY DEF AskCache
<1>2. \A e \in Cached : e \in stored /\ KeyOf(e) \in stats /\ KeyOf(e) \in Keys /\ e.file \in Files /\ e.hash \in Versions
  BY DEF FilesInvariant, FilesTypeOK, Cached, KeyOf, Keys
<1>3. now \in Nat /\ now \in Gone .. MaxTime
  BY FilesAssumption DEF FilesInvariant, FilesTypeOK, Gone
<1>4. FilesTypeOK'
  <2>1. hashes' \subseteq Files \X Versions
    BY <1>1, <1>2
  <2>2. \A e \in stored' \cup seen' : KeyOf(e)' \in Keys /\ e.hash \in Versions
    BY <1>1, <1>2 DEF FilesInvariant, FilesTypeOK, KeyOf
  <2> QED BY <1>1, <1>3, <2>1, <2>2 DEF FilesInvariant, FilesTypeOK
<1>5. CacheBelieved'
  BY <1>1, <1>2 DEF FilesInvariant, CacheBelieved, Believed, OneEach, Stat, KeyOf
<1>6. OnceEach'
  <2>1. ASSUME NEW e \in Cached, NEW g \in Cached, e.file = g.file PROVE e.hash = g.hash
    <3>1. KeyOf(e) = KeyOf(g)
      BY <1>2, <2>1 DEF FilesInvariant, OnceEach, KeyOf
    <3> QED BY <1>2, <3>1 DEF FilesInvariant, CacheBelieved, OneEach
  <2>2. \A h, g \in hashes' : h[1] = g[1] => h[2] = g[2]
    BY <1>1, <2>1
  <2>3. held' = {}
    BY <1>1 DEF FilesInvariant, OnceEach
  <2> QED BY <1>1, <2>2, <2>3 DEF FilesInvariant, OnceEach
<1>7. HashingKnows'
  <2>1. Cached' = Cached /\ Unknown' = Unknown
    BY <1>1 DEF Cached, Unknown
  <2>2. \A h \in hashes' : h[1] \notin Unknown
    BY <1>1, CachedIsKnown DEF FilesInvariant
  <2> QED BY <1>1, <1>3, <2>1, <2>2, FilesAssumption DEF HashingKnows
<1>8. QuietKnows'
  <2>1. ASSUME quiet, NEW e \in Cached PROVE e.hash = bytes[e.file]
    <3>1. PICK f \in Files : bytes[f] # Gone /\ KeyOf(e) = Stat(f)
      BY <1>2, <2>1 DEF FilesInvariant, QuietKnows
    <3>2. f = e.file
      BY <3>1 DEF KeyOf, Stat
    <3> QED BY <1>2, <3>1, <3>2 DEF FilesInvariant, CacheBelieved, Believed
  <2> QED BY <1>1, <2>1 DEF FilesInvariant, QuietKnows, Stat
<1>9. Written' /\ ReadAsIndexed'
  BY <1>1 DEF FilesInvariant, Written, ReadAsIndexed
<1> QED BY <1>4, <1>5, <1>6, <1>7, <1>8, <1>9 DEF FilesInvariant

LEMMA HashOneStep == ASSUME FilesInvariant, NEW f \in Files, HashOne(f) PROVE FilesInvariant'
<1>1. /\ phase = "hashing" /\ f \in Unknown /\ bytes[f] # Gone /\ \A h \in hashes : h[1] # f
      /\ hashes' = hashes \cup {<<f, bytes[f]>>}
      /\ UNCHANGED <<bytes, mtime, now, stored, seen, phase, stats, hashed, held, todo, synced, quiet>>
  BY DEF HashOne
<1>2. bytes[f] \in Versions
  BY <1>1 DEF FilesInvariant, FilesTypeOK
<1>3. FilesTypeOK'
  BY <1>1, <1>2 DEF FilesInvariant, FilesTypeOK
<1>4. OnceEach'
  <2>1. \A h, g \in hashes' : h[1] = g[1] => h[2] = g[2]
    BY <1>1 DEF FilesInvariant, OnceEach
  <2> QED BY <1>1, <2>1 DEF FilesInvariant, OnceEach
<1>5. HashingKnows'
  BY <1>1 DEF FilesInvariant, HashingKnows, Cached, Unknown
<1>6. QuietKnows'
  BY <1>1 DEF FilesInvariant, QuietKnows, Stat
<1>7. Written' /\ CacheBelieved' /\ ReadAsIndexed'
  BY <1>1 DEF FilesInvariant, Written, CacheBelieved, Believed, OneEach, ReadAsIndexed, Stat
<1> QED BY <1>3, <1>4, <1>5, <1>6, <1>7 DEF FilesInvariant

\* What is written down was last written before the hashing began, or not at all any more.
LEMMA FreshIsTrue == ASSUME HashedInTime, FilesInvariant, phase = "hashing", NEW e \in Fresh
                     PROVE  /\ KeyOf(e) \in stats /\ e.file \in Unknown /\ e.hash \in Versions /\ <<e.file, e.hash>> \in hashes
                            /\ e.mtime < now /\ (bytes[e.file] # Gone /\ KeyOf(e) = Stat(e.file) => e.hash = bytes[e.file])
<1>1. PICK s \in {s \in stats : s.file \in Unknown}, h \in hashes :
        e = [file |-> s.file, size |-> s.size, mtime |-> s.mtime, hash |-> h[2]]
  BY DEF Fresh
<1>2. <<e.file, e.hash>> \in hashes /\ now + Skew - e.mtime >= Window
  BY DEF Fresh
<1>3. s \in Keys /\ h \in Files \X Versions
  BY <1>1 DEF FilesInvariant, FilesTypeOK
<1>4. e.file = s.file /\ e.size = s.size /\ e.mtime = s.mtime /\ e.hash = h[2]
  BY <1>1
<1>5. KeyOf(e) = s /\ e.mtime \in Nat
  BY <1>3, <1>4, FilesAssumption DEF KeyOf, Keys
<1>6. hashed \in Nat /\ now \in Nat /\ hashed <= now /\ now <= hashed + HashSeconds
  BY FilesAssumption DEF FilesInvariant, FilesTypeOK, HashingKnows
<1>7. e.mtime < hashed
  BY <1>2, <1>5, <1>6, FilesAssumption DEF HashedInTime
<1>8. bytes[e.file] # Gone /\ KeyOf(e) = Stat(e.file) => e.hash = bytes[e.file]
  <2>1. SUFFICES ASSUME KeyOf(e) = Stat(e.file) PROVE e.hash = bytes[e.file]
    OBVIOUS
  <2>2. mtime[e.file] = e.mtime
    BY <2>1 DEF KeyOf, Stat
  <2>3. \A g \in hashes : g[1] \in Unknown /\ mtime[g[1]] < hashed => g[2] = bytes[g[1]]
    BY DEF FilesInvariant, HashingKnows
  <2> QED BY <1>1, <1>2, <1>4, <1>7, <2>2, <2>3
<1> QED BY <1>1, <1>2, <1>3, <1>4, <1>5, <1>6, <1>7, <1>8

LEMMA IndexStep == ASSUME HashedInTime, FilesInvariant, Index PROVE FilesInvariant'
<1>1. /\ phase = "hashing" /\ \A f \in Unknown : bytes[f] = Gone \/ \E h \in hashes : h[1] = f
      /\ seen' = seen \cup Fresh /\ phase' = "open" /\ hashed' = Gone
      /\ todo' = {d \in Docs : IndexOf(d) # synced[d].index}
      /\ UNCHANGED <<bytes, mtime, now, stored, stats, hashes, held, synced, quiet>>
  BY DEF Index
<1>2. \A e \in Fresh : /\ KeyOf(e) \in stats /\ e.file \in Unknown /\ e.hash \in Versions /\ <<e.file, e.hash>> \in hashes
                       /\ e.mtime < now /\ (bytes[e.file] # Gone /\ KeyOf(e) = Stat(e.file) => e.hash = bytes[e.file])
  BY <1>1, FreshIsTrue
<1>3. seen = Cached
  BY <1>1 DEF FilesInvariant, HashingKnows
<1>4. FilesTypeOK'
  <2>1. Gone \in Gone .. MaxTime
    BY FilesAssumption DEF Gone
  <2>2. \A e \in stored' \cup seen' : KeyOf(e) \in Keys /\ e.hash \in Versions
    BY <1>1, <1>2 DEF FilesInvariant, FilesTypeOK
  <2>3. todo' \subseteq Docs
    BY <1>1
  <2> QED BY <1>1, <2>1, <2>2, <2>3 DEF FilesInvariant, FilesTypeOK, KeyOf
<1>5. CacheBelieved'
  <2>1. Believed(seen)'
    BY <1>1, <1>2 DEF FilesInvariant, CacheBelieved, Believed, Stat
  <2>2. Believed(stored)' /\ OneEach(stored)'
    BY <1>1 DEF FilesInvariant, CacheBelieved, Believed, OneEach, Stat
  <2>3. ASSUME NEW e \in seen', NEW g \in seen', KeyOf(e) = KeyOf(g) PROVE e.hash = g.hash
    <3>1. e.file = g.file
      BY <2>3 DEF KeyOf
    <3>2. CASE e \in Cached /\ g \in Cached
      BY <1>3, <2>3, <3>2 DEF FilesInvariant, CacheBelieved, OneEach
    <3>3. CASE e \in Fresh /\ g \in Fresh
      BY <1>2, <3>1, <3>3 DEF FilesInvariant, OnceEach
    <3>4. OnceEach
      BY DEF FilesInvariant
    <3>5. ~(e \in Cached /\ g \in Fresh) /\ ~(g \in Cached /\ e \in Fresh)
      BY <1>2, <3>1, <3>4, CachedIsKnown
    <3> QED BY <1>1, <1>3, <3>2, <3>3, <3>5
  <2> QED BY <2>1, <2>2, <2>3 DEF CacheBelieved, OneEach, KeyOf
<1>6. OnceEach'
  BY <1>1 DEF FilesInvariant, OnceEach
<1>7. HashingKnows' /\ Written' /\ ReadAsIndexed'
  BY <1>1 DEF FilesInvariant, HashingKnows, Written, ReadAsIndexed
<1>8. QuietKnows'
  <2>1. ASSUME quiet, NEW f \in Files, bytes[f] # Gone PROVE <<f, bytes[f]>> \in hashes
    <3>1. Stat(f) \in stats /\ \A h \in hashes : h[2] = bytes[h[1]]
      BY <2>1 DEF FilesInvariant, QuietKnows
    <3>2. CASE \E e \in stored : KeyOf(e) = Stat(f)
      <4>1. PICK e \in stored : KeyOf(e) = Stat(f)
        BY <3>2
      <4>2. e \in Cached /\ e.file = f
        BY <3>1, <4>1 DEF Cached, KeyOf, Stat
      <4>3. e.hash = bytes[f] /\ <<e.file, e.hash>> \in hashes
        BY <1>1, <2>1, <4>1, <4>2 DEF FilesInvariant, CacheBelieved, Believed, HashingKnows
      <4> QED BY <4>2, <4>3
    <3>3. CASE \A e \in stored : KeyOf(e) # Stat(f)
      <4>1. f \in Unknown
        BY <3>1, <3>3 DEF Unknown, Stat
      <4>2. PICK h \in hashes : h[1] = f
        BY <1>1, <2>1, <4>1
      <4>3. h = <<h[1], h[2]>>
        BY DEF FilesInvariant, FilesTypeOK
      <4> QED BY <3>1, <4>2, <4>3
    <3> QED BY <3>2, <3>3
  <2> QED BY <1>1, <2>1 DEF FilesInvariant, QuietKnows, Stat
<1> QED BY <1>4, <1>5, <1>6, <1>7, <1>8 DEF FilesInvariant

LEMMA DropStep == ASSUME FilesInvariant, Drop PROVE FilesInvariant'
<1>1. /\ phase \in {"listed", "hashing"} /\ phase' = "closed" /\ hashed' = Gone
      /\ stats' = {} /\ hashes' = {} /\ seen' = {} /\ quiet' = FALSE
      /\ UNCHANGED <<bytes, mtime, now, stored, held, todo, synced>>
  BY DEF Drop
<1>2. held = {}
  BY <1>1 DEF FilesInvariant, OnceEach
<1>3. FilesTypeOK'
  <2>1. Gone \in Gone .. MaxTime
    BY FilesAssumption DEF Gone
  <2> QED BY <1>1, <1>2, <2>1 DEF FilesInvariant, FilesTypeOK, KeyOf
<1> QED BY <1>1, <1>2, <1>3 DEF FilesInvariant, Written, CacheBelieved, Believed, OneEach, OnceEach, HashingKnows, QuietKnows,
                                ReadAsIndexed, Stat

LEMMA CloseStep == ASSUME FilesInvariant, Close PROVE FilesInvariant'
<1>1. /\ phase = "open" /\ phase' = "closed" /\ stored' = seen
      /\ stats' = {} /\ hashes' = {} /\ seen' = {} /\ held' = {} /\ todo' = {} /\ quiet' = FALSE
      /\ UNCHANGED <<bytes, mtime, now, hashed, synced>>
  BY DEF Close
<1>2. FilesTypeOK'
  BY <1>1 DEF FilesInvariant, FilesTypeOK, KeyOf
<1> QED BY <1>1, <1>2 DEF FilesInvariant, Written, CacheBelieved, Believed, OneEach, OnceEach, HashingKnows, QuietKnows,
                          ReadAsIndexed, Stat

-----------------------------------------------------------------------------
(* The reads.                                                               *)

LEMMA FetchTextStep == ASSUME FilesInvariant, NEW d \in Docs, FetchText(d) PROVE FilesInvariant'
<1> DEFINE f == <<d, "content">>
<1>1. /\ phase = "open" /\ Held(f) = {} /\ Readable(f) /\ held' = held \cup {<<f, bytes[f]>>}
      /\ UNCHANGED <<bytes, mtime, now, stored, seen, phase, stats, hashes, hashed, todo, synced, quiet>>
  BY DEF FetchText
<1>2. <<f, bytes[f]>> \in hashes
  BY <1>1 DEF Readable
<1>3. FilesTypeOK'
  BY <1>1, <1>2 DEF FilesInvariant, FilesTypeOK
<1>4. OnceEach'
  BY <1>1, <1>2 DEF FilesInvariant, OnceEach
<1>5. HashingKnows'
  BY <1>1 DEF HashingKnows
<1>6. Written' /\ CacheBelieved' /\ QuietKnows' /\ ReadAsIndexed'
  BY <1>1 DEF FilesInvariant, Written, CacheBelieved, Believed, OneEach, QuietKnows, ReadAsIndexed, Stat
<1> QED BY <1>3, <1>4, <1>5, <1>6 DEF FilesInvariant

LEMMA RenderStep == ASSUME FilesInvariant, NEW d \in Docs, Render(d) PROVE FilesInvariant'
<1> DEFINE t == <<d, "content">>
           p == <<d, "rm">>
           page == IF \E h \in hashes : h[1] = p THEN {p} ELSE {}
           read == Held(t) \cup {<<f, bytes[f]>> : f \in page}
<1>1. /\ phase = "open" /\ d \in todo /\ Held(t) # {} /\ \A f \in page : Readable(f)
      /\ synced' = [synced EXCEPT ![d] = [index |-> IndexOf(d), read |-> read]]
      /\ todo' = todo \ {d}
      /\ UNCHANGED <<bytes, mtime, now, stored, seen, phase, stats, hashes, hashed, held, quiet>>
  BY DEF Render
<1>2. hashes \subseteq Files \X Versions /\ \A h \in hashes : h = <<h[1], h[2]>>
  BY DEF FilesInvariant, FilesTypeOK
<1>3. Held(t) = {h \in hashes : h[1] = t}
  BY <1>1, <1>2 DEF FilesInvariant, OnceEach, Held
<1>4. {<<f, bytes[f]>> : f \in page} = {h \in hashes : h[1] = p}
  <2>1. Held(p) = {}
    BY DEF Held, FilesInvariant, OnceEach
  <2>2. CASE page = {}
    BY <2>2
  <2>3. CASE page = {p}
    <3>1. <<p, bytes[p]>> \in hashes
      BY <1>1, <2>1, <2>3 DEF Readable
    <3>2. \A h \in hashes : h[1] = p => h = <<p, bytes[p]>>
      BY <1>2, <3>1 DEF FilesInvariant, OnceEach
    <3> QED BY <2>3, <3>1, <3>2
  <2> QED BY <2>2, <2>3
<1>5. read = IndexOf(d) /\ IndexOf(d) \in SUBSET (Files \X Versions)
  BY <1>2, <1>3, <1>4 DEF IndexOf, Member
<1>6. FilesTypeOK'
  <2>1. synced' \in [Docs -> [index : SUBSET (Files \X Versions), read : SUBSET (Files \X Versions)]]
    <3> HIDE DEF read
    <3> QED BY <1>1, <1>5 DEF FilesInvariant, FilesTypeOK
  <2> QED BY <1>1, <2>1 DEF FilesInvariant, FilesTypeOK, KeyOf
<1>7. ReadAsIndexed'
  <2> HIDE DEF read
  <2> QED BY <1>1, <1>5 DEF FilesInvariant, FilesTypeOK, ReadAsIndexed
<1>8. OnceEach' /\ HashingKnows'
  BY <1>1 DEF FilesInvariant, OnceEach, HashingKnows
<1>9. Written' /\ CacheBelieved' /\ QuietKnows'
  BY <1>1 DEF FilesInvariant, Written, CacheBelieved, Believed, OneEach, QuietKnows, Stat
<1> QED BY <1>6, <1>7, <1>8, <1>9 DEF FilesInvariant

LEMMA GiveUpStep == ASSUME FilesInvariant, NEW d \in Docs, GiveUp(d) PROVE FilesInvariant'
<1>1. /\ phase = "open" /\ todo' = todo \ {d}
      /\ UNCHANGED <<bytes, mtime, now, stored, seen, phase, stats, hashes, hashed, held, synced, quiet>>
  BY DEF GiveUp
<1> QED BY <1>1 DEF FilesInvariant, FilesTypeOK, Written, CacheBelieved, Believed, OneEach, OnceEach, HashingKnows, QuietKnows,
                    ReadAsIndexed, Stat, KeyOf

-----------------------------------------------------------------------------

LEMMA FilesKept == HashedInTime /\ FilesInvariant /\ [FilesNext]_fileVars => FilesInvariant'
<1> SUFFICES ASSUME HashedInTime, FilesInvariant, [FilesNext]_fileVars PROVE FilesInvariant'
  OBVIOUS
<1>1. CASE Tick
  BY <1>1, TickStep
<1>2. CASE List
  BY <1>2, ListStep
<1>3. CASE AskCache
  BY <1>3, AskCacheStep
<1>4. CASE Index
  BY <1>4, IndexStep
<1>5. CASE Drop
  BY <1>5, DropStep
<1>6. CASE Close
  BY <1>6, CloseStep
<1>7. CASE \E f \in Files : HashOne(f) \/ \E v \in Versions \cup {Gone} : Write(f, v)
  BY <1>7, HashOneStep, WriteStep
<1>8. CASE \E d \in Docs : FetchText(d) \/ Render(d) \/ GiveUp(d)
  BY <1>8, FetchTextStep, RenderStep, GiveUpStep
<1>9. CASE UNCHANGED fileVars
  BY <1>9 DEF fileVars, FilesInvariant, FilesTypeOK, Written, CacheBelieved, Believed, OneEach, OnceEach, HashingKnows, QuietKnows,
              ReadAsIndexed, Stat, KeyOf, Cached, Unknown
<1> QED BY <1>1, <1>2, <1>3, <1>4, <1>5, <1>6, <1>7, <1>8, <1>9 DEF FilesNext

\* A file is listed and hashed once in a session; while the hashing goes on, a file that was not written since it
\* began is what its hash says; no entry of the cache is of this very second; and while nothing is written the
\* listing is the tablet.
THEOREM FilesInvariance == ASSUME HashedInTime PROVE FilesSpec => []FilesInvariant
  BY HashedInTime, FilesBegin, FilesKept, PTL DEF FilesSpec

\* PersistentHashCache, readMember and the gates, on any tablet that keeps writing: a stored hash is that of the
\* file it will be served for, a note is rendered from what its row says it was rendered from, and what the gates
\* pass over while the tablet rests is what is on it -- if the files are hashed, and the clocks agree, within less
\* than the freshness window. Where they are not, TLC shows a cache entry that is wrong for good.
THEOREM FilesStayAsIndexed == ASSUME HashedInTime PROVE FilesSpec => []FilesAreAsIndexed
<1>1. FilesInvariant => CacheIsTrue
  BY DEF FilesInvariant, CacheBelieved, Believed, CacheIsTrue
<1>2. FilesInvariant => RenderedAsIndexed
  <2>1. SUFFICES ASSUME FilesInvariant, phase = "open", quiet, NEW d \in Docs \ todo, synced[d].index = IndexOf(d),
                        NEW f \in Member(d), bytes[f] # Gone
                 PROVE  <<f, bytes[f]>> \in synced[d].read
    BY DEF FilesInvariant, ReadAsIndexed, RenderedAsIndexed
  <2>2. <<f, bytes[f]>> \in hashes
    BY <2>1 DEF FilesInvariant, QuietKnows, Member, Files
  <2> QED BY <2>1, <2>2 DEF IndexOf, FilesInvariant, ReadAsIndexed
<1> QED BY <1>1, <1>2, FilesInvariance, PTL DEF FilesAreAsIndexed

-----------------------------------------------------------------------------
(***************************************************************************)
(* What loading and saving data.json keeps, for every index, every mapping *)
(* and every file an earlier release may have left: a note is moved only   *)
(* where its tag went, and a file that was read reads the same again.      *)
(***************************************************************************)

StoredRow == [path : VaultFolders, active : BOOLEAN, folder : VaultFolders \cup {None}]

\* data.json as this release may find it or leave it.
Stored(f) ==
    /\ f = [rows |-> f.rows, mappings |-> f.mappings, tagFolderMap |-> f.tagFolderMap, primary |-> f.primary,
            fallback |-> f.fallback, backend |-> f.backend, ocrBackendChoice |-> f.ocrBackendChoice]
    /\ f.rows \in [Rows -> StoredRow] /\ f.tagFolderMap \in TagMaps

\* A row names the folder its note was last written under, or is one of those misread.
FoldersTrue(f, last, wrong) == \A r \in Rows : f.rows[r].folder # None => f.rows[r].folder = last[r] \/ r \in wrong

\* What loading would guess from the tags is right where it would trust them.
GuessesTrue(f, last, wrong) ==
    \A r \in Rows : Stampable(f, r) /\ Settled(f) => f.tagFolderMap[TagOf[r]] = last[r] \/ r \in wrong

\* What was loaded has nothing left to guess, but in rows whose tag got its folder since.
NothingToGuess(f, wrong) == \A r \in Rows : Stampable(f, r) => r \in wrong

SettingsInvariant ==
    /\ Stored(file) /\ FoldersTrue(file, lastFolder, misread) /\ GuessesTrue(file, lastFolder, misread)
    /\ memory # None => Stored(memory) /\ FoldersTrue(memory, lastFolder, misread) /\ NothingToGuess(memory, misread)

-----------------------------------------------------------------------------
(* What migrateSettings makes of a file.                                    *)

LEMMA TagsMapped == ASSUME NEW f, Stored(f), NEW r \in Rows
                    PROVE  /\ f.tagFolderMap[TagOf[r]] \in VaultFolders \cup {None}
                           /\ f.rows[r] \in StoredRow
  BY DEF Stored, TagMaps, SettingTags

LEMMA StampedRow == ASSUME NEW f, Stored(f), NEW r \in Rows
                    PROVE  /\ StampRow(f, r) \in StoredRow
                           /\ StampRow(f, r).active = f.rows[r].active /\ StampRow(f, r).path = f.rows[r].path
                           /\ StampRow(f, r).folder = IF ~Stampable(f, r) THEN f.rows[r].folder
                                                      ELSE IF Settled(f) THEN f.tagFolderMap[TagOf[r]] ELSE f.rows[r].path
                           /\ Stampable(f, r) => StampRow(f, r).folder # None
                           /\ ~Stampable(f, r) => StampRow(f, r) = f.rows[r]
<1> DEFINE folder == IF ~Stampable(f, r) THEN f.rows[r].folder
                     ELSE IF Settled(f) THEN f.tagFolderMap[TagOf[r]] ELSE f.rows[r].path
<1>1. StampRow(f, r) = [f.rows[r] EXCEPT !.folder = folder] /\ f.rows[r] \in StoredRow
  BY TagsMapped DEF StampRow
<1>2. folder \in VaultFolders \cup {None} /\ (Stampable(f, r) => folder # None)
  BY TagsMapped, StoredSettingsAssumption DEF Stampable, StoredRow
<1>3. ~Stampable(f, r) => folder = f.rows[r].folder
  OBVIOUS
<1> HIDE DEF folder
<1>4. /\ [f.rows[r] EXCEPT !.folder = folder] \in StoredRow
      /\ [f.rows[r] EXCEPT !.folder = folder].active = f.rows[r].active
      /\ [f.rows[r] EXCEPT !.folder = folder].path = f.rows[r].path
      /\ [f.rows[r] EXCEPT !.folder = folder].folder = folder
      /\ folder = f.rows[r].folder => [f.rows[r] EXCEPT !.folder = folder] = f.rows[r]
  BY <1>1, <1>2 DEF StoredRow
<1> QED BY <1>1, <1>2, <1>3, <1>4 DEF folder

LEMMA Migrated == ASSUME NEW f, Stored(f)
                  PROVE  /\ Stored(migrateSettings(f))
                         /\ migrateSettings(f).rows = [r \in Rows |-> StampRow(f, r)]
                         /\ migrateSettings(f).tagFolderMap = f.tagFolderMap
                         /\ migrateSettings(f).primary = SourceOr(f.primary, "cloud")
                         /\ migrateSettings(f).fallback = (IF SourceOr(f.fallback, None) = SourceOr(f.primary, "cloud") THEN None
                                                           ELSE SourceOr(f.fallback, None))
                         /\ migrateSettings(f).backend \in KnownBackends /\ migrateSettings(f).ocrBackendChoice = None
<1> DEFINE primary == SourceOr(f.primary, "cloud")
           fallback == IF SourceOr(f.fallback, None) = primary THEN None ELSE SourceOr(f.fallback, None)
           named == IF f.backend # None THEN f.backend ELSE f.ocrBackendChoice
           backend == IF named \in KnownBackends THEN named ELSE "vision"
           rs == [r \in Rows |-> StampRow(f, r)]
<1>1. rs \in [Rows -> StoredRow]
  BY StampedRow
<1>2. backend \in KnownBackends
  BY DEF KnownBackends
<1>3. migrateSettings(f) = [rows |-> rs, mappings |-> f.mappings, tagFolderMap |-> f.tagFolderMap, primary |-> primary,
                            fallback |-> fallback, backend |-> backend, ocrBackendChoice |-> None]
  BY DEF migrateSettings
<1> HIDE DEF rs, primary, fallback, backend
<1>4. Stored(migrateSettings(f))
  BY <1>1, <1>3 DEF Stored
<1> QED BY <1>2, <1>3, <1>4 DEF rs, primary, fallback

LEMMA GuessedOnce == ASSUME NEW f, Stored(f), NEW r \in Rows PROVE ~Stampable(migrateSettings(f), r)
<1>1. migrateSettings(f).rows = [q \in Rows |-> StampRow(f, q)] /\ migrateSettings(f).tagFolderMap = f.tagFolderMap
  BY Migrated
<1>2. migrateSettings(f).rows[r] = StampRow(f, r)
  BY <1>1
<1>3. /\ StampRow(f, r).active = f.rows[r].active
      /\ Stampable(f, r) => StampRow(f, r).folder # None
      /\ ~Stampable(f, r) => StampRow(f, r) = f.rows[r]
  BY StampedRow
<1> QED BY <1>1, <1>2, <1>3, Zenon DEF Stampable

LEMMA Settles == ASSUME NEW f, Stored(f)
                 PROVE  /\ migrateSettings(migrateSettings(f)) = migrateSettings(f)
                        /\ migrateSettings(f).primary # migrateSettings(f).fallback
<1> DEFINE g == migrateSettings(f)
<1>1. /\ Stored(g) /\ g.rows = [r \in Rows |-> StampRow(f, r)] /\ g.backend \in KnownBackends /\ g.ocrBackendChoice = None
      /\ g.primary = SourceOr(f.primary, "cloud")
      /\ g.fallback = IF SourceOr(f.fallback, None) = g.primary THEN None ELSE SourceOr(f.fallback, None)
  BY Migrated
<1>2. \A r \in Rows : ~Stampable(g, r)
  BY GuessedOnce
<1> HIDE DEF g
<1>3. g.primary \in TransportIds /\ g.fallback \in TransportIds \cup {None} /\ g.fallback # g.primary
  BY <1>1, StoredSettingsAssumption DEF SourceOr, TransportIds
<1>4. SourceOr(g.primary, "cloud") = g.primary /\ SourceOr(g.fallback, None) = g.fallback
  BY <1>3 DEF SourceOr
<1>5. g.backend # None
  BY <1>1, StoredSettingsAssumption DEF KnownBackends
<1>6. [r \in Rows |-> StampRow(g, r)] = g.rows
  <2>1. \A r \in Rows : StampRow(g, r) = g.rows[r]
    BY <1>1, <1>2, StampedRow
  <2> QED BY <1>1, <2>1 DEF Stored
<1> DEFINE rs == [r \in Rows |-> StampRow(g, r)]
<1>7. migrateSettings(g) = [rows |-> rs, mappings |-> g.mappings, tagFolderMap |-> g.tagFolderMap, primary |-> g.primary,
                            fallback |-> g.fallback, backend |-> g.backend, ocrBackendChoice |-> g.ocrBackendChoice]
  BY <1>1, <1>3, <1>4, <1>5 DEF migrateSettings
<1> HIDE DEF rs
<1>8. migrateSettings(g) = g
  BY <1>1, <1>6, <1>7 DEF Stored, rs
<1> QED BY <1>3, <1>8 DEF g

-----------------------------------------------------------------------------
(* The steps.                                                               *)

\* What is in memory may be saved as it is.
LEMMA Saved == ASSUME NEW f, NEW last, NEW wrong, NothingToGuess(f, wrong) PROVE GuessesTrue(f, last, wrong)
  BY DEF NothingToGuess, GuessesTrue

LEMMA SettingsBegin == SettingsInit => SettingsInvariant
<1> SUFFICES ASSUME SettingsInit PROVE SettingsInvariant
  OBVIOUS
<1>1. PICK map \in TagMaps, mapSynced \in [SettingTags -> VaultFolders], paths \in [Rows -> VaultFolders],
           version \in {FINGERPRINT_VERSION - 1, FINGERPRINT_VERSION}, olderRows \in {{}, Rows},
           rest \in {<<None, None, None, "vision">>, <<Garbled, "cloud", Garbled, None>>, <<"ssh", "ssh", "off", Garbled>>,
                     <<"ssh", Garbled, None, None>>} :
        file = FileOf(map, mapSynced, version, olderRows, paths, rest) /\ lastFolder = [r \in Rows |-> mapSynced[TagOf[r]]]
  BY Zenon DEF SettingsInit
<1> DEFINE rs == [r \in Rows |-> [path |-> paths[r], active |-> TRUE,
                                  folder |-> IF r \in olderRows THEN None ELSE mapSynced[TagOf[r]]]]
<1>2. memory = None
  BY DEF SettingsInit
<1>3. \A r \in Rows : TagOf[r] \in SettingTags /\ mapSynced[TagOf[r]] \in VaultFolders
  BY DEF SettingTags
<1>4. /\ rs \in [Rows -> StoredRow]
      /\ \A r \in Rows : rs[r].folder # None => rs[r].folder = mapSynced[TagOf[r]]
  BY <1>3 DEF StoredRow
<1> DEFINE p == rest[1]  q == rest[2]  b == rest[3]  o == rest[4]
<1>5. file = [rows |-> rs, mappings |-> <<version, mapSynced>>, tagFolderMap |-> map,
              primary |-> p, fallback |-> q, backend |-> b, ocrBackendChoice |-> o]
  BY <1>1, Zenon DEF FileOf
<1> HIDE DEF rs, p, q, b, o
<1>6. Stored(file) /\ file.rows = rs /\ file.mappings = <<version, mapSynced>> /\ file.tagFolderMap = map
  BY <1>4, <1>5 DEF Stored
<1>7. FoldersTrue(file, lastFolder, misread)
  BY <1>1, <1>4, <1>6 DEF FoldersTrue
<1>8. GuessesTrue(file, lastFolder, misread)
  BY <1>1, <1>3, <1>6 DEF GuessesTrue, Settled, mappingFingerprint
<1> QED BY <1>2, <1>6, <1>7, <1>8 DEF SettingsInvariant

LEMMA LoadStep == ASSUME SettingsInvariant, Load PROVE SettingsInvariant'
<1>1. /\ memory' = migrateSettings(file) /\ file' = file /\ lastFolder' = lastFolder
      /\ misread' = misread \cup {r \in Rows : Stampable(file, r) /\ ~Settled(file) /\ file.rows[r].path # lastFolder[r]}
  BY DEF Load
<1>2. Stored(file) /\ FoldersTrue(file, lastFolder, misread) /\ GuessesTrue(file, lastFolder, misread)
  BY DEF SettingsInvariant
<1>3. FoldersTrue(file, lastFolder, misread') /\ GuessesTrue(file, lastFolder, misread')
  BY <1>1, <1>2 DEF FoldersTrue, GuessesTrue
<1>4. Stored(migrateSettings(file)) /\ migrateSettings(file).rows = [r \in Rows |-> StampRow(file, r)]
  BY <1>2, Migrated
<1>5. Stored(memory')
  BY <1>1, <1>4
<1>6. \A r \in Rows : memory'.rows[r] = StampRow(file, r)
  <2>1. memory'.rows = [r \in Rows |-> StampRow(file, r)]
    BY <1>1, <1>4
  <2> QED BY <2>1
<1>7. FoldersTrue(memory', lastFolder, misread')
  <2>1. ASSUME NEW r \in Rows, memory'.rows[r].folder # None, ~(r \in misread')
        PROVE  memory'.rows[r].folder = lastFolder[r]
    <3>1. ~(r \in misread) /\ ~(Stampable(file, r) /\ ~Settled(file) /\ file.rows[r].path # lastFolder[r])
      BY <1>1, <2>1
    <3>2. memory'.rows[r].folder = IF ~Stampable(file, r) THEN file.rows[r].folder
                                   ELSE IF Settled(file) THEN file.tagFolderMap[TagOf[r]] ELSE file.rows[r].path
      BY <1>2, <1>6, StampedRow
    <3> QED BY <1>2, <2>1, <3>1, <3>2 DEF FoldersTrue, GuessesTrue
  <2> QED BY <2>1 DEF FoldersTrue
<1>8. NothingToGuess(memory', misread')
  BY <1>1, <1>2, GuessedOnce DEF NothingToGuess
<1> QED BY <1>1, <1>2, <1>3, <1>5, <1>7, <1>8 DEF SettingsInvariant

LEMMA SaveStep == ASSUME SettingsInvariant, Save PROVE SettingsInvariant'
<1>1. file' = memory /\ memory' = memory /\ lastFolder' = lastFolder /\ misread' = misread /\ memory # None
  BY DEF Save
<1> QED BY <1>1, Saved DEF SettingsInvariant

LEMMA QuitStep == ASSUME SettingsInvariant, Quit PROVE SettingsInvariant'
  BY DEF SettingsInvariant, Quit

\* What changes in memory is saved at once.
LEMMA ChangeIsSaved == ASSUME Stored(memory'), FoldersTrue(memory', lastFolder', misread'), NothingToGuess(memory', misread'),
                              file' = memory'
                       PROVE  SettingsInvariant'
  BY Saved DEF SettingsInvariant

LEMMA MoveNoteStep == ASSUME SettingsInvariant, NEW r \in Rows, NEW to \in VaultFolders, MoveNote(r, to)
                      PROVE  SettingsInvariant'
<1>1. /\ memory' = [memory EXCEPT !.rows[r].path = to] /\ file' = memory' /\ memory # None
      /\ lastFolder' = lastFolder /\ misread' = misread
  BY Zenon DEF MoveNote, UserDoes
<1>2. Stored(memory) /\ FoldersTrue(memory, lastFolder, misread) /\ NothingToGuess(memory, misread)
  BY <1>1 DEF SettingsInvariant
<1> DEFINE row == [memory.rows[r] EXCEPT !.path = to]
           rs == [memory.rows EXCEPT ![r] = row]
<1>3. memory.rows[r] \in StoredRow
  BY <1>2 DEF Stored
<1>4. row \in StoredRow /\ row.folder = memory.rows[r].folder /\ row.active = memory.rows[r].active
  BY <1>3 DEF StoredRow
<1>5. memory' = [memory EXCEPT !.rows = rs]
  BY <1>1
<1> HIDE DEF row
<1>6. rs \in [Rows -> StoredRow] /\ \A s \in Rows : rs[s].folder = memory.rows[s].folder /\ rs[s].active = memory.rows[s].active
  BY <1>2, <1>4 DEF Stored
<1> HIDE DEF rs
<1>7. Stored(memory') /\ memory'.rows = rs /\ memory'.tagFolderMap = memory.tagFolderMap
  BY <1>2, <1>5, <1>6 DEF Stored
<1>8. FoldersTrue(memory', lastFolder', misread') /\ NothingToGuess(memory', misread')
  BY <1>1, <1>2, <1>6, <1>7 DEF FoldersTrue, NothingToGuess, Stampable
<1> QED BY <1>1, <1>7, <1>8, ChangeIsSaved

LEMMA RetargetStep == ASSUME SettingsInvariant, NEW t \in SettingTags, NEW to \in VaultFolders \cup {None}, Retarget(t, to)
                      PROVE  SettingsInvariant'
<1>1. /\ memory' = [memory EXCEPT !.tagFolderMap[t] = to] /\ file' = memory' /\ memory # None
      /\ misread' = misread \cup {r \in Rows : TagOf[r] = t /\ memory.rows[r].folder = None}
      /\ lastFolder' = lastFolder
  BY Zenon DEF Retarget, UserDoes
<1>2. Stored(memory) /\ FoldersTrue(memory, lastFolder, misread) /\ NothingToGuess(memory, misread)
  BY <1>1 DEF SettingsInvariant
<1> DEFINE map == [memory.tagFolderMap EXCEPT ![t] = to]
<1>3. map \in TagMaps /\ \A u \in SettingTags : u # t => map[u] = memory.tagFolderMap[u]
  BY <1>2 DEF Stored, TagMaps
<1>4. memory' = [memory EXCEPT !.tagFolderMap = map]
  BY <1>1
<1> HIDE DEF map
<1>5. Stored(memory') /\ memory'.rows = memory.rows /\ memory'.tagFolderMap = map
  BY <1>2, <1>3, <1>4 DEF Stored
<1>6. FoldersTrue(memory', lastFolder', misread')
  BY <1>1, <1>2, <1>5 DEF FoldersTrue
<1>7. NothingToGuess(memory', misread')
  BY <1>1, <1>2, <1>3, <1>5 DEF NothingToGuess, Stampable, SettingTags
<1> QED BY <1>1, <1>5, <1>6, <1>7, ChangeIsSaved

-----------------------------------------------------------------------------
(* A run.                                                                   *)

\* A row after a run that wrote it or not.
RowAfter(row, written, moved, target, routed) ==
    IF written THEN [row EXCEPT !.folder = target, !.path = IF moved THEN target ELSE row.path] ELSE [row EXCEPT !.active = routed]

LEMMA RowIsKept == ASSUME NEW row \in StoredRow, NEW moved \in BOOLEAN, NEW routed \in BOOLEAN, NEW written \in BOOLEAN,
                          NEW target \in VaultFolders \cup {None}, written => routed, moved => written, routed => target # None /\ row.active
                   PROVE  LET after == RowAfter(row, written, moved, target, routed) IN
                          /\ after \in StoredRow
                          /\ after.folder = (IF written THEN target ELSE row.folder)
                          /\ after.path = (IF moved THEN target ELSE row.path)
                          /\ after.active => row.active
<1>1. CASE written
  <2> DEFINE path == IF moved THEN target ELSE row.path
  <2>1. path \in VaultFolders /\ target \in VaultFolders
    BY <1>1 DEF StoredRow
  <2>2. RowAfter(row, written, moved, target, routed) = [row EXCEPT !.folder = target, !.path = path]
    BY <1>1 DEF RowAfter
  <2> HIDE DEF path
  <2>3. LET after == [row EXCEPT !.folder = target, !.path = path] IN
        after \in StoredRow /\ after.folder = target /\ after.path = path /\ after.active = row.active
    BY <2>1 DEF StoredRow
  <2> QED BY <1>1, <2>2, <2>3 DEF path
<1>2. CASE ~written
  <2>1. RowAfter(row, written, moved, target, routed) = [row EXCEPT !.active = routed]
    BY <1>2 DEF RowAfter
  <2> DEFINE act == routed
  <2>2. act \in BOOLEAN
    BY DEF StoredRow
  <2> HIDE DEF act
  <2>3. LET after == [row EXCEPT !.active = act] IN
        after \in StoredRow /\ after.folder = row.folder /\ after.path = row.path /\ after.active = act
    BY <2>2 DEF StoredRow
  <2> QED BY <1>2, <2>1, <2>3 DEF act
<1> QED BY <1>1, <1>2

\* What a run does to the rows, and to what is remembered of them.
RunDid(changed) ==
    LET written == {r \in Rows : Routed(r) /\ (r \in changed \/ isRetargeted(r))} IN
    /\ Stored(memory') /\ memory'.tagFolderMap = memory.tagFolderMap /\ file' = memory'
    /\ \A r \in Rows :
        LET target == memory.tagFolderMap[TagOf[r]] IN
        /\ memory'.rows[r].folder = (IF r \in written THEN target ELSE memory.rows[r].folder)
        /\ memory'.rows[r].path = (IF isRetargeted(r) THEN target ELSE memory.rows[r].path)
        /\ memory'.rows[r].active => memory.rows[r].active
        /\ lastFolder'[r] = (IF r \in written THEN target ELSE lastFolder[r])
    /\ misread' = misread \ written

LEMMA RunDoes == ASSUME Stored(memory), RunSync PROVE \E changed \in SUBSET Rows : RunDid(changed)
<1> DEFINE written(changed) == {r \in Rows : Routed(r) /\ (r \in changed \/ isRetargeted(r))}
           target(r) == memory.tagFolderMap[TagOf[r]]
           after(r, changed) == IF r \in written(changed)
                                THEN [memory.rows[r] EXCEPT !.folder = target(r), !.path = IF isRetargeted(r) THEN target(r) ELSE memory.rows[r].path]
                                ELSE [memory.rows[r] EXCEPT !.active = Routed(r)]
<1>1. PICK changed \in SUBSET Rows :
        /\ memory' = [memory EXCEPT !.mappings = mappingFingerprint(memory.tagFolderMap),
                                    !.rows = [r \in Rows |-> after(r, changed)]]
        /\ lastFolder' = [r \in Rows |-> IF r \in written(changed) THEN target(r) ELSE lastFolder[r]]
        /\ misread' = misread \ written(changed)
        /\ file' = memory'
  BY Zenon DEF RunSync
<1> DEFINE rs == [r \in Rows |-> after(r, changed)]
           fingerprint == mappingFingerprint(memory.tagFolderMap)
<1>2. \A r \in Rows : /\ after(r, changed) \in StoredRow
                      /\ after(r, changed).folder = (IF r \in written(changed) THEN target(r) ELSE memory.rows[r].folder)
                      /\ after(r, changed).path = (IF isRetargeted(r) THEN target(r) ELSE memory.rows[r].path)
                      /\ after(r, changed).active => memory.rows[r].active
  <2>1. SUFFICES ASSUME NEW r \in Rows
                 PROVE  /\ after(r, changed) \in StoredRow
                        /\ after(r, changed).folder = (IF r \in written(changed) THEN target(r) ELSE memory.rows[r].folder)
                        /\ after(r, changed).path = (IF isRetargeted(r) THEN target(r) ELSE memory.rows[r].path)
                        /\ after(r, changed).active => memory.rows[r].active
    OBVIOUS
  <2> DEFINE moved == isRetargeted(r)
             routed == Routed(r)
             isWritten == r \in written(changed)
             row == memory.rows[r]
             to == memory.tagFolderMap[TagOf[r]]
  <2>2. row \in StoredRow /\ to \in VaultFolders \cup {None}
    BY TagsMapped
  <2>3. moved \in BOOLEAN /\ routed \in BOOLEAN /\ isWritten \in BOOLEAN
    BY <2>2 DEF Routed, isRetargeted, StoredRow
  <2>4. (isWritten => routed) /\ (moved => isWritten) /\ (routed => to # None /\ row.active)
    BY DEF Routed, isRetargeted
  <2>5. after(r, changed) = RowAfter(row, isWritten, moved, to, routed)
    BY DEF RowAfter
  <2> HIDE DEF moved, routed, isWritten, row, to, after
  <2>6. LET a == RowAfter(row, isWritten, moved, to, routed) IN
        /\ a \in StoredRow /\ a.folder = (IF isWritten THEN to ELSE row.folder)
        /\ a.path = (IF moved THEN to ELSE row.path) /\ (a.active => row.active)
    BY <2>2, <2>3, <2>4, RowIsKept
  <2> QED BY <2>5, <2>6 DEF moved, isWritten, row, to
<1>3. rs \in [Rows -> StoredRow] /\ \A r \in Rows : rs[r] = after(r, changed)
  BY <1>2
<1>4. memory' = [memory EXCEPT !.mappings = fingerprint, !.rows = rs]
  BY <1>1
<1> HIDE DEF rs, fingerprint
<1>5. Stored(memory') /\ memory'.rows = rs /\ memory'.tagFolderMap = memory.tagFolderMap
  BY <1>3, <1>4 DEF Stored
<1> HIDE DEF after
<1>6. \A r \in Rows : lastFolder'[r] = (IF r \in written(changed) THEN target(r) ELSE lastFolder[r])
  BY <1>1
<1>7. RunDid(changed)
  BY <1>1, <1>2, <1>3, <1>5, <1>6 DEF RunDid
<1> QED BY <1>7

LEMMA RunStep == ASSUME SettingsInvariant, RunSync PROVE SettingsInvariant'
<1>1. memory # None /\ Stored(memory) /\ FoldersTrue(memory, lastFolder, misread) /\ NothingToGuess(memory, misread)
  BY DEF SettingsInvariant, RunSync
<1>2. PICK changed \in SUBSET Rows : RunDid(changed)
  BY <1>1, RunDoes
<1>3. FoldersTrue(memory', lastFolder', misread')
  BY <1>1, <1>2 DEF FoldersTrue, RunDid
<1>4. NothingToGuess(memory', misread')
  <2>1. ASSUME NEW r \in Rows, Stampable(memory', r) PROVE r \in misread'
    <3> DEFINE target == memory.tagFolderMap[TagOf[r]]
               written == {s \in Rows : Routed(s) /\ (s \in changed \/ isRetargeted(s))}
    <3>1. memory'.rows[r].folder = None /\ memory.rows[r].active /\ target # None
      BY <1>2, <2>1 DEF RunDid, Stampable
    <3>2. r \notin written
      BY <1>2, <3>1 DEF RunDid
    <3>3. Stampable(memory, r)
      BY <1>2, <3>1, <3>2 DEF RunDid, Stampable
    <3> QED BY <1>1, <1>2, <3>2, <3>3 DEF RunDid, NothingToGuess
  <2> QED BY <2>1 DEF NothingToGuess
<1> QED BY <1>2, <1>3, <1>4, ChangeIsSaved DEF RunDid

LEMMA RunMovesWhatWasRetargeted ==
    ASSUME SettingsInvariant, RunSync, NEW r \in Rows
    PROVE  LET target == memory.tagFolderMap[TagOf[r]]
               follows == target # lastFolder[r] /\ memory.rows[r].path = lastFolder[r] IN
           /\ memory'.rows[r].path # memory.rows[r].path => follows \/ r \in misread
           /\ follows /\ Routed(r) /\ memory.rows[r].folder # None /\ r \notin misread => memory'.rows[r].path = target
<1> DEFINE target == memory.tagFolderMap[TagOf[r]]
<1>1. Stored(memory) /\ (memory.rows[r].folder # None => memory.rows[r].folder = lastFolder[r] \/ r \in misread)
  BY DEF SettingsInvariant, RunSync, FoldersTrue
<1>2. memory'.rows[r].path = (IF isRetargeted(r) THEN target ELSE memory.rows[r].path)
  BY <1>1, RunDoes DEF RunDid
<1> QED BY <1>1, <1>2 DEF isRetargeted

-----------------------------------------------------------------------------

LEMMA SettingsKept == SettingsInvariant /\ [SettingsNext]_settingsVars => SettingsInvariant'
<1> SUFFICES ASSUME SettingsInvariant, [SettingsNext]_settingsVars PROVE SettingsInvariant'
  OBVIOUS
<1>1. CASE Load
  BY <1>1, LoadStep
<1>2. CASE Save
  BY <1>2, SaveStep
<1>3. CASE Quit
  BY <1>3, QuitStep
<1>4. CASE RunSync
  BY <1>4, RunStep
<1>5. CASE \E r \in Rows, to \in VaultFolders : MoveNote(r, to)
  BY <1>5, MoveNoteStep
<1>6. CASE \E t \in SettingTags, to \in VaultFolders \cup {None} : Retarget(t, to)
  BY <1>6, RetargetStep
<1>7. CASE UNCHANGED settingsVars
  BY <1>7 DEF settingsVars, SettingsInvariant
<1> QED BY <1>1, <1>2, <1>3, <1>4, <1>5, <1>6, <1>7 DEF SettingsNext

\* The file can be read; a row that names a folder names the one its note was last written under, unless it was
\* misread; where loading would trust the tags they are right; and once loaded there is nothing left to guess.
THEOREM SettingsAreUnderstood == SettingsSpec => []SettingsInvariant
  BY SettingsBegin, SettingsKept, PTL DEF SettingsSpec

\* Whatever release wrote data.json, wherever the user has moved the notes, and whenever the file was loaded, saved
\* or lost: a run moves a note only where its tag was re-targeted and the note still lay where it was written, and
\* then moves it (the rows loading had to guess from a moved note, or could not guess, excepted); and a file that
\* was read reads the same again, with no fallback that is its primary.
THEOREM UpgradesMoveNothing == SettingsSpec => UpgradesKeepPlaces
<1> DEFINE Moves == RunSync =>
        \A r \in Rows :
            LET target == memory.tagFolderMap[TagOf[r]]
                follows == target # lastFolder[r] /\ memory.rows[r].path = lastFolder[r] IN
            /\ memory'.rows[r].path # memory.rows[r].path => follows \/ r \in misread
            /\ follows /\ Routed(r) /\ memory.rows[r].folder # None /\ r \notin misread => memory'.rows[r].path = target
<1>1. SettingsInvariant => Moves
  BY RunMovesWhatWasRetargeted
<1>2. SettingsInvariant => ReadingSettles
  BY Settles DEF SettingsInvariant, ReadingSettles
<1>3. SettingsSpec => [][Moves]_settingsVars
  BY <1>1, SettingsAreUnderstood, PTL
<1>4. SettingsSpec => NotesStayWhereTheyWerePut
  BY <1>3 DEF NotesStayWhereTheyWerePut
<1> QED BY <1>2, <1>4, SettingsAreUnderstood, PTL DEF UpgradesKeepPlaces
-----------------------------------------------------------------------------
(***************************************************************************)
(* The client of Zotero, for any connections, libraries, pages and batches *)
(* of any size, and a user who works in Zotero all the while: what was     *)
(* read of an item is the item as it was or older, a clean listing has     *)
(* read the pages it has asked for, and nothing that is still to be        *)
(* created is there already.                                               *)
(***************************************************************************)

Libs == Range(libraries)
Refs == [id : Nat \X Nat, version : Nat, text : {"first", "theirs", "new", "ours"}, source : Connections, lib : Libs]
Listings ==
  [op : {"list"}, libs : Seq(Libs), each : BOOLEAN, at : DOMAIN Order, page : Nat, got : SUBSET Refs, rows : SUBSET Refs,
   from : Seq(Connections \cup {None}), before : Holdings, clean : BOOLEAN]
Creates ==
  [op : {"create"}, lib : Libs, n : Nat, at : DOMAIN Order, offset : Nat, created : Seq((Nat \X Nat) \cup {None})]
Lists ==
  [op : {"list"}, libs : Seq(Libs), rows : SUBSET Refs, from : Seq(Connections \cup {None}), before : Holdings, clean : BOOLEAN]
Listing == request # None /\ request.op = "list"
Creating == request # None /\ request.op = "create"

ClientTyped ==
  /\ shelf \in Holdings /\ edits \in Nat /\ calls \in Nat
  /\ accepted \subseteq [body : Nat, by : Connections]
  /\ request \in Listings \cup Creates \cup {None}
  /\ answer.op = "list" => answer \in Lists

\* An id of the user's is as old as the edits left say, one of the plugin's as the calls left.
IdUsed(id) == (id[1] = 1 => edits < id[2]) /\ (id[1] >= 2 => 2 + calls <= id[1])

OneOfEachId ==
  \A c \in Connections, l \in Libs : shelf[c][l] # Missing =>
     \A i, j \in DOMAIN shelf[c][l] : IdUsed(shelf[c][l][i].id) /\ (shelf[c][l][i].id = shelf[c][l][j].id => i = j)

Known == (IF Listing THEN request.got \cup request.rows ELSE {}) \cup (IF answer.op = "list" THEN answer.rows ELSE {})

\* What was read of an item is no newer than the item, and the same where the version is.
Fits(row, ref) == row.id = ref.id => ref.version <= row.version /\ (row.version = ref.version => row.text = ref.text)
IsOld(ref) ==
  /\ IdUsed(ref.id) /\ shelf[ref.source][ref.lib] # Missing
  /\ \A i \in DOMAIN shelf[ref.source][ref.lib] : Fits(shelf[ref.source][ref.lib][i], ref)
ReadIsOld == \A ref \in Known : IsOld(ref)

\* The rows of before are the last of those now.
Shifted(before, latest) ==
  /\ Len(before) <= Len(latest)
  /\ \A i \in DOMAIN before : before[i] = latest[i + Len(latest) - Len(before)]

GivenBy(lib, c, rows, before, clean) ==
  IF c = None THEN lib # "user" /\ (\A r \in rows : r.lib # lib) /\ before[Last(Order)][lib] = Missing
  ELSE /\ c \in Connections /\ before[c][lib] # Missing
       /\ \A r \in rows : r.lib = lib => r.source = c
       /\ clean => \A i \in DOMAIN before[c][lib] : before[c][lib][i].fits =>
            \E r \in rows : r.lib = lib /\ r.id = before[c][lib][i].id

Done(libs, from, rows, before, clean) ==
  /\ \A k \in DOMAIN from : GivenBy(libs[k], from[k], rows, before, clean)
  /\ \A r \in rows : \E k \in DOMAIN from : r.lib = libs[k]

\* The rows of a library that were at places the pages asked for have been read.
PagesRead(page, got, then, latest) ==
  \A i \in DOMAIN then : i + Len(latest) - Len(then) <= page * PAGE_SIZE /\ then[i].fits => \E r \in got : r.id = then[i].id

Follows(before, clean) ==
  /\ \A c \in Connections, l \in Libs : shelf[c][l] = Missing <=> before[c][l] = Missing
  /\ clean => \A c \in Connections, l \in Libs : shelf[c][l] # Missing => Shifted(before[c][l], shelf[c][l])

ListingGoesOn ==
  Listing =>
    /\ answer = NoAnswer
    /\ IsInjective(request.libs) /\ Len(request.from) < Len(request.libs)
    /\ Follows(request.before, request.clean)
    /\ Done(request.libs, request.from, request.rows, request.before, request.clean)
    /\ \A r \in request.got : r.lib = Lib /\ r.source = Order[request.at]
    /\ request.clean /\ shelf[Order[request.at]][Lib] # Missing =>
         PagesRead(request.page, request.got, request.before[Order[request.at]][Lib], shelf[Order[request.at]][Lib])

ListingDone ==
  answer.op = "list" => Len(answer.from) = Len(answer.libs) /\ Done(answer.libs, answer.from, answer.rows, answer.before, answer.clean)

NotYet(j, rows) == \A i \in DOMAIN rows, b \in Nat : rows[i].id = NewId(b) => j = request.at /\ b <= request.offset

\* What is still to be created nobody has an item of.
CreatingGoesOn ==
  Creating =>
    /\ answer = NoAnswer /\ request.offset < request.n /\ Len(request.created) = request.offset
    /\ \A j \in DOMAIN Order, l \in Libs : j >= request.at /\ shelf[Order[j]][l] # Missing => NotYet(j, shelf[Order[j]][l])
    /\ \A x \in accepted : \E j \in DOMAIN Order : j <= request.at /\ x.by = Order[j] /\ (j = request.at => x.body <= request.offset)
    /\ \A b \in DOMAIN request.created :
         request.created[b] = IF [body |-> b, by |-> Order[request.at]] \in accepted THEN NewId(b) ELSE None

ClientInv ==
  /\ ClientTyped /\ OneOfEachId /\ ReadIsOld /\ ListingGoesOn /\ ListingDone /\ CreatingGoesOn /\ CreatedAreNamed

ClientSpec == ClientInit /\ [][ClientNext]_clientVars
-----------------------------------------------------------------------------

LEMMA OrderHolds == /\ DOMAIN Order = 1 .. Len(Order) /\ Len(Order) \in Nat \ {0}
                    /\ \A j \in DOMAIN Order : Order[j] \in Connections
                    /\ \A c \in Connections : \E j \in DOMAIN Order : c = Order[j]
                    /\ Last(Order) = Order[Len(Order)]
                    /\ \A i, j \in DOMAIN Order : Order[i] = Order[j] => i = j
                    /\ None \notin Connections
  BY ClientAssumption, EmptySeq, LenProperties DEF Connections, Range, Last, IsInjective

LEMMA LibsHold == libraries \in Seq(Libs) /\ Len(libraries) \in Nat \ {0} /\ IsInjective(libraries)
<1>1. libraries \in Seq(STRING)
  BY ClientAssumption
<1>2. libraries \in Seq(Libs)
  BY <1>1, LenProperties DEF Libs, Range
<1> QED BY <1>1, <1>2, ClientAssumption, EmptySeq, LenProperties

LEMMA ShelfHolds == ASSUME NEW h \in Holdings, NEW c \in Connections, NEW l \in Libs, h[c][l] # Missing
                    PROVE  h[c][l] \in Seq(Items)
  BY DEF Holdings, Libs

LEMMA StartClient == ClientInit => ClientInv
<1> SUFFICES ASSUME ClientInit PROVE ClientInv
  OBVIOUS
<1>1. shelf \in Shelves /\ request = None /\ answer = NoAnswer /\ accepted = {} /\ edits = MaxEdits /\ calls = MaxCalls
  BY DEF ClientInit
<1>2. answer.op # "list" /\ answer.op # "create" /\ ~Listing /\ ~Creating
  BY <1>1 DEF NoAnswer, Listing, Creating
<1>3. ClientTyped
  BY <1>1, <1>2, ClientAssumption DEF ClientTyped
<1>4. OneOfEachId
  <2> SUFFICES ASSUME NEW c \in Connections, NEW l \in Libs, shelf[c][l] # Missing, NEW i \in DOMAIN shelf[c][l], NEW j \in DOMAIN shelf[c][l]
               PROVE  IdUsed(shelf[c][l][i].id) /\ (shelf[c][l][i].id = shelf[c][l][j].id => i = j)
    BY DEF OneOfEachId
  <2> QED BY <1>1, ClientAssumption, SMTT(30) DEF IdUsed, Libs
<1> QED BY <1>2, <1>3, <1>4 DEF ClientInv, ReadIsOld, Known, ListingGoesOn, ListingDone, CreatingGoesOn, CreatedAreNamed

\* Each library is one more of a listing.
LEMMA DoneGrows ==
  ASSUME NEW libs \in Seq(Libs), IsInjective(libs), NEW from \in Seq(Connections \cup {None}), Len(from) < Len(libs),
         NEW rows, NEW got, NEW c \in Connections \cup {None}, NEW before, NEW clean, Done(libs, from, rows, before, clean),
         \A r \in got : r.lib = libs[Len(from) + 1], GivenBy(libs[Len(from) + 1], c, got, before, clean)
  PROVE  Done(libs, Append(from, c), rows \cup got, before, clean)
<1> DEFINE n == Len(from) + 1
           more == Append(from, c)
<1>1. n \in Nat \ {0} /\ DOMAIN libs = 1 .. Len(libs) /\ DOMAIN from = 1 .. Len(from) /\ DOMAIN more = 1 .. n /\ more[n] = c /\ n <= Len(libs)
      /\ \A k \in DOMAIN from : more[k] = from[k] /\ k \in DOMAIN libs /\ libs[k] # libs[n]
  BY DEF IsInjective
<1>2. \A r \in rows : r.lib # libs[n]
  BY <1>1 DEF Done
<1>3. ASSUME NEW k \in DOMAIN more PROVE GivenBy(libs[k], more[k], rows \cup got, before, clean)
  <2>1. CASE k = n
    BY <1>1, <1>2, <2>1 DEF GivenBy
  <2>2. CASE k \in DOMAIN from
    <3>1. GivenBy(libs[k], from[k], rows, before, clean) /\ more[k] = from[k]
      BY <1>1, <2>2 DEF Done
    <3>2. \A r \in got : r.lib # libs[k]
      BY <1>1, <2>2
    <3> QED BY <3>1, <3>2 DEF GivenBy
  <2> QED BY <1>1, <2>1, <2>2
<1>4. \A r \in rows \cup got : \E k \in DOMAIN more : r.lib = libs[k]
  BY <1>1 DEF Done
<1> QED BY <1>3, <1>4 DEF Done

\* Nothing of the requests' moves what is in Zotero.
Unmoved == UNCHANGED <<shelf, accepted, edits, calls>>

LEMMA ShelvesRest == ASSUME ClientInv, Unmoved, \A ref \in Known' : IsOld(ref)
                     PROVE  OneOfEachId' /\ ReadIsOld'
<1>1. OneOfEachId'
  BY DEF ClientInv, OneOfEachId, IdUsed, Unmoved
<1>2. ReadIsOld'
  BY DEF ReadIsOld, IsOld, IdUsed, Unmoved
<1> QED BY <1>1, <1>2

\* A library, or a connection, is begun with its first page.
LEMMA FirstPage == ASSUME NEW before \in Holdings, NEW clean, Follows(before, clean), clean, NEW c \in Connections, NEW l \in Libs, NEW got,
                          shelf \in Holdings, shelf[c][l] # Missing
                   PROVE  PagesRead(0, got, before[c][l], shelf[c][l])
<1>1. before[c][l] # Missing
  BY DEF Follows
<1>2. shelf[c][l] \in Seq(Items) /\ before[c][l] \in Seq(Items) /\ Len(before[c][l]) <= Len(shelf[c][l])
  BY <1>1, ShelfHolds DEF Follows, Shifted
<1>3. 0 * PAGE_SIZE = 0
  BY ClientAssumption
<1>4. Len(before[c][l]) \in Nat /\ Len(shelf[c][l]) \in Nat /\ DOMAIN before[c][l] = 1 .. Len(before[c][l])
  BY <1>2, LenProperties
<1> DEFINE n == Len(shelf[c][l])
           m == Len(before[c][l])
<1>5. ASSUME NEW i \in DOMAIN before[c][l] PROVE ~(i + n - m <= 0)
  <2>1. i \in 1 .. m /\ n \in Nat /\ m \in Nat /\ m <= n
    BY <1>2, <1>4
  <2> HIDE DEF n, m
  <2> QED BY <2>1
<1> QED BY <1>3, <1>5 DEF PagesRead

\* A library done.
OnFrom(h, c) == [h EXCEPT !.rows = @ \cup h.got, !.from = Append(@, c), !.at = 1, !.page = 0, !.got = {}]
LEMMA LibraryOn ==
  ASSUME NEW h \in Listings, NEW c \in Connections \cup {None}
  PROVE  /\ OnFrom(h, c) \in Listings /\ OnFrom(h, c).op = "list" /\ OnFrom(h, c).libs = h.libs /\ OnFrom(h, c).each = h.each
         /\ OnFrom(h, c).at = 1 /\ OnFrom(h, c).page = 0 /\ OnFrom(h, c).got = {}
         /\ OnFrom(h, c).rows = h.rows \cup h.got /\ OnFrom(h, c).from = Append(h.from, c)
         /\ OnFrom(h, c).before = h.before /\ OnFrom(h, c).clean = h.clean
<1> DEFINE rows == h.rows \cup h.got
           from == Append(h.from, c)
           o == [h EXCEPT !.rows = rows, !.from = from, !.at = 1, !.page = 0, !.got = {}]
<1>1. rows \in SUBSET Refs /\ from \in Seq(Connections \cup {None}) /\ 1 \in DOMAIN Order /\ 0 \in Nat
  BY OrderHolds DEF Listings
<1>2. OnFrom(h, c) = o
  BY DEF OnFrom
<1> HIDE DEF rows, from
<1>3. /\ o \in Listings /\ o.op = "list" /\ o.libs = h.libs /\ o.each = h.each /\ o.at = 1 /\ o.page = 0 /\ o.got = {}
      /\ o.rows = rows /\ o.from = from /\ o.before = h.before /\ o.clean = h.clean
  BY <1>1 DEF Listings
<1> HIDE DEF o
<1> QED BY <1>2, <1>3 DEF rows, from

LEMMA LibraryStep ==
  ASSUME ClientInv, Listing, Unmoved, NEW got \in SUBSET Refs, NEW c \in Connections \cup {None},
         Library([request EXCEPT !.got = got], c), \A ref \in got : IsOld(ref) /\ ref.lib = Lib,
         GivenBy(Lib, c, got, request.before, request.clean)
  PROVE  ClientInv'
<1> DEFINE r == request
           from == Append(r.from, c)
           rows == r.rows \cup got
           h == [r EXCEPT !.got = got]
           on == OnFrom(h, c)
<1>1. r \in Listings /\ r # None
  BY DEF ClientInv, ClientTyped, Listing, Creates
<1>2. /\ r.libs \in Seq(Libs) /\ r.from \in Seq(Connections \cup {None}) /\ r.before \in Holdings /\ r.clean \in BOOLEAN /\ r.each \in BOOLEAN
      /\ r.rows \in SUBSET Refs /\ IsInjective(r.libs) /\ Len(r.from) < Len(r.libs) /\ Follows(r.before, r.clean)
      /\ Done(r.libs, r.from, r.rows, r.before, r.clean)
  BY <1>1 DEF Listings, ClientInv, ListingGoesOn
<1>3. from \in Seq(Connections \cup {None}) /\ Len(from) = Len(r.from) + 1 /\ Lib = r.libs[Len(r.from) + 1]
  BY <1>2 DEF Lib
<1>4. Done(r.libs, from, rows, r.before, r.clean)
  BY <1>2, <1>3, DoneGrows
<1>10. h \in Listings /\ h.libs = r.libs /\ h.each = r.each /\ h.got = got /\ h.rows = r.rows /\ h.from = r.from /\ h.before = r.before
      /\ h.clean = r.clean
  BY <1>1 DEF Listings
<1>0. IF Len(on.from) = Len(on.libs) THEN request' = None /\ answer' = ListAnswer(on) ELSE request' = on /\ UNCHANGED answer
  BY DEF Library, OnFrom
<1> HIDE DEF h
<1>5. /\ on \in Listings /\ on.op = "list" /\ on.libs = r.libs /\ on.each = r.each /\ on.at = 1 /\ on.page = 0 /\ on.got = {}
      /\ on.rows = rows /\ on.from = from /\ on.before = r.before /\ on.clean = r.clean
  BY <1>10, LibraryOn
<1> HIDE DEF on
<1>6. Known = (r.got \cup r.rows) \cup (IF answer.op = "list" THEN answer.rows ELSE {})
  BY DEF Known, Listing
<1>7. rows \in SUBSET Refs /\ \A ref \in rows : IsOld(ref)
  BY <1>2, <1>6 DEF ClientInv, ReadIsOld
<1>8. CASE Len(from) = Len(r.libs)
  <2> DEFINE list == [op |-> "list", libs |-> r.libs, rows |-> rows, from |-> from, before |-> r.before, clean |-> r.clean]
  <2>1. request' = None /\ answer' = list
    BY <1>0, <1>5, <1>8 DEF ListAnswer
  <2>2. list \in Lists
    BY <1>2, <1>3, <1>7 DEF Lists
  <2>3. ~Listing' /\ ~Creating' /\ answer'.op = "list"
    BY <2>1 DEF Listing, Creating
  <2>4. Known' = rows
    BY <2>1, <2>3 DEF Known
  <2>5. ClientTyped'
    BY <2>1, <2>2 DEF ClientInv, ClientTyped, Unmoved
  <2>6. ListingDone'
    BY <1>4, <1>8, <2>1 DEF ListingDone
  <2> QED BY <1>7, <2>3, <2>4, <2>5, <2>6, ShelvesRest DEF ClientInv, ListingGoesOn, CreatingGoesOn, CreatedAreNamed
<1>9. CASE Len(from) # Len(r.libs)
  <2>1. request' = on /\ answer' = answer
    BY <1>0, <1>5, <1>9
  <2>3. ~Creating'
    BY <1>5, <2>1 DEF Creating
  <2>4. \A ref \in Known' : ref \in Known \/ ref \in rows
    BY <1>5, <2>1 DEF Known
  <2>5. ClientTyped'
    BY <1>5, <2>1 DEF ClientInv, ClientTyped, Unmoved
  <2>6. Len(from) < Len(r.libs) /\ Len(from) \in Nat
    BY <1>2, <1>3, <1>9, LenProperties
  <2>7. Lib' = r.libs[Len(from) + 1] /\ Lib' \in Libs
    BY <1>2, <1>5, <2>1, <2>6, ElementOfSeq DEF Lib
  <2>8. ListingGoesOn'
    <3>2. r.clean /\ shelf[Order[1]][Lib'] # Missing => PagesRead(0, {}, r.before[Order[1]][Lib'], shelf[Order[1]][Lib'])
      <4>1. Order[1] \in Connections /\ shelf \in Holdings
        BY OrderHolds DEF ClientInv, ClientTyped
      <4> QED BY <1>2, <2>7, <4>1, FirstPage
    <3>5. request'.libs = r.libs /\ request'.from = from /\ request'.before = r.before /\ request'.clean = r.clean /\ request'.rows = rows
          /\ request'.at = 1 /\ request'.page = 0 /\ request'.got = {}
      BY <1>5, <2>1
    <3>3. Follows(request.before, request.clean)'
      BY <1>2, <3>5 DEF Follows, Unmoved, Shifted
    <3>4. answer' = NoAnswer
      BY <2>1 DEF ClientInv, ListingGoesOn
    <3>6. Done(request.libs, request.from, request.rows, request.before, request.clean)'
      BY <1>4, <3>5
    <3>7. PagesRead(request.page, request.got, request.before[Order[request.at]][Lib], shelf[Order[request.at]][Lib])' <=>
            PagesRead(0, {}, r.before[Order[1]][Lib'], shelf[Order[1]][Lib'])
      BY <3>5 DEF PagesRead, Unmoved
    <3> QED BY <1>2, <2>6, <3>2, <3>3, <3>4, <3>5, <3>6, <3>7 DEF ListingGoesOn, Unmoved
  <2>9. CreatedAreNamed' /\ ListingDone'
    BY <2>1 DEF ClientInv, CreatedAreNamed, ListingGoesOn, ListingDone, NoAnswer
  <2> QED BY <1>7, <2>3, <2>4, <2>5, <2>8, <2>9, ShelvesRest DEF ClientInv, CreatingGoesOn, ReadIsOld
<1> QED BY <1>8, <1>9

\* The listing goes on with another page, or another connection.
LEMMA ListGoesOn ==
  ASSUME ClientInv, Listing, Unmoved, answer' = answer, request' \in Listings,
         request'.libs = request.libs, request'.each = request.each, request'.rows = request.rows, request'.from = request.from,
         request'.before = request.before, request'.clean = request.clean,
         \A ref \in request'.got : IsOld(ref) /\ ref.lib = Lib /\ ref.source = Order[request'.at],
         request.clean /\ shelf[Order[request'.at]][Lib] # Missing =>
           PagesRead(request'.page, request'.got, request.before[Order[request'.at]][Lib], shelf[Order[request'.at]][Lib])
  PROVE  ClientInv'
<1>1. request'.op = "list" /\ Lib' = Lib /\ ~Creating'
  BY DEF Listings, Creating, Lib
<1>2. answer = NoAnswer /\ answer.op # "list" /\ answer.op # "create"
  BY DEF ClientInv, ListingGoesOn, NoAnswer
<1>3. ClientTyped'
  BY <1>2 DEF ClientInv, ClientTyped, Unmoved
<1>4. \A ref \in Known' : IsOld(ref)
  BY <1>1, <1>2 DEF ClientInv, ReadIsOld, Known
<1>5. ListingGoesOn'
  <2>1. /\ IsInjective(request.libs) /\ Len(request.from) < Len(request.libs)
        /\ Follows(request.before, request.clean)
        /\ Done(request.libs, request.from, request.rows, request.before, request.clean)
    BY DEF ClientInv, ListingGoesOn
  <2>2. Done(request.libs, request.from, request.rows, request.before, request.clean)'
    BY <2>1
  <2>3. Follows(request.before, request.clean)'
    BY <2>1 DEF Follows, Unmoved
  <2>4. (\A ref \in request.got : ref.lib = Lib /\ ref.source = Order[request.at])'
    BY <1>1
  <2>5. (request.clean /\ shelf[Order[request.at]][Lib] # Missing =>
          PagesRead(request.page, request.got, request.before[Order[request.at]][Lib], shelf[Order[request.at]][Lib]))'
    BY <1>1 DEF Unmoved
  <2> QED BY <1>2, <2>1, <2>2, <2>3, <2>4, <2>5 DEF ListingGoesOn
<1> QED BY <1>1, <1>2, <1>3, <1>4, <1>5, ShelvesRest DEF ClientInv, ListingDone, CreatingGoesOn, CreatedAreNamed

LEMMA ThrownStep == ASSUME ClientInv, Unmoved, NEW of, NEW reason, Thrown([op |-> of], reason) PROVE ClientInv'
<1>1. request' = None /\ answer' = [op |-> "failed", of |-> of, reason |-> reason]
  BY DEF Thrown
<1>2. answer'.op # "list" /\ answer'.op # "create" /\ ~Listing' /\ ~Creating'
  BY <1>1 DEF Listing, Creating
<1>3. Known' = {}
  BY <1>2 DEF Known
<1>4. ClientTyped'
  BY <1>1, <1>2 DEF ClientInv, ClientTyped, Unmoved
<1> QED BY <1>2, <1>3, <1>4, ShelvesRest DEF ClientInv, ListingGoesOn, ListingDone, CreatingGoesOn, CreatedAreNamed

LEMMA ListFailsStep ==
  ASSUME ClientInv, Listing, Unmoved, NEW reason, ListFails(reason),
         reason = "not-found" => shelf[Order[request.at]][Lib] = Missing
  PROVE  ClientInv'
<1> DEFINE r == request
<1>1. /\ r \in Listings /\ r.op = "list" /\ r.libs \in Seq(Libs) /\ r.before \in Holdings /\ r.at \in DOMAIN Order
      /\ Follows(r.before, r.clean) /\ Len(r.from) < Len(r.libs) /\ Len(r.from) \in Nat
  BY LenProperties DEF ClientInv, ClientTyped, Listing, Listings, Creates, ListingGoesOn
<1>2. Lib \in Libs
  BY <1>1, ElementOfSeq DEF Lib
<1>3. CASE FallsThrough(r, reason) /\ r.at < Len(Order)
  <2>1. request' = [r EXCEPT !.at = r.at + 1, !.page = 0, !.got = {}] /\ answer' = answer
    BY <1>3 DEF ListFails, ToNext
  <2>2. r.at + 1 \in DOMAIN Order /\ Order[r.at + 1] \in Connections
    BY <1>1, <1>3, OrderHolds
  <2>3. /\ request' \in Listings /\ request'.libs = r.libs /\ request'.each = r.each /\ request'.rows = r.rows /\ request'.from = r.from
        /\ request'.before = r.before /\ request'.clean = r.clean /\ request'.at = r.at + 1 /\ request'.page = 0 /\ request'.got = {}
    BY <1>1, <2>1, <2>2 DEF Listings
  <2>4. r.clean /\ shelf[Order[r.at + 1]][Lib] # Missing =>
          PagesRead(0, {}, r.before[Order[r.at + 1]][Lib], shelf[Order[r.at + 1]][Lib])
    BY <1>1, <1>2, <2>2, FirstPage DEF ClientInv, ClientTyped
  <2> QED BY <2>1, <2>3, <2>4, ListGoesOn
<1>4. CASE ~(FallsThrough(r, reason) /\ r.at < Len(Order)) /\ r.each /\ Lib # "user" /\ reason = "not-found"
  <2>1. Library([r EXCEPT !.got = {}], None)
    BY <1>4 DEF ListFails
  <2>2. r.at = Len(Order)
    BY <1>1, <1>4, OrderHolds DEF FallsThrough
  <2>3. r.before[Last(Order)][Lib] = Missing
    <3>1. Order[r.at] \in Connections /\ Order[r.at] = Last(Order)
      BY <1>1, <2>2, OrderHolds
    <3> QED BY <1>1, <1>2, <1>4, <3>1 DEF Follows
  <2>4. GivenBy(Lib, None, {}, r.before, r.clean)
    BY <1>4, <2>3 DEF GivenBy
  <2> QED BY <2>1, <2>4, LibraryStep
<1>5. CASE ~(FallsThrough(r, reason) /\ r.at < Len(Order)) /\ ~(r.each /\ Lib # "user" /\ reason = "not-found")
  <2>1. Thrown(r, reason)
    BY <1>5 DEF ListFails
  <2>2. Thrown([op |-> "list"], reason)
    BY <1>1, <2>1 DEF Thrown
  <2> QED BY <2>2, ThrownStep
<1> QED BY <1>3, <1>4, <1>5

LEMMA PageFailsStep == ASSUME ClientInv, PageFails PROVE ClientInv'
<1>1. Listing /\ Unmoved
  BY DEF PageFails, Listing, Unmoved
<1>2. PICK s \in StatusesOf(Order[request.at]) : ListFails(failureFor(s, FALSE))
  BY DEF PageFails
<1>3. failureFor(s, FALSE) # "not-found"
  <2>1. s # 404
    BY ClientAssumption DEF StatusesOf
  <2> QED BY <2>1 DEF failureFor
<1> QED BY <1>1, <1>2, <1>3, ListFailsStep

\* What SubSeq cuts out, counted from the place before it.
LEMMA PartOfSeq ==
  ASSUME NEW S, NEW s \in Seq(S), NEW m \in Nat, NEW n \in Nat, m + 1 <= n, n <= Len(s)
  PROVE  /\ DOMAIN SubSeq(s, m + 1, n) = 1 .. n - m
         /\ Len(SubSeq(s, m + 1, n)) = n - m
         /\ \A i \in 1 .. n - m : SubSeq(s, m + 1, n)[i] = s[m + i]
<1> DEFINE k == m + 1
           t == SubSeq(s, k, n)
<1>1. k \in Int /\ n \in Int /\ k <= n /\ n - k + 1 = n - m
  OBVIOUS
<1>2. Len(t) = n - k + 1 /\ t \in Seq(S) /\ \A i \in 1 .. n - k + 1 : t[i] = s[k + i - 1]
  <2>1. \A i \in k .. n : s[i] \in S
    <3> SUFFICES ASSUME NEW i \in k .. n PROVE s[i] \in S
      OBVIOUS
    <3>1. i \in 1 .. Len(s)
      BY LenProperties
    <3> QED BY <3>1, ElementOfSeq
  <2> HIDE DEF k
  <2> QED BY <1>1, <2>1, SubSeqProperties, SMTT(30)
<1>3. \A i \in 1 .. n - m : k + i - 1 = m + i
  OBVIOUS
<1>4. DOMAIN t = 1 .. Len(t)
  <2> HIDE DEF t
  <2> QED BY <1>2, LenProperties
<1> HIDE DEF t
<1>5. \A i \in 1 .. n - m : t[i] = s[m + i]
  <2> SUFFICES ASSUME NEW i \in 1 .. n - m PROVE t[i] = s[m + i]
    OBVIOUS
  <2>1. t[i] = s[k + i - 1]
    BY <1>1, <1>2
  <2>2. k + i - 1 = m + i
    BY <1>3
  <2> QED BY <2>1, <2>2
<1> QED BY <1>1, <1>2, <1>4, <1>5 DEF t

\* A page holds the rows at its places, and a page too short is the last.
LEMMA PageOfRows ==
  ASSUME NEW c, NEW l, NEW page \in Nat, shelf[c][l] \in Seq(Items)
  PROVE  /\ \A row \in Range(Body(c, l, page)) : \E k \in DOMAIN shelf[c][l] : row = shelf[c][l][k]
         /\ \A k \in DOMAIN shelf[c][l] : k <= (page + 1) * PAGE_SIZE => k <= page * PAGE_SIZE \/ shelf[c][l][k] \in Range(Body(c, l, page))
         /\ IsLast(Body(c, l, page)) => Len(shelf[c][l]) <= (page + 1) * PAGE_SIZE
<1> DEFINE rows == shelf[c][l]
           first == page * PAGE_SIZE
           next == (page + 1) * PAGE_SIZE
           end == IF next < Len(rows) THEN next ELSE Len(rows)
           body == SubSeq(rows, first + 1, end)
<1>1. PAGE_SIZE \in Nat \ {0} /\ first \in Nat /\ next \in Nat /\ next = first + PAGE_SIZE
  <2>1. PAGE_SIZE \in Nat \ {0}
    BY ClientAssumption
  <2> QED BY <2>1
<1>2. rows \in Seq(Items) /\ Len(rows) \in Nat /\ DOMAIN rows = 1 .. Len(rows) /\ Body(c, l, page) = body
  BY LenProperties DEF Body
<1> HIDE DEF rows, first, next
<1>3. end \in Nat /\ end <= Len(rows) /\ end <= next
  BY <1>1, <1>2
<1>4. CASE first + 1 <= end
  <2>1. /\ DOMAIN body = 1 .. end - first /\ Len(body) = end - first /\ \A i \in 1 .. end - first : body[i] = rows[first + i]
    BY <1>1, <1>2, <1>3, <1>4, PartOfSeq
  <2> HIDE DEF body
  <2>2. \A row \in Range(body) : \E k \in DOMAIN rows : row = rows[k]
    <3> SUFFICES ASSUME NEW j \in DOMAIN body PROVE \E k \in DOMAIN rows : body[j] = rows[k]
      BY DEF Range
    <3>1. first + j \in DOMAIN rows
      BY <1>1, <1>2, <1>3, <2>1
    <3> QED BY <2>1, <3>1
  <2>3. \A k \in DOMAIN rows : k <= next => k <= first \/ rows[k] \in Range(body)
    <3> SUFFICES ASSUME NEW k \in DOMAIN rows, k <= next, k > first PROVE rows[k] \in Range(body)
      BY <1>1, <1>2
    <3>1. k - first \in 1 .. end - first /\ first + (k - first) = k
      BY <1>1, <1>2
    <3> QED BY <2>1, <3>1 DEF Range
  <2>4. Len(body) < PAGE_SIZE => Len(rows) <= next
    BY <1>1, <1>2, <2>1
  <2> QED BY <1>2, <2>2, <2>3, <2>4 DEF IsLast, rows, first, next
<1>5. CASE ~(first + 1 <= end)
  <2>1. body = <<>>
    BY <1>1, <1>2, <1>3, <1>5, SubSeqProperties
  <2>2. Range(body) = {} /\ Len(rows) <= first /\ Len(rows) <= next
    BY <1>1, <1>2, <1>5, <2>1 DEF Range
  <2>3. \A k \in DOMAIN rows : k <= first
    BY <1>1, <1>2, <2>2
  <2> QED BY <1>2, <2>2, <2>3 DEF rows, first, next
<1> QED BY <1>4, <1>5

LEMMA FromTheEnd == ASSUME NEW m \in Nat, NEW n \in Nat, m <= n, NEW i \in 1 .. m
                    PROVE  i + n - m \in 1 .. n /\ i + n - m \in Int /\ i + n - m <= n
  OBVIOUS

LEMMA AskPageStep == ASSUME ClientInv, AskPage PROVE ClientInv'
<1> DEFINE r == request
           c == Order[r.at]
           rows == shelf[c][Lib]
           body == Body(c, Lib, r.page)
           fresh == Converted(Wanted(body), c, Lib)
           got == r.got \cup fresh
<1>0. Listing /\ Unmoved
  BY DEF AskPage, Listing, Unmoved
<1>1. /\ r \in Listings /\ r.op = "list" /\ r.libs \in Seq(Libs) /\ r.before \in Holdings /\ r.at \in DOMAIN Order /\ r.page \in Nat
      /\ r.got \subseteq Refs /\ Len(r.from) \in Nat
  BY <1>0, LenProperties DEF ClientInv, ClientTyped, Listing, Listings, Creates
<1>2. /\ Follows(r.before, r.clean) /\ Len(r.from) < Len(r.libs) /\ \A ref \in r.got : ref.lib = Lib /\ ref.source = c
      /\ r.clean /\ rows # Missing => PagesRead(r.page, r.got, r.before[c][Lib], rows)
  BY <1>0 DEF ClientInv, ListingGoesOn
<1>3. Lib \in Libs /\ c \in Connections /\ shelf \in Holdings
  BY <1>1, <1>2, ElementOfSeq, OrderHolds DEF Lib, ClientInv, ClientTyped
<1>4. CASE rows = Missing
  <2>1. ListFails("not-found")
    BY <1>4 DEF AskPage
  <2> QED BY <1>0, <1>4, <2>1, ListFailsStep
<1>5. CASE rows # Missing
  <2>1. rows \in Seq(Items) /\ Len(rows) \in Nat /\ DOMAIN rows = 1 .. Len(rows) /\ \A k \in DOMAIN rows : rows[k] \in Items
    BY <1>3, <1>5, ShelfHolds, LenProperties, ElementOfSeq
  <2>2. /\ \A row \in Range(body) : \E k \in DOMAIN rows : row = rows[k]
        /\ \A k \in DOMAIN rows : k <= (r.page + 1) * PAGE_SIZE => k <= r.page * PAGE_SIZE \/ rows[k] \in Range(body)
        /\ IsLast(body) => Len(rows) <= (r.page + 1) * PAGE_SIZE
    BY <1>1, <2>1, PageOfRows
  <2>3. IF IsLast(body) THEN Library([r EXCEPT !.got = got], c)
        ELSE IF r.page + 1 = MAX_PAGES THEN ListFails("server")
        ELSE request' = [[r EXCEPT !.got = got] EXCEPT !.page = @ + 1] /\ UNCHANGED answer
    <3>1. [r EXCEPT !.got = @ \cup fresh] = [r EXCEPT !.got = got]
      OBVIOUS
    <3> QED BY <1>5, <3>1 DEF AskPage
  <2> HIDE DEF body
  <2>4. \A ref \in fresh : ref.lib = Lib /\ ref.source = c /\ \E k \in DOMAIN rows :
           ref = [id |-> rows[k].id, version |-> rows[k].version, text |-> rows[k].text, source |-> c, lib |-> Lib]
    BY <2>2 DEF Converted, Wanted
  <2>5. \A k \in DOMAIN rows : rows[k].fits /\ rows[k] \in Range(body) => \E ref \in fresh : ref.id = rows[k].id
    <3> SUFFICES ASSUME NEW k \in DOMAIN rows, rows[k].fits, rows[k] \in Range(body) PROVE \E ref \in fresh : ref.id = rows[k].id
      OBVIOUS
    <3> DEFINE ref == [id |-> rows[k].id, version |-> rows[k].version, text |-> rows[k].text, source |-> c, lib |-> Lib]
    <3>1. ref \in fresh
      BY DEF Converted, Wanted
    <3> QED BY <3>1
  <2> HIDE DEF fresh
  <2>6. fresh \subseteq Refs
    <3> SUFFICES ASSUME NEW ref \in fresh PROVE ref \in Refs
      OBVIOUS
    <3>1. PICK k \in DOMAIN rows : ref = [id |-> rows[k].id, version |-> rows[k].version, text |-> rows[k].text, source |-> c, lib |-> Lib]
      BY <2>4
    <3> QED BY <1>3, <2>1, <3>1 DEF Refs, Items
  <2>7. \A ref \in got : IsOld(ref) /\ ref.lib = Lib /\ ref.source = c
    <3>1. \A ref \in r.got : IsOld(ref)
      BY <1>0 DEF ClientInv, ReadIsOld, Known
    <3>2. ASSUME NEW ref \in fresh PROVE IsOld(ref)
      <4>1. PICK k \in DOMAIN rows : ref = [id |-> rows[k].id, version |-> rows[k].version, text |-> rows[k].text, source |-> c, lib |-> Lib]
        BY <2>4, <3>2
      <4>2. IdUsed(rows[k].id) /\ \A i \in DOMAIN rows : rows[i].id = rows[k].id => i = k
        BY <1>3, <1>5 DEF ClientInv, OneOfEachId
      <4>3. rows[k].version <= rows[k].version
        <5>1. rows[k].version \in Nat
          BY <2>1 DEF Items
        <5> QED BY <5>1
      <4> QED BY <1>5, <4>1, <4>2, <4>3 DEF IsOld, Fits
    <3> QED BY <1>2, <2>4, <3>1, <3>2
  <2>8. r.before[c][Lib] # Missing
    BY <1>2, <1>3, <1>5 DEF Follows
  <2>9. r.clean => PagesRead(r.page + 1, got, r.before[c][Lib], rows)
    <3> DEFINE then == r.before[c][Lib]
    <3> SUFFICES ASSUME r.clean, NEW i \in DOMAIN then, i + Len(rows) - Len(then) <= (r.page + 1) * PAGE_SIZE, then[i].fits
                 PROVE  \E ref \in got : ref.id = then[i].id
      BY DEF PagesRead
    <3> DEFINE k == i + Len(rows) - Len(then)
    <3>1. then \in Seq(Items) /\ Len(then) \in Nat /\ DOMAIN then = 1 .. Len(then)
      BY <1>1, <1>3, <2>8, ShelfHolds, LenProperties
    <3>2. Len(then) <= Len(rows) /\ then[i] = rows[k]
      <4>1. Shifted(then, rows)
        BY <1>2, <1>3, <1>5 DEF Follows
      <4> HIDE DEF rows, then
      <4> QED BY <4>1 DEF Shifted
    <3>3. k \in DOMAIN rows
      <4>1. i \in 1 .. Len(then)
        BY <3>1
      <4> HIDE DEF rows, then
      <4> QED BY <2>1, <3>1, <3>2, <4>1, FromTheEnd
    <3>4. CASE k <= r.page * PAGE_SIZE
      BY <1>2, <1>5, <3>4 DEF PagesRead
    <3>5. CASE rows[k] \in Range(body)
      BY <2>5, <3>2, <3>3, <3>5
    <3> QED BY <2>2, <3>3, <3>4, <3>5
  <2>10. CASE IsLast(body)
    <3>1. GivenBy(Lib, c, got, r.before, r.clean)
      <4>1. ASSUME r.clean, NEW i \in DOMAIN r.before[c][Lib], r.before[c][Lib][i].fits
            PROVE  \E ref \in got : ref.lib = Lib /\ ref.id = r.before[c][Lib][i].id
        <5>1. r.before[c][Lib] \in Seq(Items) /\ Len(r.before[c][Lib]) \in Nat /\ DOMAIN r.before[c][Lib] = 1 .. Len(r.before[c][Lib])
          BY <1>1, <1>3, <2>8, ShelfHolds, LenProperties
        <5>2. i + Len(rows) - Len(r.before[c][Lib]) <= Len(rows) /\ i + Len(rows) - Len(r.before[c][Lib]) \in Int
          <6>1. i \in 1 .. Len(r.before[c][Lib])
            BY <4>1, <5>1
          <6>2. Len(r.before[c][Lib]) <= Len(rows)
            BY <1>2, <1>3, <1>5, <4>1 DEF Follows, Shifted
          <6> HIDE DEF rows
          <6> QED BY <2>1, <5>1, <6>1, <6>2, FromTheEnd
        <5>3. (r.page + 1) * PAGE_SIZE \in Nat
          BY <1>1, ClientAssumption, SMTT(30)
        <5>4. i + Len(rows) - Len(r.before[c][Lib]) <= (r.page + 1) * PAGE_SIZE
          <6>1. Len(rows) <= (r.page + 1) * PAGE_SIZE
            BY <2>2, <2>10
          <6> HIDE DEF rows
          <6> QED BY ONLY <2>1, <5>2, <5>3, <6>1
        <5> QED BY <2>7, <2>9, <4>1, <5>4 DEF PagesRead
      <4> QED BY <1>3, <2>7, <2>8, <4>1, OrderHolds DEF GivenBy
    <3> HIDE DEF got
    <3> QED BY <1>0, <1>1, <1>3, <2>3, <2>6, <2>7, <2>10, <3>1, LibraryStep DEF got
  <2>11. CASE ~IsLast(body) /\ r.page + 1 = MAX_PAGES
    BY <1>0, <2>3, <2>11, ListFailsStep
  <2>12. CASE ~IsLast(body) /\ r.page + 1 # MAX_PAGES
    <3>1. request' = [[r EXCEPT !.got = got] EXCEPT !.page = @ + 1] /\ answer' = answer
      BY <2>3, <2>12
    <3>2. got \subseteq Refs /\ r.page + 1 \in Nat
      BY <1>1, <2>6
    <3> HIDE DEF got
    <3>3. /\ request' \in Listings /\ request'.libs = r.libs /\ request'.each = r.each /\ request'.rows = r.rows /\ request'.from = r.from
          /\ request'.before = r.before /\ request'.clean = r.clean /\ request'.at = r.at /\ request'.page = r.page + 1 /\ request'.got = got
      BY <1>1, <3>1, <3>2 DEF Listings
    <3> QED BY <1>0, <2>7, <2>9, <3>1, <3>3, ListGoesOn
  <2> QED BY <2>10, <2>11, <2>12
<1> QED BY <1>4, <1>5

\* While nothing is read and nothing to be said
LEMMA Afresh ==
  ASSUME ClientInv, UNCHANGED shelf, edits' \in Nat, calls' \in Nat, edits' <= edits, calls' <= calls
  PROVE  OneOfEachId'
<1>1. ASSUME NEW id, IdUsed(id), id[1] \in Nat, id[2] \in Nat PROVE IdUsed(id)'
  BY <1>1 DEF IdUsed, ClientInv, ClientTyped
<1>2. ASSUME NEW c \in Connections, NEW l \in Libs, shelf[c][l] # Missing, NEW i \in DOMAIN shelf[c][l]
      PROVE  shelf[c][l][i].id[1] \in Nat /\ shelf[c][l][i].id[2] \in Nat
  <2>1. shelf[c][l][i] \in Items
    BY <1>2, ShelfHolds, ElementOfSeq, LenProperties DEF ClientInv, ClientTyped
  <2> QED BY <2>1 DEF Items
<1>3. ASSUME NEW c \in Connections, NEW l \in Libs, shelf[c][l] # Missing, NEW i \in DOMAIN shelf[c][l]
      PROVE  IdUsed(shelf[c][l][i].id)'
  <2>1. IdUsed(shelf[c][l][i].id)
    BY <1>3 DEF ClientInv, OneOfEachId
  <2>2. edits' <= edits /\ calls' <= calls /\ edits \in Nat /\ calls \in Nat /\ shelf' = shelf
    BY DEF ClientInv, ClientTyped
  <2>3. shelf[c][l][i].id[1] \in Nat /\ shelf[c][l][i].id[2] \in Nat
    BY <1>2, <1>3
  <2> QED BY <2>1, <2>2, <2>3 DEF IdUsed
<1> QED BY <1>3 DEF ClientInv, OneOfEachId

LEMMA StartListStep == ASSUME ClientInv, StartList PROVE ClientInv'
<1>1. PICK libs \in {libraries} \cup {<<l>> : l \in Range(libraries)} :
        request' = [op |-> "list", libs |-> libs, each |-> libs = libraries, at |-> 1, page |-> 0, got |-> {},
                    rows |-> {}, from |-> <<>>, before |-> shelf, clean |-> TRUE]
  BY DEF StartList
<1> DEFINE r == [op |-> "list", libs |-> libs, each |-> libs = libraries, at |-> 1, page |-> 0, got |-> {},
                 rows |-> {}, from |-> <<>>, before |-> shelf, clean |-> TRUE]
<1>2. answer' = NoAnswer /\ accepted' = {} /\ shelf' = shelf /\ edits' = edits /\ calls' = calls - 1 /\ calls > 0
      /\ answer'.op # "list" /\ answer'.op # "create" /\ shelf \in Holdings /\ edits \in Nat /\ calls \in Nat
  BY DEF StartList, ClientInv, ClientTyped, NoAnswer
<1>3. libs \in Seq(Libs) /\ IsInjective(libs) /\ Len(libs) \in Nat /\ Len(libs) > 0
  <2>1. CASE libs = libraries
    BY <2>1, LibsHold
  <2>2. ASSUME NEW l \in Range(libraries), libs = <<l>> PROVE libs \in Seq(Libs) /\ IsInjective(libs) /\ Len(libs) = 1
    BY <2>2 DEF Libs, IsInjective
  <2> QED BY <2>1, <2>2
<1>4. r \in Listings
  BY <1>2, <1>3, OrderHolds DEF Listings
<1>5. ClientTyped'
  BY <1>1, <1>2, <1>4 DEF ClientTyped
<1>6. OneOfEachId'
  BY <1>2, Afresh
<1>7. ReadIsOld' /\ ~Creating' /\ ListingDone' /\ CreatedAreNamed' /\ CreatingGoesOn'
  BY <1>1, <1>2 DEF ReadIsOld, Known, Creating, ListingDone, CreatedAreNamed, CreatingGoesOn
<1>8. \A clean \in BOOLEAN : Follows(shelf, clean)
  BY <1>2, ShelfHolds, LenProperties DEF Follows, Shifted
<1>9. Lib' = libs[1] /\ libs[1] \in Libs
  BY <1>1, <1>3, ElementOfSeq DEF Lib
<1>10. shelf[Order[1]][libs[1]] # Missing => PagesRead(0, {}, shelf[Order[1]][libs[1]], shelf[Order[1]][libs[1]])
  <2>1. PICK clean \in BOOLEAN : clean = TRUE
    OBVIOUS
  <2>2. Follows(shelf, clean)
    BY <1>8
  <2>3. Order[1] \in Connections
    BY OrderHolds
  <2> QED BY <1>2, <1>9, <2>1, <2>2, <2>3, FirstPage
<1>11. Done(libs, <<>>, {}, shelf, TRUE)
  BY DEF Done
<1>12. ListingGoesOn'
  <2>1. /\ request'.libs = libs /\ request'.from = <<>> /\ request'.rows = {} /\ request'.got = {} /\ request'.before = shelf
        /\ request'.clean = TRUE /\ request'.at = 1 /\ request'.page = 0
    BY <1>1
  <2>2. Follows(request.before, request.clean)'
    BY <1>2, <1>8, <2>1 DEF Follows
  <2>3. Done(request.libs, request.from, request.rows, request.before, request.clean)'
    BY <1>11, <2>1
  <2>4. (request.clean /\ shelf[Order[request.at]][Lib] # Missing =>
           PagesRead(request.page, request.got, request.before[Order[request.at]][Lib], shelf[Order[request.at]][Lib]))'
    BY <1>2, <1>9, <1>10, <2>1
  <2> QED BY <1>2, <1>3, <2>1, <2>2, <2>3, <2>4 DEF ListingGoesOn
<1> QED BY <1>5, <1>6, <1>7, <1>12 DEF ClientInv

LEMMA StartCreateStep == ASSUME ClientInv, StartCreate PROVE ClientInv'
<1>1. PICK n \in 1 .. Bodies, lib \in Range(libraries) :
        request' = [op |-> "create", lib |-> lib, n |-> n, at |-> 1, offset |-> 0, created |-> <<>>]
  BY DEF StartCreate
<1>2. answer' = NoAnswer /\ accepted' = {} /\ shelf' = shelf /\ edits' = edits /\ calls' = calls - 1 /\ calls > 0
      /\ answer'.op # "list" /\ answer'.op # "create" /\ shelf \in Holdings /\ edits \in Nat /\ calls \in Nat
  BY DEF StartCreate, ClientInv, ClientTyped, NoAnswer
<1>3. n \in Nat /\ n > 0 /\ lib \in Libs
  BY ClientAssumption DEF Libs
<1>4. ClientTyped'
  <2>1. [op |-> "create", lib |-> lib, n |-> n, at |-> 1, offset |-> 0, created |-> <<>>] \in Creates
    BY <1>3, OrderHolds DEF Creates
  <2> QED BY <1>1, <1>2, <2>1 DEF ClientTyped
<1>5. OneOfEachId'
  BY <1>2, Afresh
<1>6. ReadIsOld' /\ ~Listing' /\ ListingDone' /\ CreatedAreNamed' /\ ListingGoesOn'
  BY <1>1, <1>2 DEF ReadIsOld, Known, Listing, ListingDone, CreatedAreNamed, ListingGoesOn
<1>7. CreatingGoesOn'
  <2>1. ASSUME NEW c \in Connections, NEW l \in Libs, shelf[c][l] # Missing, NEW i \in DOMAIN shelf[c][l], NEW b \in Nat
        PROVE  shelf[c][l][i].id # <<2 + calls', b>>
    <3>1. IdUsed(shelf[c][l][i].id)
      BY <2>1 DEF ClientInv, OneOfEachId
    <3> QED BY <1>2, <3>1 DEF IdUsed
  <2>2. (\A j \in DOMAIN Order, l \in Libs : j >= request.at /\ shelf[Order[j]][l] # Missing => NotYet(j, shelf[Order[j]][l]))'
    BY <1>2, <2>1, OrderHolds DEF NotYet, NewId
  <2> QED BY <1>1, <1>2, <1>3, <2>2 DEF CreatingGoesOn
<1> QED BY <1>4, <1>5, <1>6, <1>7 DEF ClientInv

(* Writes, and the user's.                                                  *)

Distinct(rows) == \A i, j \in DOMAIN rows : rows[i].id = rows[j].id => i = j

LEMMA ShelfMoves ==
  ASSUME ClientInv, NEW c \in Connections, NEW l \in Libs, NEW rows \in Seq(Items), shelf[c][l] # Missing,
         shelf' = [shelf EXCEPT ![c][l] = rows]
  PROVE  /\ shelf' \in Holdings
         /\ \A d \in Connections, m \in Libs : shelf'[d][m] = IF d = c /\ m = l THEN rows ELSE shelf[d][m]
         /\ \A d \in Connections, m \in Libs : shelf'[d][m] = Missing <=> shelf[d][m] = Missing
<1>1. rows # Missing /\ shelf \in Holdings
  BY ClientAssumption DEF ClientInv, ClientTyped
<1>2. shelf' \in Holdings
  BY <1>1 DEF Holdings, Libs
<1>3. \A d \in Connections, m \in Libs : shelf'[d][m] = IF d = c /\ m = l THEN rows ELSE shelf[d][m]
  BY <1>1 DEF Holdings, Libs
<1> QED BY <1>1, <1>2, <1>3

\* Of the rows of one library.
LEMMA RowsAre ==
  ASSUME ClientInv, NEW c \in Connections, NEW l \in Libs, shelf[c][l] # Missing
  PROVE  /\ shelf[c][l] \in Seq(Items) /\ Len(shelf[c][l]) \in Nat /\ DOMAIN shelf[c][l] = 1 .. Len(shelf[c][l])
         /\ \A i \in DOMAIN shelf[c][l] : shelf[c][l][i] \in Items /\ IdUsed(shelf[c][l][i].id)
         /\ Distinct(shelf[c][l])
<1>1. shelf[c][l] \in Seq(Items)
  BY ShelfHolds DEF ClientInv, ClientTyped
<1> QED BY <1>1, LenProperties, ElementOfSeq DEF ClientInv, OneOfEachId, Distinct

LEMMA InFront ==
  ASSUME NEW a \in Seq(Items), NEW s \in Seq(Items)
  PROVE  /\ a \o s \in Seq(Items) /\ DOMAIN (a \o s) = 1 .. Len(a) + Len(s) /\ Len(a \o s) = Len(a) + Len(s)
         /\ \A k \in 1 .. Len(a) : (a \o s)[k] = a[k]
         /\ \A k \in 1 .. Len(a) + Len(s) : k > Len(a) => k - Len(a) \in DOMAIN s /\ (a \o s)[k] = s[k - Len(a)]
         /\ Distinct(a) /\ Distinct(s) /\ (\A i \in DOMAIN a, j \in DOMAIN s : a[i].id # s[j].id) => Distinct(a \o s)
<1>1. a \o s \in Seq(Items) /\ Len(a \o s) = Len(a) + Len(s) /\ Len(a) \in Nat /\ Len(s) \in Nat /\ DOMAIN a = 1 .. Len(a) /\ DOMAIN s = 1 .. Len(s)
      /\ DOMAIN (a \o s) = 1 .. Len(a) + Len(s)
  BY LenProperties, ConcatProperties
<1>2. \A k \in 1 .. Len(a) + Len(s) : (a \o s)[k] = IF k <= Len(a) THEN a[k] ELSE s[k - Len(a)]
  BY ConcatProperties
<1>3. \A k \in 1 .. Len(a) : (a \o s)[k] = a[k]
  BY <1>1, <1>2
<1>4. \A k \in 1 .. Len(a) + Len(s) : k > Len(a) => k - Len(a) \in DOMAIN s /\ (a \o s)[k] = s[k - Len(a)]
  BY <1>1, <1>2
<1> DEFINE t == a \o s
<1>5. ASSUME Distinct(a), Distinct(s), \A i \in DOMAIN a, j \in DOMAIN s : a[i].id # s[j].id,
             NEW i \in DOMAIN t, NEW j \in DOMAIN t, t[i].id = t[j].id
      PROVE  i = j
  <2>1. i \in 1 .. Len(a) + Len(s) /\ j \in 1 .. Len(a) + Len(s)
    BY <1>1
  <2> HIDE DEF t
  <2>2. CASE i <= Len(a) /\ j <= Len(a)
    BY <1>1, <1>3, <1>5, <2>1, <2>2 DEF Distinct, t
  <2>3. CASE i > Len(a) /\ j > Len(a)
    <3>1. i - Len(a) \in DOMAIN s /\ j - Len(a) \in DOMAIN s /\ t[i] = s[i - Len(a)] /\ t[j] = s[j - Len(a)]
      BY <1>4, <2>1, <2>3 DEF t
    <3>2. i - Len(a) = j - Len(a)
      BY <1>5, <3>1 DEF Distinct
    <3> QED BY <1>1, <2>1, <3>2
  <2>4. CASE i <= Len(a) /\ j > Len(a)
    BY <1>1, <1>3, <1>4, <1>5, <2>1, <2>4 DEF t
  <2>5. CASE i > Len(a) /\ j <= Len(a)
    BY <1>1, <1>3, <1>4, <1>5, <2>1, <2>5 DEF t
  <2> QED BY <1>1, <2>1, <2>2, <2>3, <2>4, <2>5
<1> QED BY <1>1, <1>3, <1>4, <1>5 DEF Distinct

LEMMA TakenOut ==
  ASSUME NEW s \in Seq(Items), NEW i \in DOMAIN s
  PROVE  /\ RemoveAt(s, i) \in Seq(Items) /\ Len(RemoveAt(s, i)) = Len(s) - 1
         /\ \A k \in DOMAIN RemoveAt(s, i) : \E m \in DOMAIN s \ {i} : m = (IF k < i THEN k ELSE k + 1) /\ RemoveAt(s, i)[k] = s[m]
         /\ Distinct(s) => Distinct(RemoveAt(s, i))
<1> DEFINE a == SubSeq(s, 1, i - 1)
           b == SubSeq(s, i + 1, Len(s))
           t == RemoveAt(s, i)
<1>1. Len(s) \in Nat /\ DOMAIN s = 1 .. Len(s) /\ i \in 1 .. Len(s)
  BY LenProperties
<1>2. a \in Seq(Items) /\ Len(a) = i - 1 /\ \A k \in 1 .. i - 1 : a[k] = s[k]
  BY <1>1, SubSeqProperties
<1>3. b \in Seq(Items) /\ Len(b) = Len(s) - i /\ \A k \in 1 .. Len(s) - i : b[k] = s[i + k]
  BY <1>1, SubSeqProperties, SMTT(30)
<1>4. t = a \o b
  BY DEF RemoveAt
<1> HIDE DEF a, b, t
<1>5. t \in Seq(Items) /\ DOMAIN t = 1 .. Len(s) - 1 /\ Len(t) = Len(s) - 1
  <2>1. t \in Seq(Items) /\ Len(t) = Len(a) + Len(b) /\ DOMAIN t = 1 .. Len(a) + Len(b)
    BY <1>2, <1>3, <1>4, InFront
  <2>2. Len(a) + Len(b) = Len(s) - 1
    BY <1>1, <1>2, <1>3
  <2> QED BY <2>1, <2>2
<1>6. \A k \in DOMAIN t : \E m \in DOMAIN s \ {i} : m = (IF k < i THEN k ELSE k + 1) /\ t[k] = s[m]
  <2> SUFFICES ASSUME NEW k \in DOMAIN t PROVE \E m \in DOMAIN s \ {i} : m = (IF k < i THEN k ELSE k + 1) /\ t[k] = s[m]
    OBVIOUS
  <2>1. CASE k < i
    <3>1. k \in 1 .. Len(a) /\ k \in 1 .. i - 1 /\ k \in DOMAIN s \ {i}
      BY <1>1, <1>2, <1>5, <2>1
    <3> QED BY <1>2, <1>3, <1>4, <2>1, <3>1, InFront
  <2>2. CASE k >= i
    <3>1. k > Len(a) /\ k \in 1 .. Len(a) + Len(b) /\ k + 1 \in DOMAIN s \ {i} /\ k - Len(a) \in 1 .. Len(s) - i /\ i + (k - Len(a)) = k + 1
      BY <1>1, <1>2, <1>3, <1>5, <2>2, SMTT(30)
    <3>2. t[k] = b[k - Len(a)]
      BY <1>2, <1>3, <1>4, <3>1, InFront
    <3>3. t[k] = s[k + 1]
      BY <1>3, <3>1, <3>2
    <3> QED BY <1>1, <1>5, <2>2, <3>1, <3>3, SMTT(30)
  <2> QED BY <1>1, <1>5, <2>1, <2>2
<1>7. Distinct(s) => Distinct(t)
  <2> SUFFICES ASSUME Distinct(s), NEW j \in DOMAIN t, NEW k \in DOMAIN t, t[j].id = t[k].id PROVE j = k
    BY DEF Distinct
  <2>1. PICK m \in DOMAIN s \ {i} : m = (IF j < i THEN j ELSE j + 1) /\ t[j] = s[m]
    BY <1>6
  <2>2. PICK n \in DOMAIN s \ {i} : n = (IF k < i THEN k ELSE k + 1) /\ t[k] = s[n]
    BY <1>6
  <2>3. m = n
    BY <2>1, <2>2 DEF Distinct
  <2> QED BY <1>1, <1>5, <2>1, <2>2, <2>3
<1> QED BY <1>5, <1>6, <1>7 DEF t

\* Where one row is rewritten, it goes to the front.
LEMMA RowChanged ==
  ASSUME NEW s \in Seq(Items), NEW i \in DOMAIN s, Distinct(s), NEW text \in {"theirs", "ours"}
  PROVE  LET t == Changed(s, i, Rewritten(s[i], text)) IN
         /\ t \in Seq(Items) /\ Distinct(t)
         /\ \A k \in DOMAIN t : \E m \in DOMAIN s : t[k].id = s[m].id /\ (t[k] = s[m] \/ (m = i /\ t[k].version = s[m].version + 1))
<1> DEFINE row == Rewritten(s[i], text)
           out == RemoveAt(s, i)
           t == <<row>> \o out
<1>1. s[i] \in Items /\ row \in Items /\ row.id = s[i].id /\ row.version = s[i].version + 1
  <2>1. s[i] \in Items
    BY ElementOfSeq, LenProperties
  <2>2. \A it \in Items : /\ Rewritten(it, text) \in Items /\ Rewritten(it, text).id = it.id
                          /\ Rewritten(it, text).version = it.version + 1
    <3> SUFFICES ASSUME NEW it \in Items
                 PROVE  /\ Rewritten(it, text) \in Items /\ Rewritten(it, text).id = it.id
                        /\ Rewritten(it, text).version = it.version + 1
      OBVIOUS
    <3> DEFINE v == it.version + 1
    <3>1. v \in Nat /\ text \in {"first", "theirs", "new", "ours"}
      BY SMTT(30) DEF Items
    <3> HIDE DEF v
    <3>2. [it EXCEPT !.text = text, !.version = v] \in Items /\ [it EXCEPT !.text = text, !.version = v].id = it.id
          /\ [it EXCEPT !.text = text, !.version = v].version = v
      BY <3>1 DEF Items
    <3>3. Rewritten(it, text) = [it EXCEPT !.text = text, !.version = v]
      BY DEF Rewritten, v
    <3> QED BY <3>2, <3>3 DEF v
  <2> QED BY <2>1, <2>2
<1>2. /\ out \in Seq(Items) /\ Distinct(out) /\ Len(out) \in Nat
      /\ \A k \in DOMAIN out : \E m \in DOMAIN s \ {i} : out[k] = s[m]
  BY TakenOut, LenProperties
<1> HIDE DEF row, out
<1>3. <<row>> \in Seq(Items) /\ Len(<<row>>) = 1 /\ DOMAIN <<row>> = {1} /\ <<row>>[1] = row /\ Distinct(<<row>>)
  BY <1>1 DEF Distinct
<1>4. \A k \in DOMAIN <<row>>, j \in DOMAIN out : <<row>>[k].id # out[j].id
  BY <1>1, <1>2, <1>3 DEF Distinct
<1>5. t \in Seq(Items) /\ Distinct(t) /\ DOMAIN t = 1 .. 1 + Len(out) /\ t[1] = row
      /\ \A k \in 1 .. 1 + Len(out) : k > 1 => k - 1 \in DOMAIN out /\ t[k] = out[k - 1]
  <2> DEFINE a == <<row>>
  <2>1. a \in Seq(Items) /\ Len(a) = 1 /\ DOMAIN a = {1} /\ a[1] = row /\ Distinct(a) /\ \A k \in DOMAIN a, j \in DOMAIN out : a[k].id # out[j].id
    BY <1>3, <1>4
  <2> HIDE DEF a
  <2>2. t = a \o out
    BY DEF a
  <2> HIDE DEF t
  <2>3. t \in Seq(Items) /\ DOMAIN t = 1 .. Len(a) + Len(out) /\ Distinct(t)
    BY <1>2, <2>1, <2>2, InFront
  <2>4. t[1] = a[1]
    <3>1. 1 \in 1 .. Len(a) + Len(out) /\ 1 <= Len(a)
      BY <1>2, <2>1
    <3>2. (a \o out)[1] = a[1]
      BY <1>2, <2>1, <3>1, ConcatProperties
    <3> QED BY <2>2, <3>2
  <2>5. \A k \in 1 .. Len(a) + Len(out) : k > Len(a) => k - Len(a) \in DOMAIN out /\ t[k] = out[k - Len(a)]
    BY <1>2, <2>1, <2>2, InFront, ZenonT(40)
  <2> QED BY <2>1, <2>3, <2>4, <2>5
<1>6. ASSUME NEW k \in DOMAIN t
      PROVE  \E m \in DOMAIN s : t[k].id = s[m].id /\ (t[k] = s[m] \/ (m = i /\ t[k].version = s[m].version + 1))
  <2>1. CASE k = 1
    BY <1>1, <1>5, <2>1
  <2>2. CASE k # 1
    <3>1. k > 1 /\ k \in 1 .. 1 + Len(out)
      BY <1>2, <1>5, <2>2
    <3> QED BY <1>2, <1>5, <3>1, ZenonT(40)
  <2> QED BY <2>1, <2>2
<1>7. Changed(s, i, Rewritten(s[i], text)) = t
  BY DEF Changed, row, out
<1> HIDE DEF t
<1> QED BY <1>5, <1>6, <1>7

\* Rows are put into one library: those of all the others, and what is known of them, are as they were.
LEMMA OneStillOfEachId ==
  ASSUME ClientInv, NEW c \in Connections, NEW l \in Libs, NEW rows \in Seq(Items), shelf[c][l] # Missing,
         shelf' = [shelf EXCEPT ![c][l] = rows], Distinct(rows), edits' \in Nat, edits' <= edits, calls' \in Nat, calls' <= calls,
         \A k \in DOMAIN rows : IdUsed(rows[k].id)'
  PROVE  OneOfEachId'
<1>1. \A d \in Connections, m \in Libs : shelf'[d][m] = IF d = c /\ m = l THEN rows ELSE shelf[d][m]
  BY ShelfMoves, ZenonT(40)
<1> SUFFICES ASSUME NEW d \in Connections, NEW m \in Libs, shelf'[d][m] # Missing, NEW i \in DOMAIN shelf'[d][m], NEW j \in DOMAIN shelf'[d][m]
             PROVE  IdUsed(shelf[d][m][i].id)' /\ (shelf'[d][m][i].id = shelf'[d][m][j].id => i = j)
  BY DEF OneOfEachId
<1>2. CASE d = c /\ m = l
  <2>1. shelf'[d][m] = rows
    BY <1>1, <1>2
  <2> QED BY <2>1 DEF Distinct, IdUsed
<1>3. CASE ~(d = c /\ m = l)
  <2>1. shelf'[d][m] = shelf[d][m]
    BY <1>1, <1>3
  <2>2. IdUsed(shelf[d][m][i].id) /\ shelf[d][m][i] \in Items /\ (shelf[d][m][i].id = shelf[d][m][j].id => i = j)
    BY <2>1, RowsAre DEF Distinct
  <2>3. shelf[d][m][i].id[1] \in Nat /\ shelf[d][m][i].id[2] \in Nat /\ edits \in Nat /\ calls \in Nat
    BY <2>2 DEF Items, ClientInv, ClientTyped
  <2>4. shelf'[d][m][i].id = shelf'[d][m][j].id => i = j
    BY <2>1, <2>2
  <2>5. PICK id : id = shelf[d][m][i].id
    OBVIOUS
  <2>6. IdUsed(id) /\ id[1] \in Nat /\ id[2] \in Nat
    BY <2>2, <2>3, <2>5
  <2>7. IdUsed(id)'
    BY <2>3, <2>6 DEF IdUsed
  <2>8. IdUsed(shelf[d][m][i].id)'
    <3>1. (shelf[d][m][i].id)' = id
      BY <2>1, <2>5
    <3> QED BY <2>7, <3>1 DEF IdUsed
  <2> QED BY <2>4, <2>8
<1> QED BY <1>2, <1>3

PatchTo(ref, i) == [shelf EXCEPT ![ref.source][ref.lib] = Changed(@, i, Rewritten(@[i], "ours"))]

LEMMA RefsFit == ASSUME ClientInv, NEW ref \in Known
                 PROVE  /\ IsOld(ref) /\ ref \in Refs /\ ref.source \in Connections /\ ref.lib \in Libs /\ ref.version \in Nat
                        /\ shelf[ref.source][ref.lib] # Missing
<1>1. Known \subseteq Refs
  BY DEF ClientInv, ClientTyped, Known, Listing, Listings, Creates, Lists
<1>2. IsOld(ref)
  BY DEF ClientInv, ReadIsOld
<1> QED BY <1>1, <1>2 DEF IsOld, Refs

LEMMA PatchStep == ASSUME ClientInv, Patch PROVE ClientInv'
<1>1. request = None /\ answer.op = "list" /\ request' = None /\ calls' = calls - 1 /\ calls > 0 /\ edits' = edits /\ accepted' = accepted
      /\ calls \in Nat /\ edits \in Nat /\ calls' \in Nat
  BY DEF Patch, ClientInv, ClientTyped
<1>2. PICK ref \in answer.rows : LET rows == shelf[ref.source][ref.lib] IN
        \/ shelf' = shelf /\ answer'.op \in {"failed", "conflict"}
        \/ \E i \in Place(rows, ref.id) : shelf' = PatchTo(ref, i) /\ answer'.op = "patched"
  BY DEF Patch, PatchTo, sourceOf
<1>3. ref \in Known /\ answer'.op # "list" /\ answer'.op # "create" /\ ~Listing' /\ ~Creating'
  BY <1>1, <1>2 DEF Known, Listing, Creating
<1>4. Known' = {}
  BY <1>3 DEF Known
<1>5. shelf' \in Holdings /\ OneOfEachId'
  <2>1. CASE shelf' = shelf
    BY <1>1, <2>1, Afresh DEF ClientInv, ClientTyped
  <2>2. ASSUME NEW i \in Place(shelf[ref.source][ref.lib], ref.id), shelf' = PatchTo(ref, i)
        PROVE  shelf' \in Holdings /\ OneOfEachId'
    <3> DEFINE rows == shelf[ref.source][ref.lib]
    <3>1. ref.source \in Connections /\ ref.lib \in Libs /\ rows # Missing /\ rows \in Seq(Items) /\ Distinct(rows) /\ i \in DOMAIN rows
          /\ \A k \in DOMAIN rows : rows[k] \in Items /\ IdUsed(rows[k].id)
      BY <1>3, <2>2, RefsFit, RowsAre DEF Place
    <3>2. PICK new \in Seq(Items) : /\ new = Changed(rows, i, Rewritten(rows[i], "ours")) /\ Distinct(new)
                                   /\ \A k \in DOMAIN new : \E m \in DOMAIN rows : new[k].id = rows[m].id
      BY <3>1, RowChanged, ZenonT(40)
    <3>3. shelf' = [shelf EXCEPT ![ref.source][ref.lib] = new]
      BY <2>2, <3>1, <3>2 DEF PatchTo, ClientInv, ClientTyped, Holdings, Libs
    <3>4. \A k \in DOMAIN new : IdUsed(new[k].id)'
      <4> SUFFICES ASSUME NEW k \in DOMAIN new PROVE IdUsed(new[k].id)'
        OBVIOUS
      <4>1. PICK m \in DOMAIN rows : new[k].id = rows[m].id
        BY <3>2
      <4>2. IdUsed(new[k].id) /\ new[k].id[1] \in Nat /\ new[k].id[2] \in Nat
        BY <3>1, <4>1 DEF Items
      <4> QED BY <1>1, <4>2 DEF IdUsed
    <3>5. OneOfEachId'
      <4>1. edits' \in Nat /\ edits' <= edits /\ calls' \in Nat /\ calls' <= calls
        BY <1>1
      <4> HIDE DEF rows
      <4>2. shelf[ref.source][ref.lib] # Missing
        BY <3>1 DEF rows
      <4> QED BY <3>1, <3>2, <3>3, <3>4, <4>1, <4>2, OneStillOfEachId
    <3>6. shelf' \in Holdings
      BY <3>1, <3>2, <3>3, ShelfMoves
    <3> QED BY <3>5, <3>6
  <2> QED BY <1>2, <2>1, <2>2
<1>6. ClientTyped'
  BY <1>1, <1>3, <1>5 DEF ClientInv, ClientTyped
<1> QED BY <1>1, <1>3, <1>4, <1>5, <1>6 DEF ClientInv, ReadIsOld, ListingGoesOn, ListingDone, CreatingGoesOn, CreatedAreNamed

\* What the user leaves of a library: rows there were, one of them rewritten, or one of their own.
UsersRows(s, new) ==
  /\ Distinct(new)
  /\ \A k \in DOMAIN new :
        \/ \E m \in DOMAIN s : new[k].id = s[m].id /\ (new[k] = s[m] \/ new[k].version = s[m].version + 1)
        \/ new[k].id = <<1, edits>>

LEMMA UserMoves ==
  ASSUME ClientInv, NEW c \in Connections, NEW l \in Libs, NEW new \in Seq(Items), shelf[c][l] # Missing,
         shelf' = [shelf EXCEPT ![c][l] = new], edits > 0, edits' = edits - 1, calls' = calls, UsersRows(shelf[c][l], new)
  PROVE  OneOfEachId' /\ \A ref \in Known : IsOld(ref)'
<1>1. edits \in Nat /\ edits' \in Nat /\ edits' < edits /\ edits' <= edits /\ calls' \in Nat /\ calls' <= calls
  BY DEF ClientInv, ClientTyped
<1>2. ASSUME NEW id \in Nat \X Nat, IdUsed(id) PROVE IdUsed(id)'
  BY <1>1, <1>2 DEF IdUsed
<1>3. \A k \in DOMAIN new : IdUsed(new[k].id)'
  <2> SUFFICES ASSUME NEW k \in DOMAIN new PROVE IdUsed(new[k].id)'
    OBVIOUS
  <2>1. ASSUME NEW m \in DOMAIN shelf[c][l], new[k].id = shelf[c][l][m].id PROVE IdUsed(new[k].id)'
    <3>1. IdUsed(new[k].id) /\ new[k].id \in Nat \X Nat
      BY <2>1, RowsAre, SMTT(30) DEF Items
    <3> QED BY <1>2, <3>1
  <2>2. CASE new[k].id = <<1, edits>>
    BY <1>1, <2>2 DEF IdUsed
  <2> QED BY <2>1, <2>2 DEF UsersRows
<1>4. OneOfEachId'
  BY <1>1, <1>3, OneStillOfEachId DEF UsersRows
<1>7. \A d \in Connections, m \in Libs : shelf'[d][m] = IF d = c /\ m = l THEN new ELSE shelf[d][m]
  BY ShelfMoves, ZenonT(40)
<1>6. \A d \in Connections, m \in Libs : /\ shelf'[d][m] = IF d = c /\ m = l THEN new ELSE shelf[d][m]
                                         /\ shelf'[d][m] = Missing <=> shelf[d][m] = Missing
  BY <1>7, ClientAssumption
<1>5. ASSUME NEW ref \in Known PROVE IsOld(ref)'
  <2>1. IsOld(ref) /\ ref \in Refs /\ ref.source \in Connections /\ ref.lib \in Libs /\ ref.version \in Nat /\ ref.id \in Nat \X Nat
    BY <1>5, RefsFit DEF Refs
  <2>2. shelf'[ref.source][ref.lib] # Missing /\
        shelf'[ref.source][ref.lib] = IF ref.source = c /\ ref.lib = l THEN new ELSE shelf[ref.source][ref.lib]
    <3>1. shelf[ref.source][ref.lib] # Missing
      BY <2>1 DEF IsOld
    <3>2. /\ shelf'[ref.source][ref.lib] = IF ref.source = c /\ ref.lib = l THEN new ELSE shelf[ref.source][ref.lib]
          /\ shelf'[ref.source][ref.lib] = Missing <=> shelf[ref.source][ref.lib] = Missing
      BY <1>6, <2>1
    <3> QED BY <3>1, <3>2
  <2>3. IdUsed(ref.id)'
    BY <1>2, <2>1 DEF IsOld
  <2>4. ASSUME NEW k \in DOMAIN new, ref.source = c, ref.lib = l PROVE Fits(new[k], ref)
    <3>1. ASSUME NEW m \in DOMAIN shelf[c][l], new[k].id = shelf[c][l][m].id,
                 new[k] = shelf[c][l][m] \/ new[k].version = shelf[c][l][m].version + 1
          PROVE  Fits(new[k], ref)
      <4>1. Fits(shelf[c][l][m], ref) /\ shelf[c][l][m].version \in Nat
        BY <2>1, <2>4, RowsAre DEF IsOld, Items
      <4> QED BY <2>1, <3>1, <4>1 DEF Fits
    <3>2. CASE new[k].id = <<1, edits>>
      <4>1. ref.id # <<1, edits>>
        BY <1>1, <2>1 DEF IsOld, IdUsed
      <4> QED BY <3>2, <4>1 DEF Fits
    <3> QED BY <3>1, <3>2 DEF UsersRows
  <2>5. \A i \in DOMAIN shelf'[ref.source][ref.lib] : Fits(shelf'[ref.source][ref.lib][i], ref)
    BY <2>1, <2>2, <2>4 DEF IsOld
  <2> QED BY <2>2, <2>3, <2>5 DEF IsOld
<1> QED BY <1>4, <1>5

\* Nothing of a listing is found wanting that was not.
LEMMA DirtyIsDone ==
  ASSUME NEW libs, NEW from, NEW rows, NEW before, NEW clean, Done(libs, from, rows, before, clean)
  PROVE  Done(libs, from, rows, before, FALSE)
  BY DEF Done, GivenBy

LEMMA InsertedShifts ==
  ASSUME NEW before \in Seq(Items), NEW latest \in Seq(Items), NEW it \in Items, Shifted(before, latest)
  PROVE  /\ Shifted(before, <<it>> \o latest)
         /\ \A page, got : PagesRead(page, got, before, latest) /\ page * PAGE_SIZE \in Nat => PagesRead(page, got, before, <<it>> \o latest)
<1> DEFINE a == <<it>>
           new == a \o latest
           m == Len(before)
           n == Len(latest)
<1>1. a \in Seq(Items) /\ Len(a) = 1 /\ m \in Nat /\ n \in Nat /\ DOMAIN before = 1 .. m /\ m <= n
  BY LenProperties DEF Shifted
<1> HIDE DEF a
<1>2. Len(new) = n + 1 /\ \A k \in 1 .. n : new[k + 1] = latest[k]
  <2>1. Len(new) = Len(a) + Len(latest) /\ \A k \in 1 .. Len(a) + Len(latest) : k > Len(a) => new[k] = latest[k - Len(a)]
    BY <1>1, InFront
  <2>2. ASSUME NEW k \in 1 .. n PROVE new[k + 1] = latest[k]
    <3>1. k + 1 \in 1 .. Len(a) + Len(latest) /\ k + 1 > Len(a) /\ k + 1 - Len(a) = k
      BY <1>1
    <3> HIDE DEF new
    <3> QED BY <2>1, <3>1
  <2> QED BY <1>1, <2>1, <2>2
<1>3. ASSUME NEW i \in DOMAIN before
      PROVE  before[i] = new[i + Len(new) - m] /\ i + Len(new) - m = (i + n - m) + 1 /\ i + n - m \in 1 .. n
  <2>1. i \in 1 .. m
    BY <1>1
  <2>2. i + Len(new) - m = (i + n - m) + 1 /\ i + n - m \in 1 .. n
    <3> HIDE DEF new, m, n
    <3> QED BY <1>1, <1>2, <2>1, SMTT(30)
  <2>3. before[i] = latest[i + n - m]
    BY DEF Shifted
  <2> QED BY <1>2, <2>2, <2>3
<1>4. Shifted(before, new)
  <2>1. m <= Len(new)
    BY <1>1, <1>2
  <2> QED BY <1>3, <2>1 DEF Shifted
<1>5. ASSUME NEW page, NEW got, PagesRead(page, got, before, latest), page * PAGE_SIZE \in Nat
      PROVE  PagesRead(page, got, before, new)
  <2> SUFFICES ASSUME NEW i \in DOMAIN before, i + Len(new) - m <= page * PAGE_SIZE, before[i].fits
               PROVE  \E r \in got : r.id = before[i].id
    BY DEF PagesRead
  <2>1. i + n - m <= page * PAGE_SIZE
    <3> DEFINE p == page * PAGE_SIZE
               q == i + n - m
    <3>1. q + 1 <= p /\ p \in Nat /\ q \in Int
      BY <1>3, <1>5
    <3> HIDE DEF p, q
    <3>2. q <= p
      BY <3>1
    <3> QED BY <3>2 DEF p, q
  <2> QED BY <1>5, <2>1 DEF PagesRead
<1> QED BY <1>4, <1>5 DEF a

\* The user rewrites, removes or adds a row.
LEMMA UserWorks ==
  ASSUME ClientInv, NEW c \in Connections, NEW l \in Libs, NEW new \in Seq(Items), shelf[c][l] # Missing,
         shelf' = [shelf EXCEPT ![c][l] = new], edits > 0, edits' = edits - 1, UNCHANGED <<answer, accepted, calls>>, Matters,
         UsersRows(shelf[c][l], new),
         \/ request' = Dirty
         \/ request' = request /\ \E it \in Items : new = <<it>> \o shelf[c][l]
  PROVE  ClientInv'
<1>1. OneOfEachId' /\ \A ref \in Known : IsOld(ref)'
  BY UserMoves
<1>2. /\ shelf' \in Holdings /\ edits' \in Nat
      /\ \A d \in Connections, m \in Libs : shelf'[d][m] = IF d = c /\ m = l THEN new ELSE shelf[d][m]
      /\ \A d \in Connections, m \in Libs : shelf'[d][m] = Missing <=> shelf[d][m] = Missing
  <2>1. shelf' \in Holdings
    BY ShelfMoves
  <2>2. \A d \in Connections, m \in Libs : shelf'[d][m] = IF d = c /\ m = l THEN new ELSE shelf[d][m]
    BY ShelfMoves, ZenonT(40)
  <2>3. \A d \in Connections, m \in Libs : shelf'[d][m] = Missing <=> shelf[d][m] = Missing
    BY <2>2, ClientAssumption
  <2> QED BY <2>1, <2>2, <2>3 DEF ClientInv, ClientTyped
<1>3. CASE request = None
  <2>1. request' = request /\ answer.op = "list"
    BY <1>3 DEF Dirty, Matters
  <2>2. Known' = Known /\ ~Listing' /\ ~Creating'
    BY <1>3, <2>1 DEF Known, Listing, Creating
  <2>3. ReadIsOld'
    BY <1>1, <2>2 DEF ReadIsOld
  <2>4. ClientTyped'
    BY <1>2, <2>1 DEF ClientInv, ClientTyped
  <2>5. ListingDone'
    BY DEF ClientInv, ListingDone
  <2> QED BY <1>1, <2>1, <2>2, <2>3, <2>4, <2>5 DEF ClientInv, ListingGoesOn, CreatingGoesOn, CreatedAreNamed
<1>4. CASE request # None
  <2> DEFINE r == request
  <2>1. Listing /\ r \in Listings /\ answer = NoAnswer /\ answer.op # "list" /\ answer.op # "create"
    <3>1. Listing
      BY <1>4 DEF Matters, Listing
    <3> QED BY <3>1 DEF Listing, ClientInv, ClientTyped, Creates, ListingGoesOn, NoAnswer
  <2>2. /\ request' \in Listings /\ request'.op = "list" /\ request'.libs = r.libs /\ request'.each = r.each /\ request'.at = r.at
        /\ request'.page = r.page /\ request'.got = r.got /\ request'.rows = r.rows /\ request'.from = r.from
        /\ request'.before = r.before /\ (request'.clean = FALSE \/ (request' = r /\ \E it \in Items : new = <<it>> \o shelf[c][l]))
    <3>1. CASE request' = Dirty
      <4>1. request' = [r EXCEPT !.clean = FALSE]
        BY <2>1, <3>1 DEF Dirty, Listing
      <4> QED BY <2>1, <4>1 DEF Listings
    <3>2. CASE request' = r /\ \E it \in Items : new = <<it>> \o shelf[c][l]
      BY <2>1, <3>2 DEF Listing
    <3> QED BY <3>1, <3>2
  <2>3. Lib' = Lib /\ ~Creating' /\ Known' \subseteq Known
    BY <2>1, <2>2 DEF Lib, Creating, Known
  <2>4. ReadIsOld'
    BY <1>1, <2>3 DEF ReadIsOld
  <2>5. ClientTyped'
    BY <1>2, <2>1, <2>2 DEF ClientInv, ClientTyped
  <2>6. /\ IsInjective(r.libs) /\ Len(r.from) < Len(r.libs) /\ Follows(r.before, r.clean) /\ Done(r.libs, r.from, r.rows, r.before, r.clean)
        /\ \A ref \in r.got : ref.lib = Lib /\ ref.source = Order[r.at]
        /\ r.clean /\ shelf[Order[r.at]][Lib] # Missing => PagesRead(r.page, r.got, r.before[Order[r.at]][Lib], shelf[Order[r.at]][Lib])
    BY <2>1 DEF ClientInv, ListingGoesOn
  <2>7. /\ r.libs \in Seq(Libs) /\ r.at \in DOMAIN Order /\ Len(r.from) \in Nat /\ r.before \in Holdings /\ r.page \in Nat
        /\ Lib \in Libs /\ Order[r.at] \in Connections
    <3>1. r.libs \in Seq(Libs) /\ r.at \in DOMAIN Order /\ Len(r.from) \in Nat /\ r.before \in Holdings /\ r.page \in Nat
      BY <2>1, LenProperties DEF Listings
    <3> QED BY <2>6, <3>1, ElementOfSeq, OrderHolds, SMTT(30) DEF Lib
  <2>8. CASE request'.clean = FALSE
    <3>1. Done(r.libs, r.from, r.rows, r.before, FALSE)
      BY <2>6, DirtyIsDone
    <3>2. Done(request.libs, request.from, request.rows, request.before, request.clean)'
      BY <2>2, <2>8, <3>1
    <3>3. Follows(request.before, request.clean)'
      BY <1>2, <2>2, <2>6, <2>8 DEF Follows
    <3>4. ListingGoesOn'
      BY <2>1, <2>2, <2>3, <2>6, <2>8, <3>2, <3>3 DEF ListingGoesOn
    <3> QED BY <1>1, <2>1, <2>3, <2>4, <2>5, <3>4 DEF ClientInv, ListingDone, CreatingGoesOn, CreatedAreNamed
  <2>9. ASSUME request' = r, NEW it \in Items, new = <<it>> \o shelf[c][l] PROVE ClientInv'
    <3>1. ASSUME r.clean, NEW d \in Connections, NEW m \in Libs, shelf[d][m] # Missing
          PROVE  /\ Shifted(r.before[d][m], shelf'[d][m])
                 /\ PagesRead(r.page, r.got, r.before[d][m], shelf[d][m]) => PagesRead(r.page, r.got, r.before[d][m], shelf'[d][m])
      <4>1. shelf[d][m] \in Seq(Items) /\ r.before[d][m] \in Seq(Items) /\ Shifted(r.before[d][m], shelf[d][m]) /\ r.page * PAGE_SIZE \in Nat
        <5>1. shelf[d][m] \in Seq(Items) /\ Shifted(r.before[d][m], shelf[d][m]) /\ r.before[d][m] # Missing
          BY <2>6, <3>1, RowsAre DEF Follows
        <5>2. r.before[d][m] \in Seq(Items)
          BY <2>7, <5>1, ShelfHolds
        <5>3. r.page * PAGE_SIZE \in Nat
          BY <2>7, ClientAssumption, SMTT(30)
        <5> QED BY <5>1, <5>2, <5>3
      <4>2. CASE d = c /\ m = l
        <5>1. shelf'[d][m] = <<it>> \o shelf[d][m]
          BY <1>2, <2>9, <4>2, ZenonT(40)
        <5> QED BY <4>1, <5>1, InsertedShifts
      <4>3. CASE ~(d = c /\ m = l)
        <5>1. shelf'[d][m] = shelf[d][m]
          BY <1>2, <4>3
        <5> QED BY <4>1, <5>1
      <4> QED BY <4>2, <4>3
    <3>2. Follows(request.before, request.clean)'
      BY <1>2, <2>6, <2>9, <3>1 DEF Follows
    <3>3. (request.clean /\ shelf[Order[request.at]][Lib] # Missing =>
             PagesRead(request.page, request.got, request.before[Order[request.at]][Lib], shelf[Order[request.at]][Lib]))'
      <4>1. request'.clean = r.clean /\ request'.page = r.page /\ request'.got = r.got /\ request'.before = r.before /\ request'.at = r.at /\ Lib' = Lib
        BY <2>3, <2>9
      <4>2. shelf'[Order[r.at]][Lib] # Missing => shelf[Order[r.at]][Lib] # Missing
        BY <1>2, <2>7, <2>9
      <4>3. r.clean /\ shelf[Order[r.at]][Lib] # Missing
              => PagesRead(r.page, r.got, r.before[Order[r.at]][Lib], shelf'[Order[r.at]][Lib])
        BY <2>6, <2>7, <3>1, Zenon
      <4> QED BY <4>1, <4>2, <4>3
    <3>4. Done(request.libs, request.from, request.rows, request.before, request.clean)'
      BY <2>6, <2>9
    <3>5. ListingGoesOn'
      BY <2>1, <2>3, <2>6, <2>9, <3>2, <3>3, <3>4 DEF ListingGoesOn
    <3> QED BY <1>1, <2>1, <2>3, <2>4, <2>5, <3>5 DEF ClientInv, ListingDone, CreatingGoesOn, CreatedAreNamed
  <2> QED BY <2>2, <2>8, <2>9
<1> QED BY <1>3, <1>4

LEMMA UserEditsStep == ASSUME ClientInv, UserEdits PROVE ClientInv'
<1>1. edits > 0 /\ edits' = edits - 1 /\ Matters /\ UNCHANGED <<answer, accepted, calls>> /\ edits \in Nat
  BY DEF UserEdits, ClientInv, ClientTyped
<1>2. PICK c \in Connections, l \in Libs :
        /\ shelf[c][l] # Missing
        /\ \/ \E i \in DOMAIN shelf[c][l] :
                /\ request' = Dirty
                /\ \/ shelf' = [shelf EXCEPT ![c][l] = Changed(@, i, Rewritten(@[i], "theirs"))]
                   \/ shelf' = [shelf EXCEPT ![c][l] = RemoveAt(@, i)]
           \/ /\ shelf' = [shelf EXCEPT ![c][l] = <<[id |-> <<1, edits>>, version |-> 1, text |-> "theirs", fits |-> TRUE]>> \o @]
              /\ request' = request
  BY DEF UserEdits, Libs
<1> DEFINE s == shelf[c][l]
           Put(new) == shelf' = [shelf EXCEPT ![c][l] = new]
<1>3. /\ s \in Seq(Items) /\ Len(s) \in Nat /\ DOMAIN s = 1 .. Len(s) /\ Distinct(s)
      /\ \A k \in DOMAIN s : s[k] \in Items /\ IdUsed(s[k].id)
  BY <1>2, RowsAre
<1>4. \A new : shelf' = [shelf EXCEPT ![c][l] = new] <=> Put(new)
  OBVIOUS
<1>5. \A i : /\ [shelf EXCEPT ![c][l] = Changed(@, i, Rewritten(@[i], "theirs"))] = [shelf EXCEPT ![c][l] = Changed(s, i, Rewritten(s[i], "theirs"))]
             /\ [shelf EXCEPT ![c][l] = RemoveAt(@, i)] = [shelf EXCEPT ![c][l] = RemoveAt(s, i)]
  BY DEF ClientInv, ClientTyped, Holdings, Libs
<1>6. ASSUME NEW i \in DOMAIN s, request' = Dirty, Put(Changed(s, i, Rewritten(s[i], "theirs"))) PROVE ClientInv'
  <2>1. PICK new \in Seq(Items) : /\ new = Changed(s, i, Rewritten(s[i], "theirs")) /\ UsersRows(s, new)
    BY <1>3, RowChanged, ZenonT(40) DEF UsersRows
  <2> QED BY <1>1, <1>2, <1>6, <2>1, UserWorks
<1>7. ASSUME NEW i \in DOMAIN s, request' = Dirty, Put(RemoveAt(s, i)) PROVE ClientInv'
  <2>1. PICK new : new = RemoveAt(s, i)
    OBVIOUS
  <2>2. new \in Seq(Items) /\ Distinct(new) /\ \A k \in DOMAIN new : \E m \in DOMAIN s : new[k] = s[m]
    <3>3. s \in Seq(Items) /\ i \in DOMAIN s /\ Distinct(s)
      BY <1>3, <1>7
    <3> HIDE DEF s, Put
    <3>1. RemoveAt(s, i) \in Seq(Items) /\ Distinct(RemoveAt(s, i))
      BY ONLY <3>3, TakenOut
    <3>2. \A k \in DOMAIN RemoveAt(s, i) : \E m \in DOMAIN s \ {i} : m = (IF k < i THEN k ELSE k + 1) /\ RemoveAt(s, i)[k] = s[m]
      BY ONLY <3>3, TakenOut
    <3> QED BY <2>1, <3>1, <3>2
  <2>3. UsersRows(s, new)
    BY <2>2 DEF UsersRows
  <2> QED BY <1>1, <1>2, <1>7, <2>1, <2>2, <2>3, UserWorks
<1>8. ASSUME NEW it, it = [id |-> <<1, edits>>, version |-> 1, text |-> "theirs", fits |-> TRUE], request' = request, Put(<<it>> \o s) PROVE ClientInv'
  <2>1. it \in Items /\ it.id = <<1, edits>>
    BY <1>1, <1>8 DEF Items
  <2>2. \A k \in DOMAIN s : s[k].id # <<1, edits>>
    BY <1>1, <1>3 DEF IdUsed
  <2> DEFINE a == <<it>>
  <2>3. a \in Seq(Items) /\ Len(a) = 1 /\ DOMAIN a = {1} /\ a[1] = it /\ Distinct(a) /\ \A k \in DOMAIN a, j \in DOMAIN s : a[k].id # s[j].id
    BY <2>1, <2>2 DEF Distinct
  <2> HIDE DEF a
  <2>4. PICK new : new = a \o s
    OBVIOUS
  <2>6. /\ new \in Seq(Items) /\ Distinct(new) /\ DOMAIN new = 1 .. Len(a) + Len(s) /\ (\A k \in 1 .. Len(a) : new[k] = a[k])
        /\ \A k \in 1 .. Len(a) + Len(s) : k > Len(a) => k - Len(a) \in DOMAIN s /\ new[k] = s[k - Len(a)]
    BY <1>3, <2>3, <2>4, InFront, ZenonT(40)
  <2>5. UsersRows(s, new)
    <3>1. ASSUME NEW k \in DOMAIN new, k = 1 PROVE new[k].id = <<1, edits>>
      <4>1. 1 \in 1 .. Len(a)
        BY <2>3
      <4> QED BY <2>1, <2>3, <2>6, <3>1, <4>1
    <3>2. ASSUME NEW k \in DOMAIN new, k # 1 PROVE \E m \in DOMAIN s : new[k].id = s[m].id /\ new[k] = s[m]
      <4>1. k \in 1 .. Len(a) + Len(s) /\ k > Len(a)
        BY <1>3, <2>3, <2>6, <3>2
      <4> QED BY <2>6, <4>1
    <3> QED BY <2>6, <3>1, <3>2 DEF UsersRows
  <2> QED BY <1>1, <1>2, <1>8, <2>1, <2>4, <2>5, <2>6, UserWorks DEF a
<1> HIDE DEF s
<1>9. CASE \E i \in DOMAIN s : request' = Dirty /\ shelf' = [shelf EXCEPT ![c][l] = Changed(@, i, Rewritten(@[i], "theirs"))]
  BY <1>5, <1>6, <1>9
<1>10. CASE \E i \in DOMAIN s : request' = Dirty /\ shelf' = [shelf EXCEPT ![c][l] = RemoveAt(@, i)]
  BY <1>5, <1>7, <1>10
<1>11. CASE shelf' = [shelf EXCEPT ![c][l] = <<[id |-> <<1, edits>>, version |-> 1, text |-> "theirs", fits |-> TRUE]>> \o @] /\ request' = request
  <2>1. shelf' = [shelf EXCEPT ![c][l] = <<[id |-> <<1, edits>>, version |-> 1, text |-> "theirs", fits |-> TRUE]>> \o s]
    BY <1>11 DEF s, ClientInv, ClientTyped, Holdings, Libs
  <2> QED BY <1>8, <1>11, <2>1
<1> QED BY <1>2, <1>9, <1>10, <1>11 DEF s

(* What is created.                                                         *)

LEMMA BatchIs ==
  ASSUME ClientInv, Creating
  PROVE  /\ request \in Creates /\ request.op = "create" /\ request.at \in DOMAIN Order /\ Order[request.at] \in Connections
         /\ request.lib \in Libs /\ request.offset \in Nat /\ BatchEnd \in Nat /\ request.offset < BatchEnd /\ BatchEnd <= request.n
         /\ BatchOf = request.offset + 1 .. BatchEnd /\ calls \in Nat /\ edits \in Nat /\ shelf \in Holdings /\ request.n \in Nat
<1>1. request \in Creates /\ request.op = "create"
  BY DEF ClientInv, ClientTyped, Creating, Listings
<1>2. MAX_BATCH \in Nat \ {0}
  BY ClientAssumption
<1>3. request.offset < request.n
  BY DEF ClientInv, CreatingGoesOn
<1> QED BY <1>1, <1>2, <1>3, OrderHolds DEF Creates, BatchEnd, BatchOf, ClientInv, ClientTyped

LEMMA SetInOrder ==
  ASSUME NEW S, IsFiniteSet(S)
  PROVE  SetToSeq(S) \in Seq(S) /\ \A i, j \in DOMAIN SetToSeq(S) : SetToSeq(S)[i] = SetToSeq(S)[j] => i = j
<1>1. Cardinality(S) \in Nat /\ ExistsBijection(1 .. Cardinality(S), S)
  BY FS_CardinalityType
<1>2. PICK f \in [1 .. Cardinality(S) -> S] : IsInjective(f)
  BY <1>1 DEF ExistsBijection, Bijection, Injection
<1>3. SetToSeq(S) \in [1 .. Cardinality(S) -> S] /\ IsInjective(SetToSeq(S))
  BY <1>2 DEF SetToSeq
<1> QED BY <1>1, <1>3 DEF IsInjective

LEMMA RowsMade ==
  ASSUME ClientInv, Creating, NEW taken \in SUBSET BatchOf
  PROVE  LET made == SetToSeq({Created(b) : b \in taken}) IN
         made \in Seq(Items) /\ Distinct(made) /\ \A i \in DOMAIN made : \E b \in taken : made[i].id = NewId(b)
<1> DEFINE S == {Created(b) : b \in taken}
           made == SetToSeq(S)
<1>1. IsFiniteSet(taken)
  <2>1. IsFiniteSet(BatchOf)
    <3>1. BatchOf = request.offset + 1 .. BatchEnd /\ request.offset + 1 \in Int /\ BatchEnd \in Int
      BY BatchIs
    <3> QED BY <3>1, FS_Interval
  <2> QED BY <2>1, FS_Subset
<1>2. IsFiniteSet(S)
  <2> DEFINE f == [b \in taken |-> Created(b)]
  <2>1. f \in Surjection(taken, S)
    BY DEF Surjection
  <2> HIDE DEF f, S
  <2> QED BY <1>1, <2>1, FS_Surjection
<1>3. \A b \in taken : Created(b) \in Items /\ Created(b).id = NewId(b)
  BY BatchIs DEF Created, NewId, Items
<1>4. made \in Seq(S) /\ \A i, j \in DOMAIN made : made[i] = made[j] => i = j
  BY <1>2, SetInOrder
<1>5. S \subseteq Items
  BY <1>3
<1>6. \A i \in DOMAIN made : made[i] \in S
  BY <1>4, ElementOfSeq, LenProperties
<1>7. made \in Seq(Items)
  BY <1>4, <1>5
<1> HIDE DEF made
<1>8. \A i \in DOMAIN made : \E b \in taken : made[i] = Created(b)
  BY <1>6
<1>9. \A b, e \in taken : NewId(b) = NewId(e) => b = e
  BY DEF NewId
<1>10. Distinct(made)
  BY <1>3, <1>4, <1>8, <1>9 DEF Distinct
<1> QED BY <1>3, <1>7, <1>8, <1>10 DEF made

\* After a batch that landed, or not: what there is of the create.
Landed ==
  /\ shelf' \in Holdings /\ OneOfEachId' /\ accepted' \subseteq [body : Nat, by : Connections]
  /\ \A j \in DOMAIN Order, l \in Libs : j >= request.at /\ shelf'[Order[j]][l] # Missing =>
       \A i \in DOMAIN shelf'[Order[j]][l], b \in Nat : shelf'[Order[j]][l][i].id = NewId(b) => j = request.at /\ b <= BatchEnd
  /\ \A x \in accepted' : \E j \in DOMAIN Order : j <= request.at /\ x.by = Order[j] /\ (j = request.at => x.body <= BatchEnd)

LEMMA NothingLanded == ASSUME ClientInv, Creating, Unmoved PROVE Landed
<1>1. OneOfEachId'
  BY Afresh, BatchIs DEF Unmoved
<1>2. ASSUME NEW j \in DOMAIN Order, NEW l \in Libs, j >= request.at, shelf[Order[j]][l] # Missing, NEW i \in DOMAIN shelf[Order[j]][l], NEW b \in Nat,
             shelf[Order[j]][l][i].id = NewId(b)
      PROVE  j = request.at /\ b <= BatchEnd
  <2>1. j = request.at /\ b <= request.offset
    BY <1>2 DEF ClientInv, CreatingGoesOn, NotYet
  <2> QED BY <2>1, BatchIs
<1>3. ASSUME NEW x \in accepted PROVE \E j \in DOMAIN Order : j <= request.at /\ x.by = Order[j] /\ (j = request.at => x.body <= BatchEnd)
  <2>1. PICK j \in DOMAIN Order : j <= request.at /\ x.by = Order[j] /\ (j = request.at => x.body <= request.offset)
    BY <1>3 DEF ClientInv, CreatingGoesOn
  <2>2. x.body \in Nat
    BY DEF ClientInv, ClientTyped
  <2> QED BY <2>1, <2>2, BatchIs
<1> QED BY <1>1, <1>2, <1>3 DEF Landed, Unmoved, ClientInv, ClientTyped

LEMMA BatchLanded ==
  ASSUME ClientInv, Creating, UNCHANGED <<edits, calls>>, NEW taken \in SUBSET BatchOf, shelf[Order[request.at]][request.lib] # Missing,
         Takes(Order[request.at], taken)
  PROVE  Landed
<1> DEFINE c == Order[request.at]
           l == request.lib
           s == shelf[c][l]
<1>0. PICK made \in Seq(Items) : /\ made = SetToSeq({Created(b) : b \in taken}) /\ Distinct(made)
                                /\ \A i \in DOMAIN made : \E b \in taken : made[i].id = NewId(b)
  BY RowsMade
<1>1. c \in Connections /\ l \in Libs /\ s \in Seq(Items) /\ Len(s) \in Nat /\ DOMAIN s = 1 .. Len(s) /\ Distinct(s)
      /\ \A k \in DOMAIN s : s[k] \in Items /\ IdUsed(s[k].id)
  BY BatchIs, RowsAre
<1>2. PICK new : new = made \o s
  OBVIOUS
<1>3. shelf' = [shelf EXCEPT ![c][l] = new] /\ accepted' = accepted \cup {[body |-> b, by |-> c] : b \in taken}
  BY <1>0, <1>2, BatchIs DEF Takes, Holdings, Libs
<1>4. \A b \in taken : b \in Nat /\ request.offset < b /\ b <= BatchEnd
  BY BatchIs
<1>5. ASSUME NEW k \in DOMAIN s, NEW b \in Nat, s[k].id = NewId(b) PROVE b <= request.offset
  <2>1. request.at \in DOMAIN Order /\ l \in Libs /\ request.at >= request.at
    BY BatchIs, OrderHolds
  <2>2. NotYet(request.at, s)
    BY <2>1 DEF ClientInv, CreatingGoesOn
  <2> HIDE DEF s
  <2> QED BY <1>5, <2>2 DEF NotYet
<1>6. \A i \in DOMAIN made, j \in DOMAIN s : made[i].id # s[j].id
  <2> SUFFICES ASSUME NEW i \in DOMAIN made, NEW j \in DOMAIN s, made[i].id = s[j].id PROVE FALSE
    OBVIOUS
  <2>1. PICK b \in taken : made[i].id = NewId(b)
    BY <1>0
  <2>2. b <= request.offset
    BY <1>4, <1>5, <2>1
  <2> QED BY <1>4, <2>2, BatchIs
<1> HIDE DEF s
<1>7. /\ new \in Seq(Items) /\ DOMAIN new = 1 .. Len(made) + Len(s) /\ Distinct(new)
      /\ \A k \in 1 .. Len(made) : new[k] = made[k]
      /\ \A k \in 1 .. Len(made) + Len(s) : k > Len(made) => k - Len(made) \in DOMAIN s /\ new[k] = s[k - Len(made)]
  BY <1>0, <1>1, <1>2, <1>6, InFront, ZenonT(40)
<1>8. \A k \in DOMAIN new : (\E b \in taken : new[k].id = NewId(b)) \/ \E m \in DOMAIN s : new[k] = s[m]
  <2> SUFFICES ASSUME NEW k \in DOMAIN new PROVE (\E b \in taken : new[k].id = NewId(b)) \/ \E m \in DOMAIN s : new[k] = s[m]
    OBVIOUS
  <2>1. Len(made) \in Nat /\ DOMAIN made = 1 .. Len(made)
    BY <1>0, LenProperties
  <2>2. CASE k <= Len(made)
    <3>1. k \in 1 .. Len(made)
      BY <1>1, <1>7, <2>1, <2>2
    <3>2. k \in DOMAIN made /\ new[k] = made[k]
      BY <1>7, <2>1, <3>1
    <3>3. \E b \in taken : made[k].id = NewId(b)
      BY <1>0, <3>2
    <3> QED BY <3>2, <3>3
  <2>3. CASE k > Len(made)
    BY <1>7, <2>3
  <2> QED BY <1>1, <1>7, <2>1, <2>2, <2>3
<1>9. \A k \in DOMAIN new : IdUsed(new[k].id)'
  <2> SUFFICES ASSUME NEW k \in DOMAIN new PROVE IdUsed(new[k].id)'
    OBVIOUS
  <2>1. ASSUME NEW b \in taken, new[k].id = NewId(b) PROVE IdUsed(new[k].id)'
    <3>1. NewId(b)[1] = 2 + calls /\ calls' = calls /\ calls \in Nat
      BY BatchIs DEF NewId
    <3> QED BY <2>1, <3>1 DEF IdUsed
  <2>2. ASSUME NEW m \in DOMAIN s, new[k] = s[m] PROVE IdUsed(new[k].id)'
    BY <1>1, <2>2 DEF IdUsed
  <2> QED BY <1>8, <2>1, <2>2
<1>10. OneOfEachId'
  <2>1. edits' \in Nat /\ edits' <= edits /\ calls' \in Nat /\ calls' <= calls
    BY BatchIs
  <2> QED BY <1>1, <1>3, <1>7, <1>9, <2>1, OneStillOfEachId
<1>11. shelf' \in Holdings
  BY <1>1, <1>3, <1>7, ShelfMoves
<1>12. \A d \in Connections, m \in Libs : shelf'[d][m] = IF d = c /\ m = l THEN new ELSE shelf[d][m]
  <2>1. shelf \in Holdings
    BY DEF ClientInv, ClientTyped
  <2> HIDE DEF c, l
  <2>2. c \in Connections /\ l \in Libs
    BY <1>1
  <2>3. \A d \in Connections, m \in Libs : [shelf EXCEPT ![c][l] = new][d][m] = IF d = c /\ m = l THEN new ELSE shelf[d][m]
    BY <2>1, <2>2 DEF Holdings, Libs
  <2> QED BY <1>3, <2>3
<1>13. ASSUME NEW j \in DOMAIN Order, NEW m \in Libs, j >= request.at, shelf'[Order[j]][m] # Missing, NEW i \in DOMAIN shelf'[Order[j]][m], NEW b \in Nat,
             shelf'[Order[j]][m][i].id = NewId(b)
      PROVE  j = request.at /\ b <= BatchEnd
  <2>1. CASE Order[j] = c /\ m = l
    <3>1. j = request.at /\ shelf'[Order[j]][m] = new
      BY <1>1, <1>12, <2>1, OrderHolds, BatchIs
    <3>2. ASSUME NEW e \in taken, new[i].id = NewId(e) PROVE b <= BatchEnd
      BY <1>4, <1>13, <3>1, <3>2 DEF NewId
    <3>3. ASSUME NEW k \in DOMAIN s, new[i] = s[k] PROVE b <= BatchEnd
      <4>1. b <= request.offset
        BY <1>5, <1>13, <3>1, <3>3 DEF s
      <4> QED BY <4>1, BatchIs
    <3> QED BY <1>8, <1>13, <3>1, <3>2, <3>3
  <2>2. CASE ~(Order[j] = c /\ m = l)
    <3>1. shelf'[Order[j]][m] = shelf[Order[j]][m]
      BY <1>12, <2>2, OrderHolds
    <3>2. j = request.at /\ b <= request.offset
      BY <1>13, <3>1 DEF ClientInv, CreatingGoesOn, NotYet
    <3> QED BY <3>2, BatchIs
  <2> QED BY <2>1, <2>2
<1>14. ASSUME NEW x \in accepted' PROVE \E j \in DOMAIN Order : j <= request.at /\ x.by = Order[j] /\ (j = request.at => x.body <= BatchEnd)
  <2>1. CASE x \in accepted
    <3>1. PICK j \in DOMAIN Order : j <= request.at /\ x.by = Order[j] /\ (j = request.at => x.body <= request.offset)
      BY <2>1 DEF ClientInv, CreatingGoesOn
    <3>2. x.body \in Nat
      BY <2>1 DEF ClientInv, ClientTyped
    <3> QED BY <3>1, <3>2, BatchIs
  <2>2. ASSUME NEW b \in taken, x = [body |-> b, by |-> c] PROVE \E j \in DOMAIN Order : j <= request.at /\ x.by = Order[j] /\ (j = request.at => x.body <= BatchEnd)
    <3>1. request.at \in DOMAIN Order /\ request.at <= request.at /\ x.by = Order[request.at] /\ x.body <= BatchEnd
      BY <1>4, <2>2, BatchIs, OrderHolds
    <3> QED BY <3>1
  <2> QED BY <1>3, <2>1, <2>2
<1>15. accepted' \subseteq [body : Nat, by : Connections]
  BY <1>1, <1>3, <1>4 DEF ClientInv, ClientTyped
<1> QED BY <1>10, <1>11, <1>13, <1>14, <1>15 DEF Landed

LEMMA CreateFailsStep ==
  ASSUME ClientInv, Creating, Landed, UNCHANGED <<edits, calls>>, NEW reason, CreateFails(reason)
  PROVE  ClientInv'
<1> DEFINE r == request
<1>1. answer = NoAnswer /\ answer.op # "list" /\ answer.op # "create" /\ r.op = "create"
  BY BatchIs DEF ClientInv, CreatingGoesOn, NoAnswer
<1>2. CASE FallsThrough(r, reason) /\ r.at < Len(Order)
  <2>1. request' = [r EXCEPT !.at = r.at + 1, !.offset = 0, !.created = <<>>] /\ answer' = answer
    BY <1>2 DEF CreateFails
  <2>2. r.at + 1 \in DOMAIN Order /\ r.at \in Nat /\ r.at \in DOMAIN Order
    BY <1>2, BatchIs, OrderHolds, SMTT(30)
  <2>3. /\ request' \in Creates /\ request'.op = "create" /\ request'.lib = r.lib /\ request'.n = r.n /\ request'.at = r.at + 1
        /\ request'.offset = 0 /\ request'.created = <<>>
    <3>1. <<>> \in Seq((Nat \X Nat) \cup {None}) /\ 0 \in Nat
      OBVIOUS
    <3> DEFINE S == Seq((Nat \X Nat) \cup {None})
               at == r.at + 1
    <3>2. r \in [op : {"create"}, lib : Libs, n : Nat, at : DOMAIN Order, offset : Nat, created : S] /\ <<>> \in S /\ 0 \in Nat /\ at \in DOMAIN Order
      BY <2>2, <3>1, BatchIs DEF Creates
    <3> HIDE DEF S, at
    <3> DEFINE o == [r EXCEPT !.at = at, !.offset = 0, !.created = <<>>]
    <3>3. o \in [op : {"create"}, lib : Libs, n : Nat, at : DOMAIN Order, offset : Nat, created : S]
          /\ o.op = "create" /\ o.lib = r.lib /\ o.n = r.n /\ o.at = at /\ o.offset = 0 /\ o.created = <<>>
      BY <3>2
    <3> QED BY <2>1, <3>3 DEF S, at, Creates
  <2>4. ~Listing' /\ Known' = {} /\ r.n > 0 /\ r.n \in Nat
    BY <1>1, <2>1, <2>3, BatchIs DEF Listing, Known
  <2>5. ClientTyped'
    BY <1>1, <2>1, <2>3, BatchIs DEF Landed, ClientTyped
  <2>6. (\A j \in DOMAIN Order, l \in Libs : j >= request.at /\ shelf[Order[j]][l] # Missing => NotYet(j, shelf[Order[j]][l]))'
    <3> SUFFICES ASSUME NEW j \in DOMAIN Order, NEW l \in Libs, j >= r.at + 1, shelf'[Order[j]][l] # Missing,
                        NEW i \in DOMAIN shelf'[Order[j]][l], NEW b \in Nat, shelf'[Order[j]][l][i].id = NewId(b)
                 PROVE  FALSE
      BY <2>3 DEF NotYet, NewId
    <3>1. j >= r.at /\ j # r.at
      BY <2>2, OrderHolds
    <3> QED BY <3>1 DEF Landed
  <2>7. (\A x \in accepted : \E j \in DOMAIN Order : j <= request.at /\ x.by = Order[j] /\ (j = request.at => x.body <= request.offset))'
    <3> SUFFICES ASSUME NEW x \in accepted'
                 PROVE  \E j \in DOMAIN Order : j <= r.at + 1 /\ x.by = Order[j] /\ (j = r.at + 1 => x.body <= 0)
      BY <2>3
    <3>1. PICK j \in DOMAIN Order : j <= r.at /\ x.by = Order[j]
      BY DEF Landed
    <3>2. j <= r.at + 1 /\ j # r.at + 1
      BY <2>2, <3>1, OrderHolds
    <3> QED BY <3>1, <3>2
  <2>8. CreatingGoesOn'
    BY <1>1, <2>1, <2>3, <2>4, <2>6, <2>7 DEF CreatingGoesOn
  <2> QED BY <1>1, <2>1, <2>4, <2>5, <2>8 DEF ClientInv, Landed, ReadIsOld, ListingGoesOn, ListingDone, CreatedAreNamed
<1>3. CASE ~(FallsThrough(r, reason) /\ r.at < Len(Order))
  <2>1. request' = None /\ answer' = [op |-> "failed", of |-> r.op, reason |-> reason]
    BY <1>3 DEF CreateFails, Thrown
  <2>2. answer'.op # "list" /\ answer'.op # "create" /\ ~Listing' /\ ~Creating' /\ Known' = {}
    BY <2>1 DEF Listing, Creating, Known
  <2>3. ClientTyped'
    BY <2>1, <2>2, BatchIs DEF Landed, ClientTyped
  <2> QED BY <2>2, <2>3 DEF ClientInv, Landed, ReadIsOld, ListingGoesOn, ListingDone, CreatingGoesOn, CreatedAreNamed
<1> QED BY <1>2, <1>3

\* What a batch that is answered adds to what the call returns.
Made(c, taken) == {[body |-> b, by |-> c] : b \in taken}

LEMMA BatchNamed ==
  ASSUME ClientInv, Creating, NEW taken \in SUBSET BatchOf, NEW c, c = Order[request.at],
         accepted' = accepted \cup Made(c, taken), calls' = calls,
         NEW created, created = request.created \o ByPlace(BatchOf, taken)
  PROVE  /\ created \in Seq((Nat \X Nat) \cup {None}) /\ Len(created) = BatchEnd
         /\ \A b \in DOMAIN created : created[b] = IF [body |-> b, by |-> c] \in accepted' THEN NewId(b) ELSE None
<1> DEFINE old == request.created
           o == request.offset
           new == ByPlace(BatchOf, taken)
           T == (Nat \X Nat) \cup {None}
<1>0. accepted' = accepted \cup {[body |-> b, by |-> c] : b \in taken}
  BY DEF Made
<1>1. old \in Seq(T) /\ Len(old) = o /\ o \in Nat /\ BatchEnd \in Nat /\ o < BatchEnd /\ BatchOf = o + 1 .. BatchEnd /\ calls \in Nat
      /\ \A b \in DOMAIN old : old[b] = IF [body |-> b, by |-> c] \in accepted THEN NewId(b) ELSE None
  BY BatchIs DEF Creates, ClientInv, CreatingGoesOn
<1>2. Cardinality(BatchOf) = BatchEnd - o /\ BatchEnd - o \in Nat
  <2>1. o + 1 \in Int /\ BatchEnd \in Int
    BY <1>1
  <2> HIDE DEF o
  <2>2. Cardinality(o + 1 .. BatchEnd) = BatchEnd - (o + 1) + 1
    BY <1>1, <2>1, FS_Interval
  <2> QED BY <1>1, <2>2
<1>3. new = [i \in 1 .. BatchEnd - o |-> IF o + i \in taken THEN NewId(o + i) ELSE None]
  BY <1>2 DEF ByPlace
<1> HIDE DEF old, o, new, T
<1>4. \A b \in Nat : NewId(b) \in T
  BY <1>1 DEF NewId, T
<1>5. new \in Seq(T) /\ Len(new) = BatchEnd - o /\ DOMAIN new = 1 .. BatchEnd - o
  <2>1. \A i \in 1 .. BatchEnd - o : (IF o + i \in taken THEN NewId(o + i) ELSE None) \in T
    BY <1>1, <1>4 DEF T
  <2>2. new \in [1 .. BatchEnd - o -> T]
    BY <1>3, <2>1
  <2> QED BY <1>2, <2>2
<1>6. created = old \o new
  BY DEF old, new
<1>7. created \in Seq(T) /\ Len(created) = BatchEnd /\ DOMAIN created = 1 .. BatchEnd
      /\ \A b \in 1 .. BatchEnd : created[b] = IF b <= o THEN old[b] ELSE new[b - o]
  <2>1. Len(old) + Len(new) = BatchEnd
    BY <1>1, <1>5
  <2>2. created \in Seq(T) /\ Len(created) = Len(old) + Len(new)
        /\ \A b \in 1 .. Len(old) + Len(new) : created[b] = IF b <= Len(old) THEN old[b] ELSE new[b - Len(old)]
    <3>1. old \o new \in Seq(T) /\ Len(old \o new) = Len(old) + Len(new)
      BY <1>1, <1>5, ConcatProperties
    <3>2. \A b \in 1 .. Len(old) + Len(new) : (old \o new)[b] = IF b <= Len(old) THEN old[b] ELSE new[b - Len(old)]
      <4>1. old \in Seq(T) /\ new \in Seq(T)
        BY <1>1, <1>5
      <4> QED BY <4>1, ConcatProperties, Zenon
    <3> QED BY <1>6, <3>1, <3>2
  <2> QED BY <1>1, <2>1, <2>2, LenProperties
<1>8. \A b \in taken : b \in Nat /\ o < b
  BY <1>1
<1>9. \A x \in accepted : x.by = c => x.body <= o
  <2> SUFFICES ASSUME NEW x \in accepted, x.by = c PROVE x.body <= o
    OBVIOUS
  <2>1. PICK j \in DOMAIN Order : x.by = Order[j] /\ (j = request.at => x.body <= request.offset)
    BY DEF ClientInv, CreatingGoesOn
  <2> QED BY <2>1, BatchIs, OrderHolds DEF o
<1>10. ASSUME NEW b \in 1 .. BatchEnd PROVE created[b] = IF [body |-> b, by |-> c] \in accepted' THEN NewId(b) ELSE None
  <2> DEFINE x == [body |-> b, by |-> c]
  <2>1. x.body = b /\ x.by = c /\ (x \in accepted' <=> x \in accepted \/ b \in taken)
    <3>1. x \in {[body |-> e, by |-> c] : e \in taken} <=> b \in taken
      OBVIOUS
    <3> QED BY <1>0, <3>1
  <2> HIDE DEF x
  <2>2. CASE b <= o
    <3>1. b \notin taken /\ b \in DOMAIN old
      BY <1>1, <1>8, <2>2, LenProperties
    <3>2. created[b] = old[b]
      BY <1>7, <2>2
    <3> QED BY <1>1, <2>1, <3>1, <3>2 DEF x
  <2>3. CASE b > o
    <3>1. x \notin accepted
      BY <1>1, <1>9, <2>1, <2>3
    <3>2. b - o \in 1 .. BatchEnd - o /\ o + (b - o) = b /\ ~(b <= o)
      BY <1>1, <2>3
    <3>3. created[b] = IF b \in taken THEN NewId(b) ELSE None
      BY <1>3, <1>7, <3>2
    <3> QED BY <2>1, <3>1, <3>3 DEF x
  <2>4. b <= o \/ b > o
    BY <1>1
  <2> QED BY <2>2, <2>3, <2>4
<1> QED BY <1>7, <1>10 DEF T

LEMMA BatchGoesOn ==
  ASSUME ClientInv, Creating, Landed, UNCHANGED <<edits, calls>>, NEW taken \in SUBSET BatchOf,
         accepted' = accepted \cup Made(Order[request.at], taken),
         NEW created, created = request.created \o ByPlace(BatchOf, taken),
         IF BatchEnd = request.n
         THEN request' = None /\ answer' = [op |-> "create", by |-> Order[request.at], lib |-> request.lib, created |-> created]
         ELSE request' = [request EXCEPT !.offset = BatchEnd, !.created = created] /\ UNCHANGED answer
  PROVE  ClientInv'
<1> DEFINE r == request
<1>1. answer = NoAnswer /\ answer.op # "list" /\ answer.op # "create" /\ r.op = "create"
  BY BatchIs DEF ClientInv, CreatingGoesOn, NoAnswer
<1>2. /\ created \in Seq((Nat \X Nat) \cup {None}) /\ Len(created) = BatchEnd
      /\ \A b \in DOMAIN created : created[b] = IF [body |-> b, by |-> Order[request.at]] \in accepted' THEN NewId(b) ELSE None
  <2>1. PICK c : c = Order[request.at]
    OBVIOUS
  <2>2. accepted' = accepted \cup Made(c, taken) /\ calls' = calls
    BY <2>1
  <2>3. /\ created \in Seq((Nat \X Nat) \cup {None}) /\ Len(created) = BatchEnd
        /\ \A b \in DOMAIN created : created[b] = IF [body |-> b, by |-> c] \in accepted' THEN NewId(b) ELSE None
    BY <2>1, <2>2, BatchNamed, ZenonT(40)
  <2> QED BY <2>1, <2>3
<1>3. CASE BatchEnd = r.n
  <2>1. request' = None /\ answer' = [op |-> "create", by |-> Order[r.at], lib |-> r.lib, created |-> created]
    BY <1>3
  <2>2. answer'.op = "create" /\ answer'.by = Order[r.at] /\ answer'.created = created /\ ~Listing' /\ ~Creating' /\ Known' = {}
    BY <2>1 DEF Listing, Creating, Known
  <2>3. ClientTyped'
    BY <2>1, <2>2, BatchIs DEF Landed, ClientTyped
  <2>4. CreatedAreNamed'
    BY <1>2, <2>2 DEF CreatedAreNamed, NewId
  <2> QED BY <2>2, <2>3, <2>4 DEF ClientInv, Landed, ReadIsOld, ListingGoesOn, ListingDone, CreatingGoesOn
<1>4. CASE BatchEnd # r.n
  <2>1. request' = [r EXCEPT !.offset = BatchEnd, !.created = created] /\ answer' = answer
    BY <1>4
  <2>2. PICK end \in Nat : end = BatchEnd /\ end < r.n
    BY <1>4, BatchIs
  <2>3. /\ request' \in Creates /\ request'.op = "create" /\ request'.lib = r.lib /\ request'.n = r.n /\ request'.at = r.at
        /\ request'.offset = end /\ request'.created = created
    <3>1. r \in Creates
      BY BatchIs
    <3>2. request' = [r EXCEPT !.offset = end, !.created = created]
      BY <2>1, <2>2
    <3> QED BY <1>2, <3>1, <3>2 DEF Creates
  <2>4. ~Listing' /\ Known' = {}
    BY <1>1, <2>1, <2>3 DEF Listing, Known
  <2>5. ClientTyped'
    BY <1>1, <2>1, <2>3, BatchIs DEF Landed, ClientTyped
  <2>6. (\A j \in DOMAIN Order, l \in Libs : j >= request.at /\ shelf[Order[j]][l] # Missing => NotYet(j, shelf[Order[j]][l]))'
    BY <2>2, <2>3 DEF Landed, NotYet, NewId
  <2>7. (\A x \in accepted : \E j \in DOMAIN Order : j <= request.at /\ x.by = Order[j] /\ (j = request.at => x.body <= request.offset))'
    BY <2>2, <2>3 DEF Landed
  <2>8. (\A b \in DOMAIN request.created :
          request.created[b] = IF [body |-> b, by |-> Order[request.at]] \in accepted THEN NewId(b) ELSE None)'
    BY <1>2, <2>3 DEF NewId
  <2>9. CreatingGoesOn'
    BY <1>1, <1>2, <2>1, <2>2, <2>3, <2>6, <2>7, <2>8 DEF CreatingGoesOn
  <2> QED BY <1>1, <2>1, <2>4, <2>5, <2>9 DEF ClientInv, Landed, ReadIsOld, ListingGoesOn, ListingDone, CreatedAreNamed
<1> QED BY <1>3, <1>4

LEMMA PostBatchStep == ASSUME ClientInv, PostBatch PROVE ClientInv'
<1> DEFINE c == Order[request.at]
<1>1. Creating /\ UNCHANGED <<edits, calls>>
  BY DEF PostBatch, Creating
<1>2. PICK p \in Permits(c) :
        IF p.says # "ok" THEN CreateFails(p.says) /\ UNCHANGED <<shelf, accepted>>
        ELSE IF shelf[c][request.lib] = Missing THEN CreateFails("not-found") /\ UNCHANGED <<shelf, accepted>>
        ELSE \E taken \in SUBSET BatchOf :
               /\ Takes(c, taken)
               /\ \/ LET created == request.created \o ByPlace(BatchOf, taken) IN
                     IF BatchEnd = request.n
                     THEN request' = None /\ answer' = [op |-> "create", by |-> c, lib |-> request.lib, created |-> created]
                     ELSE request' = [request EXCEPT !.offset = BatchEnd, !.created = created] /\ UNCHANGED answer
                  \/ 0 \in Statuses /\ CreateFails("unreachable")
  BY DEF PostBatch
<1>3. CASE p.says # "ok" \/ shelf[c][request.lib] = Missing
  <2>1. Unmoved /\ \E reason : CreateFails(reason)
    BY <1>1, <1>2, <1>3 DEF Unmoved
  <2> QED BY <1>1, <2>1, NothingLanded, CreateFailsStep
<1>4. CASE ~(p.says # "ok" \/ shelf[c][request.lib] = Missing)
  <2>1. PICK taken \in SUBSET BatchOf :
               /\ Takes(c, taken)
               /\ \/ LET created == request.created \o ByPlace(BatchOf, taken) IN
                     IF BatchEnd = request.n
                     THEN request' = None /\ answer' = [op |-> "create", by |-> c, lib |-> request.lib, created |-> created]
                     ELSE request' = [request EXCEPT !.offset = BatchEnd, !.created = created] /\ UNCHANGED answer
                  \/ 0 \in Statuses /\ CreateFails("unreachable")
    BY <1>2, <1>4
  <2>2. Landed
    BY <1>1, <1>4, <2>1, BatchLanded
  <2>3. CASE CreateFails("unreachable")
    BY <1>1, <2>2, <2>3, CreateFailsStep
  <2>4. PICK created : created = request.created \o ByPlace(BatchOf, taken)
    OBVIOUS
  <2>5. CASE IF BatchEnd = request.n
             THEN request' = None /\ answer' = [op |-> "create", by |-> c, lib |-> request.lib, created |-> created]
             ELSE request' = [request EXCEPT !.offset = BatchEnd, !.created = created] /\ UNCHANGED answer
    <3>1. accepted' = accepted \cup Made(c, taken)
      BY <2>1 DEF Takes, Made
    <3> QED BY <1>1, <2>2, <2>4, <2>5, <3>1, BatchGoesOn
  <2> QED BY <2>1, <2>3, <2>4, <2>5
<1> QED BY <1>3, <1>4

LEMMA PostFailsStep == ASSUME ClientInv, PostFails PROVE ClientInv'
<1>1. Creating /\ Unmoved /\ UNCHANGED <<edits, calls>> /\ \E reason : CreateFails(reason)
  BY DEF PostFails, Creating, Unmoved
<1> QED BY <1>1, NothingLanded, CreateFailsStep

LEMMA ClientStill == ASSUME ClientInv, UNCHANGED clientVars PROVE ClientInv'
<1>1. UNCHANGED <<shelf, request, answer, accepted, edits, calls>>
  BY DEF clientVars
<1>2. ClientTyped' /\ OneOfEachId'
  BY <1>1 DEF ClientInv, ClientTyped, OneOfEachId, IdUsed
<1>3. ReadIsOld'
  BY <1>1 DEF ClientInv, ReadIsOld, IsOld, IdUsed, Known, Listing
<1>4. ListingGoesOn'
  <2>1. Done(request.libs, request.from, request.rows, request.before, request.clean)' <=>
          Done(request.libs, request.from, request.rows, request.before, request.clean)
    BY <1>1
  <2>2. Lib' = Lib /\ (Listing' <=> Listing)
    BY <1>1 DEF Lib, Listing
  <2>3. Follows(request.before, request.clean)' <=> Follows(request.before, request.clean)
    BY <1>1 DEF Follows
  <2>4. PagesRead(request.page, request.got, request.before[Order[request.at]][Lib], shelf[Order[request.at]][Lib])' <=>
          PagesRead(request.page, request.got, request.before[Order[request.at]][Lib], shelf[Order[request.at]][Lib])
    BY <1>1, <2>2 DEF PagesRead
  <2>5. ListingGoesOn
    BY DEF ClientInv
  <2> QED BY <1>1, <2>1, <2>2, <2>3, <2>4, <2>5 DEF ListingGoesOn
<1>5. ListingDone' /\ CreatedAreNamed'
  BY <1>1 DEF ClientInv, ListingDone, CreatedAreNamed, NewId
<1>6. CreatingGoesOn'
  BY <1>1 DEF ClientInv, CreatingGoesOn, Creating, NotYet, NewId
<1> QED BY <1>2, <1>3, <1>4, <1>5, <1>6 DEF ClientInv

\* Every step of the client's and of the user's keeps the invariant.
THEOREM ClientInvariant == ClientSpec => []ClientInv
<1>1. ClientInit => ClientInv
  BY StartClient
<1>2. ClientInv /\ [ClientNext]_clientVars => ClientInv'
  BY ClientStill, StartListStep, AskPageStep, PageFailsStep, StartCreateStep, PostBatchStep, PostFailsStep, PatchStep, UserEditsStep DEF ClientNext
<1> QED BY <1>1, <1>2, PTL DEF ClientSpec

LEMMA WholeAnswers == ClientInv => AnswersAreWhole
<1> SUFFICES ASSUME ClientInv PROVE AnswersAreWhole
  OBVIOUS
<1>1. CreatedAreNamed
  BY DEF ClientInv
<1>2. ASSUME answer.op = "list" PROVE ListIsWhole
  <2>1. /\ Len(answer.from) = Len(answer.libs) /\ Done(answer.libs, answer.from, answer.rows, answer.before, answer.clean)
        /\ answer \in Lists
    BY <1>2 DEF ClientInv, ListingDone, ClientTyped
  <2>2. answer.libs \in Seq(Libs) /\ answer.from \in Seq(Connections \cup {None}) /\ answer.before \in Holdings
    BY <2>1 DEF Lists
  <2>3. DOMAIN answer.libs = DOMAIN answer.from
    BY <2>1, <2>2, LenProperties
  <2>4. ASSUME NEW k \in DOMAIN answer.libs
        PROVE  LET lib == answer.libs[k] c == answer.from[k] part == PartOf(answer.rows, lib) IN
               IF c = None THEN lib # "user" /\ part = {} /\ answer.before[Last(Order)][lib] = Missing
               ELSE /\ \A r \in part : r.source = c
                    /\ answer.clean => Ids(Wanted(answer.before[c][lib])) \subseteq Ids(part)
    <3> DEFINE lib == answer.libs[k]
               c == answer.from[k]
               part == PartOf(answer.rows, lib)
    <3>1. GivenBy(lib, c, answer.rows, answer.before, answer.clean)
      BY <2>1, <2>3 DEF Done
    <3>2. CASE c = None
      BY <3>1, <3>2 DEF GivenBy, PartOf
    <3>3. CASE c # None
      <4>1. \A r \in part : r.source = c
        BY <3>1, <3>3 DEF GivenBy, PartOf
      <4>2. ASSUME answer.clean PROVE Ids(Wanted(answer.before[c][lib])) \subseteq Ids(part)
        <5> SUFFICES ASSUME NEW w \in Wanted(answer.before[c][lib]) PROVE w.id \in Ids(part)
          BY DEF Ids
        <5>1. PICK i \in DOMAIN answer.before[c][lib] : w = answer.before[c][lib][i] /\ w.fits
          BY DEF Wanted, Range
        <5>2. PICK r \in answer.rows : r.lib = lib /\ r.id = w.id
          BY <3>1, <3>3, <4>2, <5>1 DEF GivenBy
        <5> QED BY <5>2 DEF Ids, PartOf
      <4> QED BY <3>3, <4>1, <4>2
    <3> QED BY <3>2, <3>3
  <2> QED BY <2>1, <2>4 DEF ListIsWhole
<1> QED BY <1>1, <1>2 DEF AnswersAreWhole, ListIsWhole

\* listAll, listEach, createItems: a list is taken for the library only if it is, and what was made only if it was.
THEOREM AnswersStayWhole == ClientSpec => []AnswersAreWhole
  BY ClientInvariant, WholeAnswers, PTL

LEMMA LibraryPatchesNothing == ASSUME NEW req, NEW c, Library(req, c) PROVE answer' = answer \/ answer'.op # "patched"
<1>1. PICK on : IF Len(on.from) = Len(on.libs) THEN request' = None /\ answer' = ListAnswer(on) ELSE request' = on /\ answer' = answer
  BY DEF Library
<1> QED BY <1>1 DEF ListAnswer

LEMMA ListFailsPatchesNothing == ASSUME NEW reason, ListFails(reason) PROVE answer' = answer \/ answer'.op # "patched"
<1>1. CASE FallsThrough(request, reason) /\ request.at < Len(Order)
  BY <1>1 DEF ListFails
<1>2. CASE ~(FallsThrough(request, reason) /\ request.at < Len(Order))
  <2>1. Library([request EXCEPT !.got = {}], None) \/ Thrown(request, reason)
    BY <1>2 DEF ListFails
  <2>2. CASE Library([request EXCEPT !.got = {}], None)
    BY <2>2, LibraryPatchesNothing
  <2>3. CASE Thrown(request, reason)
    BY <2>3 DEF Thrown
  <2> QED BY <2>1, <2>2, <2>3
<1> QED BY <1>1, <1>2

LEMMA ListingPatchesNothing == AskPage \/ PageFails => answer' = answer \/ answer'.op # "patched"
<1>1. ASSUME AskPage PROVE answer' = answer \/ answer'.op # "patched"
  <2>1. ListFails("not-found") \/ ListFails("server") \/ (\E req, c : Library(req, c)) \/ answer' = answer
    BY <1>1 DEF AskPage
  <2> QED BY <2>1, ListFailsPatchesNothing, LibraryPatchesNothing
<1>2. ASSUME PageFails PROVE answer' = answer \/ answer'.op # "patched"
  BY <1>2, ListFailsPatchesNothing DEF PageFails
<1> QED BY <1>1, <1>2

LEMMA CreatingPatchesNothing == PostBatch \/ PostFails => answer' = answer \/ answer'.op # "patched"
<1>1. ASSUME NEW reason, CreateFails(reason) PROVE answer' = answer \/ answer'.op # "patched"
  BY <1>1 DEF CreateFails, Thrown
<1>2. ASSUME PostBatch PROVE (\E reason : CreateFails(reason)) \/ answer' = answer \/ answer'.op = "create"
  <2>1. PICK c, p :
        IF p.says # "ok" THEN CreateFails(p.says)
        ELSE IF shelf[c][request.lib] = Missing THEN CreateFails("not-found")
        ELSE \E taken \in SUBSET BatchOf :
               \/ LET created == request.created \o ByPlace(BatchOf, taken) IN
                  IF BatchEnd = request.n
                  THEN answer' = [op |-> "create", by |-> c, lib |-> request.lib, created |-> created]
                  ELSE UNCHANGED answer
               \/ CreateFails("unreachable")
    BY <1>2 DEF PostBatch
  <2>2. CASE p.says = "ok" /\ shelf[c][request.lib] # Missing
    <3>1. PICK created : answer' = [op |-> "create", by |-> c, lib |-> request.lib, created |-> created] \/ answer' = answer \/ CreateFails("unreachable")
      BY <2>1, <2>2
    <3> QED BY <3>1
  <2> QED BY <2>1, <2>2
<1>3. PostFails => \E reason : CreateFails(reason)
  BY DEF PostFails
<1> QED BY <1>1, <1>2, <1>3

\* patchUnderVersion: a patch replaces the text that was read, whatever the other connection calls its version.
THEOREM NoEditIsPatchedOver == ClientSpec => OnlyWhatWasReadIsPatched
<1> DEFINE A == answer'.op = "patched" /\ answer' # answer =>
                  LET ref == answer'.ref IN
                  \A i \in Place(shelf[answer'.by][ref.lib], ref.id) : shelf[answer'.by][ref.lib][i].text = ref.text
<1>1. ClientInv /\ [ClientNext]_clientVars => [A]_clientVars
  <2> SUFFICES ASSUME ClientInv, ClientNext, answer'.op = "patched", answer' # answer PROVE A
    BY DEF ClientInv
  <2>1. Patch
    <3>1. ~StartList /\ ~StartCreate
      BY DEF StartList, StartCreate, NoAnswer
    <3>2. ~AskPage /\ ~PageFails
      BY ListingPatchesNothing
    <3>3. ~PostBatch /\ ~PostFails
      BY CreatingPatchesNothing
    <3>4. ~UserEdits
      BY DEF UserEdits
    <3> QED BY <3>1, <3>2, <3>3, <3>4 DEF ClientNext
  <2>2. PICK ref \in answer.rows : /\ answer'.ref = ref /\ answer'.by = ref.source
                                  /\ \E i \in Place(shelf[ref.source][ref.lib], ref.id) : shelf[ref.source][ref.lib][i].version <= ref.version
    <3>0. PICK ref \in answer.rows :
            \E p \in Permits(ref.source) :
            IF p.says # "ok" THEN answer' = [op |-> "failed", of |-> "patch", reason |-> p.says]
            ELSE IF Place(shelf[ref.source][ref.lib], ref.id) = {} THEN answer' = [op |-> "failed", of |-> "patch", reason |-> "not-found"]
            ELSE \E i \in Place(shelf[ref.source][ref.lib], ref.id) :
                   IF shelf[ref.source][ref.lib][i].version <= ref.version
                   THEN answer' = [op |-> "patched", ref |-> ref, by |-> ref.source]
                   ELSE answer' = [op |-> "conflict"]
      BY <2>1 DEF Patch, sourceOf
    <3>1. PICK p \in Permits(ref.source) :
            IF p.says # "ok" THEN answer' = [op |-> "failed", of |-> "patch", reason |-> p.says]
            ELSE IF Place(shelf[ref.source][ref.lib], ref.id) = {} THEN answer' = [op |-> "failed", of |-> "patch", reason |-> "not-found"]
            ELSE \E i \in Place(shelf[ref.source][ref.lib], ref.id) :
                   IF shelf[ref.source][ref.lib][i].version <= ref.version
                   THEN answer' = [op |-> "patched", ref |-> ref, by |-> ref.source]
                   ELSE answer' = [op |-> "conflict"]
      BY <3>0
    <3>2. p.says = "ok" /\ Place(shelf[ref.source][ref.lib], ref.id) # {}
      BY <3>1
    <3>3. PICK i \in Place(shelf[ref.source][ref.lib], ref.id) :
            IF shelf[ref.source][ref.lib][i].version <= ref.version
            THEN answer' = [op |-> "patched", ref |-> ref, by |-> ref.source]
            ELSE answer' = [op |-> "conflict"]
      BY <3>1, <3>2
    <3>4. shelf[ref.source][ref.lib][i].version <= ref.version
      BY <3>3
    <3>5. answer'.ref = ref /\ answer'.by = ref.source
      BY <3>3, <3>4
    <3> QED BY <3>4, <3>5
  <2>3. answer.op = "list"
    BY <2>1 DEF Patch
  <2> DEFINE rows == shelf[ref.source][ref.lib]
  <2>4. PICK i \in Place(rows, ref.id) : rows[i].version <= ref.version
    BY <2>2
  <2>5. IsOld(ref) /\ ref.version \in Nat /\ rows # Missing /\ Distinct(rows) /\ \A k \in DOMAIN rows : rows[k] \in Items
    BY <2>3, RefsFit, RowsAre DEF Known
  <2>6. i \in DOMAIN rows /\ rows[i].id = ref.id /\ rows[i].version \in Nat
    BY <2>4, <2>5 DEF Place, Items
  <2>7. rows[i].text = ref.text
    <3>1. Fits(rows[i], ref)
      BY <2>5, <2>6, Zenon DEF IsOld
    <3>2. rows[i].version = ref.version => rows[i].text = ref.text
      BY <2>6, <3>1, Zenon DEF Fits
    <3>3. ref.version <= rows[i].version
      BY <2>6, <3>1, Zenon DEF Fits
    <3>4. rows[i].version <= ref.version /\ rows[i].version \in Nat /\ ref.version \in Nat
      BY <2>4, <2>5, <2>6
    <3> HIDE DEF rows
    <3>5. rows[i].version = ref.version
      BY <3>3, <3>4
    <3> QED BY <3>2, <3>5
  <2>8. \A k \in Place(rows, ref.id) : k = i
    BY <2>5, <2>6 DEF Place, Distinct
  <2> QED BY <2>2, <2>7, <2>8
<1> QED BY <1>1, ClientInvariant, PTL DEF ClientSpec, OnlyWhatWasReadIsPatched
=============================================================================
