-------------------------- MODULE GuestIdentityProofs --------------------------
(***************************************************************************)
(* Proofs about GuestIdentity, for any number of VMs, snapshots and        *)
(* repeated init requests: the guest behind every usable sandbox answers   *)
(* to the record's id and token, the token a snapshot keeps opens no       *)
(* sandbox but the captured one, and no init or rekey of the host is ever  *)
(* refused.  Steps on one VM leave the others alone, except that a         *)
(* rollback kills the VM it replaces.                                      *)
(***************************************************************************)
EXTENDS GuestIdentity, TLAPS

\* The steps on one VM: all but Replaced, which kills another, and Capture.
VmStep(v) ==
    \/ Boot(v) \/ SendInit(v) \/ InitUnavailable(v) \/ Initialized(v) \/ LaunchFails(v)
    \/ SendRekey(v) \/ Rekeyed(v)
    \/ RekeyAuthorize(v) \/ RekeyFlush(v) \/ RekeyConfigure(v) \/ RekeyCommit(v) \/ RekeyBreaks(v)
    \/ SendReplace(v) \/ ReplaceFails(v) \/ Delete(v)
    \/ \E k \in 1..MaxTries :
        InitFails(v, k) \/ InitLock(v, k) \/ InitCommit(v, k) \/ HandlerDropped(v, k)
    \/ \E s \in Snaps, u \in Vms \cup {None} : Restore(v, s, u)

\* The tokens of a VM, and the identity its launch gives it.
LEMMA TokensOf ==
    ASSUME NEW v \in Vms
    PROVE  /\ Token(v, 1) \in Tokens /\ Token(v, 2) \in Tokens
           /\ Candidate(v) \in Identities
           /\ Candidate(v).id = v /\ Candidate(v).token = Token(v, 1)
BY DEF Token, Tokens, Candidate, Identities

\* Tokens of different VMs differ.
LEMMA TokensDiffer ==
    ASSUME NEW v \in Vms, NEW w \in Vms, NEW m \in {1, 2}, NEW n \in {1, 2}, Token(v, m) = Token(w, n)
    PROVE  v = w
BY DEF Token

\* The identity a rekey gives.
LEMMA NewIdentities ==
    ASSUME IdentityTypeOK, NEW v \in Vms, stage[v] = "replacing" => source[v] \in Vms
    PROVE  NewIdentity(v) \in Identities
BY TokensOf DEF NewIdentity, Identities

\* The steps keep the types.
LEMMA VmTypes ==
    ASSUME IdentityInv, NEW v \in Vms, VmStep(v)
    PROVE  IdentityTypeOK'
<1> USE IdentityAssumption, TokensOf DEF IdentityTypeOK, Stages, InitPhases, RekeyPhases,
        Replies, Goto, Answer, Kill, Retire, InitReply, Released, agent, record
<1>0. IdentityTypeOK /\ InitInv(v) /\ RekeyInv(v)
  BY DEF IdentityInv
<1>1. CASE Boot(v)
  BY <1>1, <1>0 DEF Boot
<1>2. CASE SendInit(v)
  BY <1>2, <1>0 DEF SendInit
<1>3. CASE InitUnavailable(v)
  BY <1>3, <1>0 DEF InitUnavailable
<1>4. CASE Initialized(v)
  BY <1>4, <1>0 DEF Initialized
<1>5. CASE LaunchFails(v)
  BY <1>5, <1>0 DEF LaunchFails
<1>6. CASE SendRekey(v)
  BY <1>6, <1>0 DEF SendRekey
<1>7. CASE Rekeyed(v)
  BY <1>7, <1>0 DEF Rekeyed
<1>8. CASE RekeyAuthorize(v)
  BY <1>8, <1>0, ZenonT(60) DEF RekeyAuthorize
<1>9. CASE RekeyFlush(v)
  BY <1>9, <1>0 DEF RekeyFlush
<1>10. CASE RekeyConfigure(v)
  BY <1>10, <1>0 DEF RekeyConfigure
<1>11. CASE RekeyCommit(v)
  <2>1. NewIdentity(v) \in Identities
    BY <1>0, <1>11, NewIdentities DEF RekeyInv
  <2> QED BY <1>0, <1>11, <2>1 DEF RekeyCommit
<1>12. CASE RekeyBreaks(v)
  BY <1>12, <1>0 DEF RekeyBreaks
<1>13. CASE SendReplace(v)
  BY <1>13, <1>0 DEF SendReplace
<1>14. CASE ReplaceFails(v)
  BY <1>14, <1>0 DEF ReplaceFails
<1>15. CASE Delete(v)
  BY <1>15, <1>0 DEF Delete
<1>16. ASSUME NEW k \in 1..MaxTries, InitFails(v, k) PROVE IdentityTypeOK'
  BY <1>16, <1>0 DEF InitFails
<1>17. ASSUME NEW k \in 1..MaxTries, InitLock(v, k) PROVE IdentityTypeOK'
  <2>1. writer' \in [Vms -> 0..MaxTries]
    BY <1>0, <1>17 DEF InitLock
  <2>2. PICK p \in {"configure", "none"} : init' = [init EXCEPT ![v][k] = p]
    BY <1>17 DEF InitLock
  <2>3. PICK r \in {"ok", "refused"} :
            reply' = reply \/ reply' = [reply EXCEPT ![v] = r]
    BY <1>17 DEF InitLock
  <2>4. init' \in [Vms -> [1..MaxTries -> InitPhases]]
    BY <1>0, <2>2
  <2>5. reply' \in [Vms -> Replies]
    BY <1>0, <2>3
  <2> QED BY <1>0, <1>17, <2>1, <2>4, <2>5 DEF InitLock
<1>18. ASSUME NEW k \in 1..MaxTries, InitCommit(v, k) PROVE IdentityTypeOK'
  <2>0. Candidate(v) \in Identities
    BY TokensOf
  <2>1. address' \in [Vms -> Vms \cup {None}]
    BY <1>0, <1>18, ZenonT(60) DEF InitCommit
  <2>4. guest' = guest \/ guest' = [guest EXCEPT ![v] = Candidate(v)]
    BY <1>18 DEF InitCommit
  <2>5. guest' \in [Vms -> Identities \cup {None}]
    BY <1>0, <2>0, <2>4, ZenonT(60)
  <2>2. init' \in [Vms -> [1..MaxTries -> InitPhases]]
    BY <1>0, <1>18 DEF InitCommit
  <2>3. reply' \in [Vms -> Replies] /\ writer' \in [Vms -> 0..MaxTries]
    BY <1>0, <1>18 DEF InitCommit
  <2> QED BY <1>0, <1>18, <2>1, <2>2, <2>3, <2>5 DEF InitCommit
<1>19. ASSUME NEW k \in 1..MaxTries, HandlerDropped(v, k) PROVE IdentityTypeOK'
  <2>1. address' \in [Vms -> Vms \cup {None}]
    BY <1>0, <1>19, ZenonT(60) DEF HandlerDropped
  <2>2. init' \in [Vms -> [1..MaxTries -> InitPhases]]
    BY <1>0, <1>19 DEF HandlerDropped
  <2>3. writer' \in [Vms -> 0..MaxTries]
    BY <1>0, <1>19 DEF HandlerDropped
  <2> QED BY <1>0, <1>19, <2>1, <2>2, <2>3 DEF HandlerDropped
<1>20. ASSUME NEW s \in Snaps, NEW u \in Vms \cup {None}, Restore(v, s, u) PROVE IdentityTypeOK'
  <2>1. image[s] \in Images
    BY <1>0, <1>20 DEF Restore
  <2>2. image[s].guest \in Identities /\ image[s].address \in Vms /\ image[s].token \in Tokens
    BY <2>1 DEF Images
  <2> QED BY <1>0, <1>20, <2>2 DEF Restore
<1> QED BY <1>1, <1>2, <1>3, <1>4, <1>5, <1>6, <1>7, <1>8, <1>9, <1>10, <1>11, <1>12, <1>13,
        <1>14, <1>15, <1>16, <1>17, <1>18, <1>19, <1>20 DEF VmStep

\* What a step does not touch of a VM.
Untouched(w) ==
    /\ stage'[w] = stage[w] /\ guest'[w] = guest[w] /\ address'[w] = address[w]
    /\ box'[w] = box[w] /\ token'[w] = token[w]
    /\ target'[w] = target[w] /\ source'[w] = source[w]
    /\ init'[w] = init[w] /\ writer'[w] = writer[w]
    /\ tries'[w] = tries[w] /\ rekey'[w] = rekey[w] /\ previous'[w] = previous[w] /\ reply'[w] = reply[w]

\* Only v is touched.
Alone(v) == (\A w \in Vms : w # v => Untouched(w)) /\ UNCHANGED image

\* A step on v leaves every other VM alone, and the snapshots.
LEMMA OtherVms ==
    ASSUME IdentityTypeOK, NEW v \in Vms, VmStep(v)
    PROVE  Alone(v)
<1> USE DEF Alone, Untouched, IdentityTypeOK, Goto, Answer, Kill, Retire, InitReply, Released,
        agent, record
<1>1. CASE Boot(v)
  BY <1>1 DEF Boot
<1>2. CASE SendInit(v)
  BY <1>2 DEF SendInit
<1>3. CASE InitUnavailable(v)
  BY <1>3 DEF InitUnavailable
<1>4. CASE Initialized(v)
  BY <1>4 DEF Initialized
<1>5. CASE LaunchFails(v)
  BY <1>5 DEF LaunchFails
<1>6. CASE SendRekey(v)
  BY <1>6 DEF SendRekey
<1>7. CASE Rekeyed(v)
  BY <1>7 DEF Rekeyed
<1>8. CASE RekeyAuthorize(v)
  BY <1>8 DEF RekeyAuthorize
<1>9. CASE RekeyFlush(v)
  BY <1>9 DEF RekeyFlush
<1>10. CASE RekeyConfigure(v)
  BY <1>10 DEF RekeyConfigure
<1>11. CASE RekeyCommit(v)
  BY <1>11 DEF RekeyCommit
<1>12. CASE RekeyBreaks(v)
  BY <1>12 DEF RekeyBreaks
<1>13. CASE SendReplace(v)
  BY <1>13 DEF SendReplace
<1>14. CASE ReplaceFails(v)
  BY <1>14 DEF ReplaceFails
<1>15. CASE Delete(v)
  BY <1>15 DEF Delete
<1>16. ASSUME NEW k \in 1..MaxTries, InitFails(v, k) PROVE Alone(v)
  BY <1>16 DEF InitFails
<1>17. ASSUME NEW k \in 1..MaxTries, InitLock(v, k) PROVE Alone(v)
  BY <1>17 DEF InitLock
<1>18. ASSUME NEW k \in 1..MaxTries, InitCommit(v, k) PROVE Alone(v)
  BY <1>18 DEF InitCommit
<1>19. ASSUME NEW k \in 1..MaxTries, HandlerDropped(v, k) PROVE Alone(v)
  BY <1>19 DEF HandlerDropped
<1>20. ASSUME NEW s \in Snaps, NEW u \in Vms \cup {None}, Restore(v, s, u) PROVE Alone(v)
  BY <1>20 DEF Restore
<1> QED BY <1>1, <1>2, <1>3, <1>4, <1>5, <1>6, <1>7, <1>8, <1>9, <1>10, <1>11, <1>12, <1>13,
        <1>14, <1>15, <1>16, <1>17, <1>18, <1>19, <1>20 DEF VmStep

\* The write lock of the identity is held by the handler that configures.
LEMMA InitStep ==
    ASSUME IdentityInv, NEW v \in Vms, VmStep(v)
    PROVE  InitInv(v)'
<1> USE IdentityAssumption, TokensOf DEF IdentityTypeOK, NeverRefused, InitInv, RekeyInv,
        RecordInv, NewIdentity, Goto, Answer, Kill, Retire, InitReply, Released, agent, record
<1>0. IdentityTypeOK /\ NeverRefused /\ InitInv(v) /\ RekeyInv(v) /\ RecordInv(v)
  BY DEF IdentityInv
<1>1. CASE Boot(v)
  BY <1>1, <1>0 DEF Boot
<1>2. CASE SendInit(v)
  <2>1. tries[v] + 1 \in 1..MaxTries /\ tries'[v] = tries[v] + 1
    BY <1>0, <1>2 DEF SendInit
  <2>2. init'[v] = [init[v] EXCEPT ![tries[v] + 1] = "lock"]
    BY <1>0, <1>2 DEF SendInit
  <2>3. \A k \in 1..MaxTries : init'[v][k] = IF k = tries[v] + 1 THEN "lock" ELSE init[v][k]
    BY <1>0, <2>2
  <2>4. init[v][tries[v] + 1] = "none"
    BY <1>0, <2>1
  <2>5. \A k \in 1..MaxTries : k > tries[v] + 1 => init'[v][k] = "none"
    <3> TAKE k \in 1..MaxTries
    <3>1. k > tries[v] + 1 => k > tries[v] /\ k # tries[v] + 1
      BY <1>0
    <3> QED BY <1>0, <2>3, <3>1
  <2>6. \A k \in 1..MaxTries : init'[v][k] = "configure" <=> writer[v] = k
    <3> TAKE k \in 1..MaxTries
    <3>1. CASE k = tries[v] + 1
      BY <1>0, <2>1, <2>3, <2>4, <3>1
    <3>2. CASE k # tries[v] + 1
      BY <1>0, <2>3, <3>2
    <3> QED BY <3>1, <3>2
  <2>7. stage'[v] = "init" /\ reply'[v] = "none" /\ UNCHANGED <<guest, address, writer>>
    BY <1>0, <1>2 DEF SendInit
  <2>8. v \in Cold
    BY <1>0, <1>2 DEF SendInit
  <2> QED BY <1>0, <2>1, <2>5, <2>6, <2>7, <2>8
<1>3. CASE InitUnavailable(v)
  BY <1>3, <1>0 DEF InitUnavailable
<1>4. CASE Initialized(v)
  BY <1>4, <1>0 DEF Initialized
<1>5. CASE LaunchFails(v)
  BY <1>5, <1>0 DEF LaunchFails
<1>6. CASE SendRekey(v)
  BY <1>6, <1>0 DEF SendRekey
<1>7. CASE Rekeyed(v)
  BY <1>7, <1>0 DEF Rekeyed
<1>8. CASE RekeyAuthorize(v)
  BY <1>8, <1>0 DEF RekeyAuthorize
<1>9. CASE RekeyFlush(v)
  BY <1>9, <1>0 DEF RekeyFlush
<1>10. CASE RekeyConfigure(v)
  BY <1>10, <1>0 DEF RekeyConfigure
<1>11. CASE RekeyCommit(v)
  BY <1>11, <1>0 DEF RekeyCommit
<1>12. CASE RekeyBreaks(v)
  BY <1>12, <1>0 DEF RekeyBreaks
<1>13. CASE SendReplace(v)
  BY <1>13, <1>0 DEF SendReplace
<1>14. CASE ReplaceFails(v)
  BY <1>14, <1>0 DEF ReplaceFails
<1>15. CASE Delete(v)
  BY <1>15, <1>0 DEF Delete
<1>16. ASSUME NEW k \in 1..MaxTries, InitFails(v, k) PROVE InitInv(v)'
  BY <1>16, <1>0 DEF InitFails
<1>17. ASSUME NEW k \in 1..MaxTries, InitLock(v, k) PROVE InitInv(v)'
  BY <1>17, <1>0 DEF InitLock, Replayed
<1>18. ASSUME NEW k \in 1..MaxTries, InitCommit(v, k) PROVE InitInv(v)'
  BY <1>18, <1>0 DEF InitCommit
<1>19. ASSUME NEW k \in 1..MaxTries, HandlerDropped(v, k) PROVE InitInv(v)'
  BY <1>19, <1>0 DEF HandlerDropped
<1>20. ASSUME NEW s \in Snaps, NEW u \in Vms \cup {None}, Restore(v, s, u) PROVE InitInv(v)'
  <2>1. writer[v] \in 0..MaxTries /\ writer[v] \notin 1..MaxTries
    BY <1>0, <1>20 DEF Restore
  <2>2. /\ v \notin Cold /\ stage'[v] = "restored"
        /\ UNCHANGED <<init, writer, tries>>
    BY <1>0, <1>20 DEF Restore
  <2> QED BY <1>0, <2>1, <2>2
<1> QED BY <1>1, <1>2, <1>3, <1>4, <1>5, <1>6, <1>7, <1>8, <1>9, <1>10, <1>11, <1>12, <1>13,
        <1>14, <1>15, <1>16, <1>17, <1>18, <1>19, <1>20 DEF VmStep

\* A rekey takes the guest from the token the host knows to the new one.
LEMMA RekeyStep ==
    ASSUME IdentityInv, NEW v \in Vms, VmStep(v)
    PROVE  RekeyInv(v)'
<1> USE IdentityAssumption, TokensOf DEF IdentityTypeOK, NeverRefused, InitInv, RekeyInv,
        RecordInv, NewIdentity, Goto, Answer, Kill, Retire, InitReply, Released, agent, record
<1>0. IdentityTypeOK /\ NeverRefused /\ InitInv(v) /\ RekeyInv(v) /\ RecordInv(v)
  BY DEF IdentityInv
<1>1. CASE Boot(v)
  BY <1>1, <1>0 DEF Boot
<1>2. CASE SendInit(v)
  BY <1>2, <1>0 DEF SendInit
<1>3. CASE InitUnavailable(v)
  BY <1>3, <1>0 DEF InitUnavailable
<1>4. CASE Initialized(v)
  BY <1>4, <1>0 DEF Initialized
<1>5. CASE LaunchFails(v)
  BY <1>5, <1>0 DEF LaunchFails
<1>6. CASE SendRekey(v)
  BY <1>6, <1>0 DEF SendRekey
<1>7. CASE Rekeyed(v)
  BY <1>7, <1>0 DEF Rekeyed
<1>8. CASE RekeyAuthorize(v)
  BY <1>8, <1>0 DEF RekeyAuthorize
<1>9. CASE RekeyFlush(v)
  BY <1>9, <1>0 DEF RekeyFlush
<1>10. CASE RekeyConfigure(v)
  BY <1>10, <1>0 DEF RekeyConfigure
<1>11. CASE RekeyCommit(v)
  BY <1>11, <1>0 DEF RekeyCommit
<1>12. CASE RekeyBreaks(v)
  BY <1>12, <1>0 DEF RekeyBreaks
<1>13. CASE SendReplace(v)
  <2>1. guest[v] # None /\ guest[v].token = token[v]
    BY <1>0, <1>13 DEF SendReplace, Identities
  <2> QED BY <1>0, <1>13, <2>1 DEF SendReplace
<1>14. CASE ReplaceFails(v)
  BY <1>14, <1>0 DEF ReplaceFails
<1>15. CASE Delete(v)
  BY <1>15, <1>0 DEF Delete
<1>16. ASSUME NEW k \in 1..MaxTries, InitFails(v, k) PROVE RekeyInv(v)'
  BY <1>16, <1>0 DEF InitFails
<1>17. ASSUME NEW k \in 1..MaxTries, InitLock(v, k) PROVE RekeyInv(v)'
  BY <1>17, <1>0 DEF InitLock, Replayed
<1>18. ASSUME NEW k \in 1..MaxTries, InitCommit(v, k) PROVE RekeyInv(v)'
  BY <1>18, <1>0 DEF InitCommit
<1>19. ASSUME NEW k \in 1..MaxTries, HandlerDropped(v, k) PROVE RekeyInv(v)'
  BY <1>19, <1>0 DEF HandlerDropped
<1>20. ASSUME NEW s \in Snaps, NEW u \in Vms \cup {None}, Restore(v, s, u) PROVE RekeyInv(v)'
  <2>1. image[s] \in Images /\ image[s].guest.token = image[s].token
    BY <1>0, <1>20 DEF Restore, IdentityInv, ImageInv
  <2>2. image[s].guest \in Identities
    BY <2>1 DEF Images
  <2>3. rekey[v] = "none"
    BY <1>0, <1>20 DEF Restore
  <2>4. guest'[v] # None /\ guest'[v].token = previous'[v] /\ rekey'[v] = "none" /\ stage'[v] = "restored"
    BY <1>0, <1>20, <2>1, <2>2, <2>3 DEF Restore
  <2>5. CASE u = None
    BY <1>0, <1>20, <2>4, <2>5 DEF Restore
  <2>6. CASE u # None
    <3>1. u \in Vms /\ u # v /\ box[u] \in Vms
      BY <1>0, <1>20, <2>6 DEF Restore, IdentityInv
    <3>2. target'[v] = u /\ source'[v] = box[u] /\ v \notin Cold
      BY <1>0, <1>20, <2>6 DEF Restore
    <3> QED BY <2>4, <3>1, <3>2
  <2> QED BY <2>5, <2>6
<1> QED BY <1>1, <1>2, <1>3, <1>4, <1>5, <1>6, <1>7, <1>8, <1>9, <1>10, <1>11, <1>12, <1>13,
        <1>14, <1>15, <1>16, <1>17, <1>18, <1>19, <1>20 DEF VmStep

\* A record enters the map with what its guest has.
LEMMA RecordStep ==
    ASSUME IdentityInv, NEW v \in Vms, VmStep(v)
    PROVE  RecordInv(v)'
<1> USE IdentityAssumption, TokensOf DEF IdentityTypeOK, NeverRefused, InitInv, RekeyInv,
        RecordInv, NewIdentity, Goto, Answer, Kill, Retire, InitReply, Released, agent, record
<1>0. IdentityTypeOK /\ NeverRefused /\ InitInv(v) /\ RekeyInv(v) /\ RecordInv(v)
  BY DEF IdentityInv
<1>1. CASE Boot(v)
  BY <1>1, <1>0 DEF Boot
<1>2. CASE SendInit(v)
  BY <1>2, <1>0 DEF SendInit
<1>3. CASE InitUnavailable(v)
  BY <1>3, <1>0 DEF InitUnavailable
<1>4. CASE Initialized(v)
  <2>1. v \in Cold /\ guest[v] = Candidate(v) /\ guest[v] # None
    BY <1>0, <1>4 DEF Initialized
  <2>2. address[v] = v
    BY <1>0, <2>1
  <2>3. box'[v] = v /\ token'[v] = Token(v, 1) /\ UNCHANGED <<guest, address>>
    BY <1>0, <1>4 DEF Initialized
  <2> QED BY <2>1, <2>2, <2>3 DEF Candidate
<1>5. CASE LaunchFails(v)
  BY <1>5, <1>0 DEF LaunchFails
<1>6. CASE SendRekey(v)
  BY <1>6, <1>0 DEF SendRekey
<1>7. CASE Rekeyed(v)
  <2>1. guest[v] = Candidate(v) /\ address[v] = v
    BY <1>0, <1>7 DEF Rekeyed
  <2>3. box'[v] = v /\ token'[v] = Token(v, 1) /\ UNCHANGED <<guest, address>>
    BY <1>0, <1>7 DEF Rekeyed
  <2> QED BY <2>1, <2>3 DEF Candidate
<1>8. CASE RekeyAuthorize(v)
  BY <1>8, <1>0 DEF RekeyAuthorize
<1>9. CASE RekeyFlush(v)
  BY <1>9, <1>0 DEF RekeyFlush
<1>10. CASE RekeyConfigure(v)
  BY <1>10, <1>0 DEF RekeyConfigure
<1>11. CASE RekeyCommit(v)
  BY <1>11, <1>0 DEF RekeyCommit
<1>12. CASE RekeyBreaks(v)
  BY <1>12, <1>0 DEF RekeyBreaks
<1>13. CASE SendReplace(v)
  BY <1>13, <1>0 DEF SendReplace
<1>14. CASE ReplaceFails(v)
  BY <1>14, <1>0 DEF ReplaceFails
<1>15. CASE Delete(v)
  BY <1>15, <1>0 DEF Delete
<1>16. ASSUME NEW k \in 1..MaxTries, InitFails(v, k) PROVE RecordInv(v)'
  BY <1>16, <1>0 DEF InitFails
<1>17. ASSUME NEW k \in 1..MaxTries, InitLock(v, k) PROVE RecordInv(v)'
  BY <1>17, <1>0 DEF InitLock, Replayed
<1>18. ASSUME NEW k \in 1..MaxTries, InitCommit(v, k) PROVE RecordInv(v)'
  <2>1. guest[v] = None
    BY <1>0, <1>18 DEF InitCommit
  <2>2. stage[v] # "mapped"
    BY <1>0, <2>1 DEF Identities
  <2> QED BY <1>0, <1>18, <2>2 DEF InitCommit
<1>19. ASSUME NEW k \in 1..MaxTries, HandlerDropped(v, k) PROVE RecordInv(v)'
  BY <1>19, <1>0 DEF HandlerDropped
<1>20. ASSUME NEW s \in Snaps, NEW u \in Vms \cup {None}, Restore(v, s, u) PROVE RecordInv(v)'
  BY <1>20, <1>0 DEF Restore
<1> QED BY <1>1, <1>2, <1>3, <1>4, <1>5, <1>6, <1>7, <1>8, <1>9, <1>10, <1>11, <1>12, <1>13,
        <1>14, <1>15, <1>16, <1>17, <1>18, <1>19, <1>20 DEF VmStep

\* No request is refused.
LEMMA RefusedStep ==
    ASSUME IdentityInv, NEW v \in Vms, VmStep(v)
    PROVE  reply'[v] # "refused"
<1> USE IdentityAssumption, TokensOf DEF IdentityTypeOK, NeverRefused, InitInv, RekeyInv,
        RecordInv, NewIdentity, Goto, Answer, Kill, Retire, InitReply, Released, agent, record
<1>0. IdentityTypeOK /\ NeverRefused /\ InitInv(v) /\ RekeyInv(v) /\ RecordInv(v)
  BY DEF IdentityInv
<1>1. CASE Boot(v)
  BY <1>1, <1>0 DEF Boot
<1>2. CASE SendInit(v)
  BY <1>2, <1>0 DEF SendInit
<1>3. CASE InitUnavailable(v)
  BY <1>3, <1>0 DEF InitUnavailable
<1>4. CASE Initialized(v)
  BY <1>4, <1>0 DEF Initialized
<1>5. CASE LaunchFails(v)
  BY <1>5, <1>0 DEF LaunchFails
<1>6. CASE SendRekey(v)
  BY <1>6, <1>0 DEF SendRekey
<1>7. CASE Rekeyed(v)
  BY <1>7, <1>0 DEF Rekeyed
<1>8. CASE RekeyAuthorize(v)
  BY <1>8, <1>0 DEF RekeyAuthorize
<1>9. CASE RekeyFlush(v)
  BY <1>9, <1>0 DEF RekeyFlush
<1>10. CASE RekeyConfigure(v)
  BY <1>10, <1>0 DEF RekeyConfigure
<1>11. CASE RekeyCommit(v)
  BY <1>11, <1>0 DEF RekeyCommit
<1>12. CASE RekeyBreaks(v)
  BY <1>12, <1>0 DEF RekeyBreaks
<1>13. CASE SendReplace(v)
  BY <1>13, <1>0 DEF SendReplace
<1>14. CASE ReplaceFails(v)
  BY <1>14, <1>0 DEF ReplaceFails
<1>15. CASE Delete(v)
  BY <1>15, <1>0 DEF Delete
<1>16. ASSUME NEW k \in 1..MaxTries, InitFails(v, k) PROVE reply'[v] # "refused"
  BY <1>16, <1>0 DEF InitFails
<1>17. ASSUME NEW k \in 1..MaxTries, InitLock(v, k) PROVE reply'[v] # "refused"
  BY <1>17, <1>0 DEF InitLock, Replayed
<1>18. ASSUME NEW k \in 1..MaxTries, InitCommit(v, k) PROVE reply'[v] # "refused"
  BY <1>18, <1>0 DEF InitCommit
<1>19. ASSUME NEW k \in 1..MaxTries, HandlerDropped(v, k) PROVE reply'[v] # "refused"
  BY <1>19, <1>0 DEF HandlerDropped
<1>20. ASSUME NEW s \in Snaps, NEW u \in Vms \cup {None}, Restore(v, s, u) PROVE reply'[v] # "refused"
  BY <1>20, <1>0 DEF Restore
<1> QED BY <1>1, <1>2, <1>3, <1>4, <1>5, <1>6, <1>7, <1>8, <1>9, <1>10, <1>11, <1>12, <1>13,
        <1>14, <1>15, <1>16, <1>17, <1>18, <1>19, <1>20 DEF VmStep

VmInv(v) == InitInv(v) /\ RekeyInv(v) /\ RecordInv(v) /\ reply[v] # "refused"

\* IdentityInv, VM by VM.
LEMMA InvOfVms ==
    /\ IdentityInv => IdentityTypeOK /\ (\A v \in Vms : VmInv(v)) /\ (\A s \in Snaps : ImageInv(s))
    /\ IdentityTypeOK /\ (\A v \in Vms : VmInv(v)) /\ (\A s \in Snaps : ImageInv(s)) => IdentityInv
BY DEF IdentityInv, VmInv, NeverRefused

\* What a step leaves untouched keeps its invariant.
LEMMA UntouchedKept ==
    ASSUME NEW w \in Vms, VmInv(w), Untouched(w)
    PROVE  VmInv(w)'
BY DEF VmInv, Untouched, InitInv, RekeyInv, RecordInv, NewIdentity, Candidate, Token

\* Snapshots do not change once they are made.
LEMMA ImagesKept ==
    ASSUME \A s \in Snaps : ImageInv(s), UNCHANGED image
    PROVE  (\A s \in Snaps : ImageInv(s))'
BY DEF ImageInv, Token

\* A step on one VM keeps the invariant.
LEMMA VmKeepsInv ==
    ASSUME IdentityInv, NEW v \in Vms, VmStep(v)
    PROVE  IdentityInv'
<1>1. IdentityTypeOK'
  BY VmTypes
<1>2. Alone(v)
  BY OtherVms DEF IdentityInv
<1>3. VmInv(v)'
  BY InitStep, RekeyStep, RecordStep, RefusedStep DEF VmInv
<1>4. (\A w \in Vms : VmInv(w))'
  BY <1>2, <1>3, InvOfVms, UntouchedKept DEF Alone
<1>5. (\A s \in Snaps : ImageInv(s))'
  BY <1>2, InvOfVms, ImagesKept DEF Alone
<1> QED BY <1>1, <1>4, <1>5, InvOfVms DEF IdentityInv, NeverRefused, VmInv

\* A snapshot is made of a record and its guest, which agree.
LEMMA CaptureKeepsInv ==
    ASSUME IdentityInv, NEW v \in Vms, NEW s \in Snaps, Capture(v, s)
    PROVE  IdentityInv'
<1> DEFINE made == [of |-> v, guest |-> guest[v], address |-> address[v], token |-> token[v]]
<1>1. IdentityTypeOK /\ RecordInv(v) /\ stage[v] = "mapped"
  BY DEF IdentityInv, Capture
<1>2. /\ guest[v].token = token[v] /\ token[v] \in {Token(v, 1), Token(v, 2)}
      /\ address[v] = v /\ guest[v] \in Identities
  BY <1>1, IdentityAssumption, TokensOf DEF RecordInv, IdentityTypeOK, Identities
<1>3. made \in Images
  BY <1>2, TokensOf DEF Images
<1>4. image' = [image EXCEPT ![s] = made] /\ UNCHANGED <<stage, agent, record, tries, previous>>
  BY DEF Capture
<1> HIDE DEF made
<1>5. IdentityTypeOK'
  BY <1>1, <1>3, <1>4 DEF IdentityTypeOK, agent, record
<1>6. \A w \in Vms : Untouched(w)
  BY <1>4 DEF Untouched, agent, record
<1>7. (\A w \in Vms : VmInv(w))'
  BY <1>6, InvOfVms, UntouchedKept
<1>8. ASSUME NEW t \in Snaps PROVE ImageInv(t)'
  <2>1. CASE t = s
    <3>1. image'[t] = made
      BY <1>1, <1>4, <2>1 DEF IdentityTypeOK
    <3> QED BY <1>2, <3>1 DEF ImageInv, made, Token
  <2>2. CASE t # s
    <3>1. image'[t] = image[t]
      BY <1>1, <1>4, <2>2 DEF IdentityTypeOK
    <3> QED BY <3>1, InvOfVms DEF ImageInv, Token
  <2> QED BY <2>1, <2>2
<1> QED BY <1>5, <1>7, <1>8, InvOfVms DEF IdentityInv, NeverRefused, VmInv

\* A rollback: the replacement has the source's id, and the old VM is dead.
LEMMA ReplacedKeepsInv ==
    ASSUME IdentityInv, NEW v \in Vms, Replaced(v)
    PROVE  IdentityInv'
<1>0. IdentityTypeOK /\ VmInv(v) /\ stage[v] = "replacing" /\ reply[v] = "ok"
  BY InvOfVms DEF Replaced
<1>1. PICK u \in Vms : u = target[v] /\ u # v /\ source[v] \in Vms /\ v \notin Cold
  BY <1>0 DEF VmInv, RekeyInv, IdentityTypeOK
<1>2. /\ guest[v] = [id |-> source[v], token |-> Token(v, 2)] /\ address[v] = v
      /\ rekey[v] = "none"
  BY <1>0 DEF VmInv, RekeyInv, NewIdentity
<1>3. VmInv(u)
  BY <1>1, InvOfVms
<1> USE IdentityAssumption DEF Kill, Answer, NewToken
<1>4. IdentityTypeOK'
  <2> USE <1>0, <1>1 DEF IdentityTypeOK
  <2>1. stage' \in [Vms -> Stages] /\ rekey' \in [Vms -> RekeyPhases] /\ reply' \in [Vms -> Replies]
    BY DEF Replaced, Stages, RekeyPhases, Replies
  <2>2. init' \in [Vms -> [1..MaxTries -> InitPhases]] /\ writer' \in [Vms -> 0..MaxTries]
    BY DEF Replaced, InitPhases
  <2>3. token' \in [Vms -> Tokens \cup {None}] /\ previous' \in [Vms -> Tokens \cup {None}]
    BY TokensOf DEF Replaced
  <2>4. /\ guest' \in [Vms -> Identities \cup {None}] /\ address' \in [Vms -> Vms \cup {None}]
        /\ box' \in [Vms -> Vms \cup {None}] /\ target' \in [Vms -> Vms \cup {None}]
        /\ source' \in [Vms -> Vms \cup {None}]
    BY DEF Replaced
  <2> QED BY <2>1, <2>2, <2>3, <2>4 DEF Replaced
<1>5. \A w \in Vms : w # v /\ w # u => Untouched(w)
  BY <1>0, <1>1 DEF Replaced, IdentityTypeOK, Untouched
<1>6. VmInv(v)'
  <2>1. /\ stage'[v] = "mapped" /\ box'[v] = source[v] /\ token'[v] = Token(v, 2)
        /\ target'[v] = None /\ reply'[v] = "none"
        /\ guest'[v] = guest[v] /\ address'[v] = address[v] /\ rekey'[v] = rekey[v]
        /\ init'[v] = init[v] /\ writer'[v] = writer[v] /\ tries'[v] = tries[v]
    BY <1>0, <1>1 DEF Replaced, IdentityTypeOK
  <2>2. InitInv(v)'
    BY <1>0, <1>1, <2>1 DEF VmInv, InitInv
  <2>3. RekeyInv(v)'
    BY <1>2, <2>1 DEF RekeyInv
  <2>4. RecordInv(v)'
    BY <1>1, <1>2, <2>1 DEF RecordInv, Token
  <2> QED BY <2>1, <2>2, <2>3, <2>4 DEF VmInv
<1>7. VmInv(u)'
  <2>1. /\ stage'[u] = "dead" /\ guest'[u] = None /\ rekey'[u] = "none" /\ writer'[u] = 0
        /\ init'[u] = [k \in 1..MaxTries |-> "none"]
        /\ target'[u] = target[u] /\ source'[u] = source[u] /\ reply'[u] = reply[u]
    BY <1>0, <1>1 DEF Replaced, IdentityTypeOK
  <2>2. InitInv(u)'
    BY <2>1 DEF InitInv
  <2>3. RekeyInv(u)'
    BY <1>3, <2>1 DEF VmInv, RekeyInv
  <2> QED BY <1>3, <2>1, <2>2, <2>3 DEF VmInv, RecordInv
<1>8. (\A w \in Vms : VmInv(w))'
  BY <1>5, <1>6, <1>7, InvOfVms, UntouchedKept
<1>9. (\A s \in Snaps : ImageInv(s))'
  BY InvOfVms, ImagesKept DEF Replaced
<1> QED BY <1>4, <1>8, <1>9, InvOfVms DEF IdentityInv, NeverRefused, VmInv

\* The invariant holds at the start: nothing runs.
LEMMA InitIsIdentityInv == IdentityInit => IdentityInv
BY IdentityAssumption DEF IdentityInit, IdentityInv, IdentityTypeOK, NeverRefused, InitInv,
        RekeyInv, RecordInv, ImageInv, Stages, InitPhases, RekeyPhases, Replies

\* Every step keeps the invariant.
LEMMA IdentityStep == IdentityInv /\ [IdentityNext]_identityVars => IdentityInv'
<1> SUFFICES ASSUME IdentityInv, [IdentityNext]_identityVars PROVE IdentityInv'
  OBVIOUS
<1>1. ASSUME NEW v \in Vms, VmStep(v) PROVE IdentityInv'
  BY <1>1, VmKeepsInv
<1>2. ASSUME NEW v \in Vms, Replaced(v) PROVE IdentityInv'
  BY <1>2, ReplacedKeepsInv
<1>3. ASSUME NEW v \in Vms, NEW s \in Snaps, Capture(v, s) PROVE IdentityInv'
  BY <1>3, CaptureKeepsInv
<1>4. CASE UNCHANGED identityVars
  <2>1. \A w \in Vms : Untouched(w)
    BY <1>4 DEF identityVars, Untouched
  <2>2. (\A w \in Vms : VmInv(w))'
    BY <2>1, InvOfVms, UntouchedKept
  <2>3. (\A s \in Snaps : ImageInv(s))'
    BY <1>4, InvOfVms, ImagesKept DEF identityVars
  <2>4. IdentityTypeOK'
    BY <1>4 DEF IdentityInv, IdentityTypeOK, identityVars
  <2> QED BY <2>2, <2>3, <2>4, InvOfVms DEF IdentityInv, NeverRefused, VmInv
<1>5. CASE IdentityNext
  <2>1. PICK v \in Vms :
            \/ VmStep(v) \/ Replaced(v)
            \/ \E s \in Snaps : Capture(v, s)
    BY <1>5 DEF IdentityNext, HostStep, InitHandler, RekeyHandler, VmStep
  <2> QED BY <2>1, <1>1, <1>2, <1>3
<1> QED BY <1>4, <1>5

(***************************************************************************)
(* The invariant holds in every reachable state, for any number of VMs,    *)
(* snapshots and tries: initialize_guest, the agent's init and rekey and   *)
(* rollback_snapshot keep it in every interleaving.                        *)
(***************************************************************************)
THEOREM IdentityInvariant == IdentitySpec => []IdentityInv
BY InitIsIdentityInv, IdentityStep, PTL DEF IdentitySpec

(***************************************************************************)
(* A sandbox that callers can use has a guest with the id and the token of *)
(* its record, and its own address (launch_inner, rollback_snapshot).      *)
(***************************************************************************)
THEOREM RecordMatches == IdentitySpec => []IdentityMatchesRecord
<1>1. IdentityInv => IdentityMatchesRecord
  BY DEF IdentityInv, RecordInv, IdentityMatchesRecord
<1> QED BY <1>1, IdentityInvariant, PTL

(***************************************************************************)
(* The token that create_snapshot stores opens no sandbox but the captured *)
(* one: every restored guest is rekeyed before it can be used.             *)
(***************************************************************************)
THEOREM TokenRetired == IdentitySpec => []CapturedTokenRetired
<1>1. ASSUME IdentityInv, NEW s \in Snaps, NEW v \in Vms,
             image[s] # None, stage[v] = "mapped", guest[v].token = image[s].token
      PROVE  v = image[s].of
  <2>1. image[s] \in Images /\ image[s].token \in {Token(image[s].of, 1), Token(image[s].of, 2)}
    BY <1>1 DEF IdentityInv, IdentityTypeOK, ImageInv
  <2>2. image[s].of \in Vms
    BY <2>1 DEF Images
  <2>3. guest[v] = [id |-> box[v], token |-> token[v]] /\ token[v] \in {Token(v, 1), Token(v, 2)}
    BY <1>1 DEF IdentityInv, RecordInv
  <2>4. image[s].token \in {Token(v, 1), Token(v, 2)}
    BY <1>1, <2>3
  <2> QED BY <2>1, <2>2, <2>4, TokensDiffer
<1>2. IdentityInv => CapturedTokenRetired
  BY <1>1 DEF CapturedTokenRetired
<1> QED BY <1>2, IdentityInvariant, PTL

(***************************************************************************)
(* An init that is repeated because its answer was lost, and a rekey with  *)
(* the token of the store or of the record, are never refused.             *)
(***************************************************************************)
THEOREM HostNeverRefused == IdentitySpec => []NeverRefused
<1>1. IdentityInv => NeverRefused
  BY DEF IdentityInv
<1> QED BY <1>1, IdentityInvariant, PTL
================================================================================
