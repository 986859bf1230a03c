--------------------------- MODULE DownloadProofs ---------------------------
(***************************************************************************)
(* What flappy_transaction_fetch lets pass, for any endpoints, servers,    *)
(* proxies, versions, faults and limits of the connection cache.           *)
(*                                                                         *)
(* The signature is verified against the digest computed while the data    *)
(* came in, not against the file.  VerifiedOk is about the file, so that   *)
(* the proof has to follow the digest and the partial file from the GET    *)
(* request to the rename.  Nothing is assumed of what the transfer library *)
(* returns.                                                                *)
(***************************************************************************)
EXTENDS Download, TLAPS

(* A function from files to what is on the disk under their names. *)
Disk(g) == g = [f \in File |-> [there |-> g[f].there, data |-> g[f].data, time |-> g[f].time]]

Transfer == {"get", "wait", "read", "rename"}

(* The files of an operation and their order: the package comes last. *)
TodoInv ==
  /\ op \in {"fetch", "sync"}
  /\ phase \in Transfer =>
       todo \in IF op = "fetch" THEN {<<"sig", "pkg">>, <<"pkg">>} ELSE {<<"index">>}

(* The digest is that of the partial file while it grows, and of the       *)
(* package when it has been renamed.  It is that of nothing if no data     *)
(* were transferred (a reply without a body to a complete partial file).   *)
DigestInv ==
  /\ phase = "wait" => ~unchanged /\ digest = <<>>
  /\ phase = "read" => ~unchanged /\ digest = part[Cur].data
  /\ phase = "rename" => ~unchanged /\ digest \in {<<>>, part[Cur].data}
  /\ phase = "verify" => op = "fetch" /\ (unchanged \/ digest \in {<<>>, file["pkg"].data})

IInv == Disk(part) /\ Disk(file) /\ TodoInv /\ DigestInv /\ VerifiedOk

----------------------------------------------------------------------------
(* No signature is valid for no data: a package has at least one block.    *)
LEMMA NothingIsSigned == ASSUME NEW sig PROVE ~Signed(sig, <<>>)
<1> SUFFICES ASSUME NEW w \in 1..MaxVer, <<>> = Whole("pkg", w) PROVE FALSE
  BY DEF Signed
<1>1. Size["pkg"][w] \in Nat \ {0}
  BY DownloadAssumption
<1>2. DOMAIN Whole("pkg", w) = 1..Size["pkg"][w]
  BY DEF Whole
<1>3. 1 \in DOMAIN Whole("pkg", w)
  BY <1>1, <1>2
<1> QED BY <1>3

(* The file in transfer is one of the repository's. *)
LEMMA CurIsFile ==
  ASSUME TodoInv, phase \in Transfer
  PROVE  /\ Cur \in File
         /\ op = "fetch" =>
              \/ Cur = "sig" /\ Tail(todo) = <<"pkg">>
              \/ Cur = "pkg" /\ Tail(todo) = <<>>
<1>1. /\ Head(<<"sig", "pkg">>) = "sig" /\ Tail(<<"sig", "pkg">>) = <<"pkg">>
      /\ Head(<<"pkg">>) = "pkg" /\ Tail(<<"pkg">>) = <<>>
      /\ Head(<<"index">>) = "index"
  OBVIOUS
<1>2. todo \in {<<"sig", "pkg">>, <<"pkg">>} \/ (op = "sync" /\ todo = <<"index">>)
  BY DEF TodoInv
<1> QED BY <1>1, <1>2, DownloadAssumption DEF Cur

(* After a file comes the next one, or the verification if it was the      *)
(* package; the end if it was an index.                                    *)
LEMMA NextFileKeeps ==
  ASSUME IInv, phase \in Transfer, NEW u \in BOOLEAN, NextFile(u), Disk(part'), Disk(file'),
         op' = op,
         Cur = "pkg" => u \/ digest \in {<<>>, file'["pkg"].data}
  PROVE  IInv'
<1>1. CASE op = "sync"
  BY <1>1 DEF NextFile, End, IInv, TodoInv, DigestInv, VerifiedOk, Transfer
<1>2. CASE op = "fetch" /\ Cur = "sig" /\ Tail(todo) = <<"pkg">>
  <2>1. phase' = "get" /\ todo' = <<"pkg">>
    <3>1. <<"pkg">> # <<>>
      OBVIOUS
    <3> QED BY <1>2, <3>1 DEF NextFile
  <2> QED BY <1>2, <2>1 DEF IInv, TodoInv, DigestInv, VerifiedOk, Transfer
<1>3. CASE op = "fetch" /\ Cur = "pkg" /\ Tail(todo) = <<>>
  <2>1. phase' = "verify" /\ unchanged' = u /\ digest' = digest
    BY <1>3 DEF NextFile
  <2> QED BY <1>3, <2>1 DEF IInv, TodoInv, DigestInv, VerifiedOk, Transfer
<1> QED BY <1>1, <1>2, <1>3, CurIsFile DEF IInv, TodoInv

(* An operation that ends with nothing to let pass keeps the invariant.    *)
LEMMA EndKeeps ==
  ASSUME IInv, NEW res, res # "ok", End(res), Disk(part'), Disk(file'), op' = op
  PROVE  IInv'
BY DEF IInv, End, TodoInv, DigestInv, VerifiedOk, Transfer

(* Nothing is downloaded at first.                                         *)
LEMMA InitIInv == Init => IInv
BY DEF Init, IInv, Disk, Missing, TodoInv, DigestInv, VerifiedOk, Transfer

(* Every step keeps the invariant. *)
LEMMA NextIInv == IInv /\ [Next]_vars => IInv'
<1> SUFFICES ASSUME IInv, [Next]_vars PROVE IInv'
  OBVIOUS
<1>1. CASE UNCHANGED dvars
  BY <1>1 DEF dvars, IInv, Disk, TodoInv, DigestInv, VerifiedOk, Transfer, Cur
<1>2. CASE Fetch
  BY <1>2 DEF Fetch, Begin, IInv, Disk, TodoInv, DigestInv, VerifiedOk, Transfer, fvars
<1>3. CASE Sync
  BY <1>3 DEF Sync, Begin, IInv, Disk, TodoInv, DigestInv, VerifiedOk, Transfer, fvars
<1>4. CASE Get
  BY <1>4 DEF Get, IInv, Disk, TodoInv, DigestInv, VerifiedOk, Transfer
<1>5. CASE Waiting
  BY <1>1, <1>5 DEF Waiting
<1>6. CASE NoBody
  <2>1. phase = "wait" /\ UNCHANGED <<part, file, op>>
    BY <1>6 DEF NoBody, Done
  <2>2. Disk(part') /\ Disk(file')
    BY <2>1 DEF IInv, Disk
  <2>3. CASE NextFile(TRUE)
    BY <2>1, <2>2, <2>3, NextFileKeeps DEF Transfer
  <2>4. CASE phase' = "rename" /\ UNCHANGED <<todo, result, unchanged, digest>>
    BY <2>1, <2>2, <2>4 DEF IInv, TodoInv, DigestInv, VerifiedOk, Transfer, Cur
  <2>5. CASE End("error")
    BY <2>1, <2>2, <2>5, EndKeeps
  <2> QED BY <1>6, <2>3, <2>4, <2>5 DEF NoBody
<1>7. CASE Open
  <2>1. phase = "wait" /\ phase' = "read" /\ UNCHANGED <<file, op, todo, unchanged>>
    BY <1>7 DEF Open, Done
  <2>2. Cur \in File
    BY <2>1, CurIsFile DEF IInv, Transfer
  <2>3. part' = [part EXCEPT ![Cur] = IF restart' THEN part[Cur] ELSE There(<<>>, ver)]
    BY <1>7 DEF Open
  <2>4. Disk(part')
    BY <2>2, <2>3 DEF IInv, Disk, There
  <2>5. digest' = part'[Cur].data
    BY <1>7 DEF Open
  <2> QED BY <2>1, <2>4, <2>5 DEF IInv, Disk, TodoInv, DigestInv, VerifiedOk, Transfer, Cur
<1>8. CASE Read
  <2>1. phase = "read" /\ UNCHANGED <<file, op, todo, phase, unchanged>>
    BY <1>8 DEF Read
  <2>2. Cur \in File
    BY <2>1, CurIsFile DEF IInv, Transfer
  <2>3. part' = [part EXCEPT ![Cur] = There(Append(part[Cur].data, Head(rep.body)), ver)]
    BY <1>8 DEF Read
  <2>4. Disk(part') /\ part'[Cur].data = Append(part[Cur].data, Head(rep.body))
    BY <2>2, <2>3 DEF IInv, Disk, There
  <2>5. digest' = part'[Cur].data
    BY <1>8, <2>1, <2>4 DEF Read, IInv, DigestInv
  <2> QED BY <2>1, <2>4, <2>5 DEF IInv, Disk, TodoInv, DigestInv, VerifiedOk, Transfer, Cur
<1>9. CASE ReadFails
  BY <1>9, EndKeeps DEF ReadFails, IInv, Disk
<1>10. CASE Eof
  <2>1. phase = "read" /\ UNCHANGED <<file, op>>
    BY <1>10 DEF Eof
  <2>2. Cur \in File
    BY <2>1, CurIsFile DEF IInv, Transfer
  <2>3. CASE End("error") /\ UNCHANGED part
    BY <2>1, <2>3, EndKeeps DEF IInv, Disk
  <2>4. CASE /\ phase' = "rename" /\ part' = [part EXCEPT ![Cur].time = rep.time]
             /\ UNCHANGED <<todo, digest, unchanged>>
    <3>1. Disk(part') /\ part'[Cur].data = part[Cur].data
      BY <2>2, <2>4 DEF IInv, Disk
    <3> QED BY <2>1, <2>4, <3>1 DEF IInv, Disk, TodoInv, DigestInv, VerifiedOk, Transfer, Cur
  <2> QED BY <1>10, <2>3, <2>4 DEF Eof
<1>11. CASE Rename
  <2>1. phase = "rename" /\ NextFile(FALSE) /\ UNCHANGED op
    BY <1>11 DEF Rename
  <2>2. Cur \in File
    BY <2>1, CurIsFile DEF IInv, Transfer
  <2>3. Disk(part') /\ Disk(file') /\ file'[Cur] = part[Cur]
    BY <1>11, <2>2 DEF Rename, IInv, Disk, Missing
  <2> QED BY <2>1, <2>3, NextFileKeeps DEF Transfer, IInv, DigestInv
<1>12. CASE Verify
  <2> DEFINE data == IF unchanged THEN file["pkg"].data ELSE digest
  <2>1. phase = "verify" /\ UNCHANGED <<part, op>>
    BY <1>12 DEF Verify
  <2>2. CASE Signed(file["sig"].data, data)
    <3>1. data = file["pkg"].data
      BY <2>1, <2>2, NothingIsSigned DEF IInv, DigestInv
    <3>2. End("ok") /\ UNCHANGED file
      BY <1>12, <2>2 DEF Verify
    <3>3. VerifiedOk'
      BY <2>2, <3>1, <3>2 DEF VerifiedOk, Signed, Whole
    <3> QED BY <2>1, <3>2, <3>3 DEF IInv, Disk, End, TodoInv, DigestInv, Transfer
  <2>3. CASE ~Signed(file["sig"].data, data)
    <3>1. End("EPERM") /\ file' = Removed({"pkg", "sig"})
      BY <1>12, <2>3 DEF Verify
    <3>2. Disk(part') /\ Disk(file')
      BY <2>1, <3>1 DEF IInv, Disk, Removed, Missing
    <3> QED BY <2>1, <3>1, <3>2, EndKeeps
  <2> QED BY <2>2, <2>3
<1>13. CASE Exit
  BY <1>1, <1>13 DEF Exit
<1>14. CASE Crash
  BY <1>14, EndKeeps DEF Crash, IInv, Disk
<1>15. CASE Publish
  BY <1>1, <1>15 DEF Publish
<1>16. CASE UNCHANGED vars
  BY <1>1, <1>16 DEF vars
<1> QED
  BY <1>2, <1>3, <1>4, <1>5, <1>6, <1>7, <1>8, <1>9, <1>10, <1>11, <1>12, <1>13, <1>14, <1>15, <1>16
  DEF Next

(* A package that flappy_transaction_fetch lets pass is, on the disk, with *)
(* its signature, one version of the repository's.                         *)
THEOREM Verified == Spec => []VerifiedOk
<1>1. IInv => VerifiedOk
  BY DEF IInv
<1> QED BY InitIInv, NextIInv, <1>1, PTL DEF Spec
=============================================================================
