------------------------------ MODULE Download ------------------------------
(***************************************************************************)
(* Files from a remote repository: flappy_fetch_file_dest_sha256           *)
(* (lib/download.c) with its partial files and its resumption, the         *)
(* packages of a transaction with their signatures                         *)
(* (lib/transaction_fetch.c, lib/verifysig.c) and the index of a           *)
(* repository (lib/repo_sync.c).  The process may die at any step, the     *)
(* disk may be full and the server may publish another version.            *)
(*                                                                         *)
(* A digest is the data it is of.  A signature is valid for the data of    *)
(* the same version.                                                       *)
(***************************************************************************)
EXTENDS Ftp

(* No file of a repository is empty. *)
ASSUME DownloadAssumption ==
  /\ MaxVer \in Nat \ {0}
  /\ {"sig", "pkg", "index"} \subseteq File
  /\ Size \in [File -> [1..MaxVer -> Nat \ {0}]]

VARIABLES
  part, file,  \* file.part and file: [there, data, time]
  op,          \* "fetch" a package, "sync" the index
  origin,      \* the endpoint of the repository
  todo,        \* the files left
  phase,       \* "idle", "get", "wait", "read", "rename", "verify"
  restart,     \* flappy_fetch_file_dest_sha256: the partial file is resumed
  digest,      \* what was fed to SHA256_Update
  loaded,      \* bytes_dload
  unchanged,   \* the last file was not modified
  result,      \* of the last operation: "none", "ok", "error" or "EPERM"
  began,       \* faults and version when the operation began
  strikes      \* operations in a row that failed with nothing to blame

dvars == <<part, file, op, origin, todo, phase, restart, digest, loaded, unchanged, result,
           began, strikes>>
vars == <<fvars, dvars>>

Missing == [there |-> FALSE, data |-> <<>>, time |-> 0]
There(data, time) == [there |-> TRUE, data |-> data, time |-> time]
Whole(f, w) == [k \in 1..Size[f][w] |-> <<w, k>>]

(* flappy_verify_signature with the repository's key. *)
Signed(sig, data) == \E w \in 1..MaxVer : sig = Whole("sig", w) /\ data = Whole("pkg", w)

(* The end of a transfer, of an operation, and of one that failed by       *)
(* itself; a partial file longer than the remote one is something else.    *)
TooLong == \E f \in File : Len(part[f].data) > Size[f][ver]
Forget == restart' = FALSE /\ loaded' = 0
End(res) ==
  /\ phase' = "idle" /\ todo' = <<>> /\ result' = res
  /\ Forget /\ digest' = <<>> /\ unchanged' = FALSE
  /\ began' = <<0, 1>> /\ origin' = NoUrl.end
  /\ strikes' = IF res \in {"ok", "none"} \/ TooLong \/ began # <<faults', ver>> THEN 0 ELSE Min({strikes + 1, 2})

-----------------------------------------------------------------------------
(* flappy_fetch_file_dest_sha256.                                          *)

Cur == Head(todo)
Refetch == file[Cur].there
Resumes == part[Cur].there /\ part[Cur].data # <<>>
LocalSize == IF Refetch /\ ~Resumes THEN Len(file[Cur].data) ELSE Len(part[Cur].data)

(* Issue a GET request, from where the partial file ends, for what is      *)
(* newer than the file.                                                    *)
Get ==
  /\ phase = "get" /\ phase' = "wait"
  /\ StartRequest(Cur, origin, IF Refetch /\ ~Resumes THEN 0 ELSE Len(part[Cur].data),
                  IF Refetch THEN file[Cur].time ELSE 0)
  /\ restart' = Resumes /\ digest' = <<>> /\ loaded' = 0 /\ unchanged' = FALSE
  /\ UNCHANGED <<cvars, he, rep, evars, part, file, op, origin, todo, result, began, strikes>>

Waiting == phase = "wait" /\ (Request \/ FtpRequest) /\ UNCHANGED dvars

Done == phase = "wait" /\ fpc = "done"

NextFile(unmodified) ==
  IF op = "sync" THEN End("ok")
  ELSE /\ todo' = Tail(todo) /\ phase' = IF Tail(todo) # <<>> THEN "get" ELSE "verify"
       /\ unchanged' = unmodified /\ Forget
       /\ UNCHANGED <<result, strikes, began, digest, origin>>

(* 304, or an error. *)
NoBody ==
  /\ Done /\ rep.kind # "body" /\ Over /\ UNCHANGED evars
  /\ IF rep.kind = "unchanged" THEN NextFile(TRUE)
     ELSE IF rep.kind = "proto" /\ rep.size = LocalSize
       THEN phase' = "rename" /\ Forget /\ UNCHANGED <<todo, result, strikes, unchanged, digest, began, origin>>
     ELSE End("error")
  /\ UNCHANGED <<cvars, part, file, op>>

(* The partial file is kept if the remote size is known and not smaller;   *)
(* what is in it goes into the digest first.                               *)
Open ==
  /\ Done /\ rep.kind = "body" /\ phase' = "read"
  /\ restart' = (restart /\ rep.size # Unknown /\ LocalSize <= rep.size)
  /\ part' = [part EXCEPT ![Cur] = IF restart' THEN @ ELSE There(<<>>, ver)]
  /\ digest' = part'[Cur].data
  /\ UNCHANGED <<fvars, file, op, origin, todo, loaded, unchanged, result, began, strikes>>

(* One block arrives and is written. *)
Read ==
  /\ phase = "read" /\ rep.body # <<>>
  /\ rep' = [rep EXCEPT !.body = Tail(@)]
  /\ part' = [part EXCEPT ![Cur] = There(Append(@.data, Head(rep.body)), ver)]
  /\ digest' = Append(digest, Head(rep.body)) /\ loaded' = loaded + 1
  /\ UNCHANGED <<cvars, he, url, i, auth, cached, conn, fpc, evars, file, op, origin, todo, phase, restart,
                 unchanged, result, began, strikes>>

(* The transfer breaks (the connection is gone) or the disk is full (it is *)
(* not, and has the rest of the reply).                                    *)
ReadFails ==
  /\ phase = "read" /\ Fault /\ Over
  /\ End("error") /\ CloseIO(<<0>>)
  /\ UNCHANGED <<unreach, ver, server, part, file, op>>

(* The end of the data, as announced or because the peer closed the        *)
(* connection, which only a known size tells apart.                        *)
Eof ==
  /\ phase = "read" /\ Over
  /\ IF rep.body = <<>> THEN NoFault ELSE Fault
  /\ CloseIO(rep.body)
  /\ IF rep.size > 0 /\ loaded + rep.offset # rep.size
       THEN End("error") /\ UNCHANGED part
       ELSE /\ phase' = "rename" /\ part' = [part EXCEPT ![Cur].time = rep.time]
            /\ Forget /\ UNCHANGED <<todo, result, strikes, digest, unchanged, began, origin>>
  /\ UNCHANGED <<unreach, ver, server, file, op>>

Rename ==
  /\ phase = "rename" /\ UNCHANGED fvars
  /\ file' = [file EXCEPT ![Cur] = part[Cur]] /\ part' = [part EXCEPT ![Cur] = Missing]
  /\ NextFile(FALSE) /\ UNCHANGED op

-----------------------------------------------------------------------------
(* flappy_transaction_fetch and flappy_repo_sync.                          *)

Begin(o, files, ph) ==
  /\ phase = "idle" /\ Cardinality(Fresh) > 1 /\ op' = o /\ todo' = files /\ phase' = ph
  /\ began' = <<faults, ver>> /\ result' = "none"
  /\ \E e \in Endpoint : origin' = e
  /\ UNCHANGED <<fvars, part, file, restart, digest, loaded, strikes>>

InCache == file["pkg"].there /\ file["sig"].there

(* A package and its signature: downloaded, unless both are there. *)
Fetch ==
  /\ IF InCache THEN Begin("fetch", <<>>, "verify") /\ unchanged' = TRUE
     ELSE Begin("fetch", <<"sig", "pkg">>, "get") /\ UNCHANGED unchanged

Sync == Begin("sync", <<"index">>, "get") /\ UNCHANGED unchanged

(* Both files are removed if the signature is not valid. *)
Removed(fs) == [f \in File |-> IF f \in fs THEN Missing ELSE file[f]]

(* Bug: what was in the cache already is not verified. *)
VerifyDownloaded ==
  /\ phase = "verify" /\ UNCHANGED fvars
  /\ LET data == IF unchanged THEN file["pkg"].data ELSE digest
     IN IF unchanged \/ Signed(file["sig"].data, data) THEN End("ok") /\ UNCHANGED file
        ELSE End("EPERM") /\ file' = Removed({"pkg", "sig"})
  /\ UNCHANGED <<part, op>>

(* Bug: files with a wrong signature are kept. *)
VerifyKeeping ==
  /\ phase = "verify" /\ UNCHANGED fvars
  /\ LET data == IF unchanged THEN file["pkg"].data ELSE digest
     IN IF Signed(file["sig"].data, data) THEN End("ok") /\ UNCHANGED file
        ELSE End("EPERM") /\ UNCHANGED file
  /\ UNCHANGED <<part, op>>

(* Verified by the digest of what was downloaded, or by the file if        *)
(* nothing was; if the signature is not valid both files are removed.      *)
Verify ==
  /\ phase = "verify" /\ UNCHANGED fvars
  /\ LET data == IF unchanged THEN file["pkg"].data ELSE digest
     IN IF Signed(file["sig"].data, data) THEN End("ok") /\ UNCHANGED file
        ELSE End("EPERM") /\ file' = Removed({"pkg", "sig"})
  /\ UNCHANGED <<part, op>>

(* The process ends, or dies. *)
NewProcess ==
  /\ conns' = [c \in Conn |-> NoConn] /\ head' = Nil
  /\ unreach' = {} /\ next' = [c \in Conn |-> Nil] /\ Over

Exit ==
  /\ phase = "idle" /\ NewProcess
  /\ UNCHANGED <<evars, dvars>>

Crash ==
  /\ phase # "idle" /\ Fault /\ NewProcess /\ End("none")
  /\ UNCHANGED <<ver, server, part, file, op>>

(* The repository has another version of everything. *)
Publish ==
  /\ ver < MaxVer /\ ver' = ver + 1
  /\ UNCHANGED <<cvars, rvars, server, faults, dvars>>

-----------------------------------------------------------------------------
Init ==
  /\ conns = [c \in Conn |-> NoConn]
  /\ head = Nil /\ next = [c \in Conn |-> Nil] /\ unreach = {}
  /\ he = NoAttempts /\ url = NoUrl
  /\ i = 0 /\ auth = FALSE /\ cached = FALSE /\ conn = Nil /\ fpc = "idle" /\ rep = Result("none")
  /\ ver = 1 /\ faults = 0
  /\ server \in Server
  /\ part = [f \in File |-> Missing] /\ file = [f \in File |-> Missing]
  /\ op = "sync" /\ origin = NoUrl.end /\ todo = <<>> /\ phase = "idle"
  /\ restart = FALSE /\ digest = <<>> /\ loaded = 0 /\ unchanged = FALSE
  /\ result = "none" /\ began = <<0, 1>> /\ strikes = 0

Next ==
  \/ Fetch \/ Sync \/ Get \/ Waiting \/ NoBody \/ Open \/ Read \/ ReadFails \/ Eof \/ Rename
  \/ Verify \/ Exit \/ Crash \/ Publish

Spec == Init /\ [][Next]_vars

-----------------------------------------------------------------------------
(* A package that flappy_transaction_fetch lets pass is, with its          *)
(* signature, one version of the repository's: whatever was resumed from   *)
(* an earlier run, mixed by a change of the remote file, cut short, or     *)
(* left unverified by a process that died.                                 *)
VerifiedOk ==
  result = "ok" /\ op = "fetch" /\ phase = "idle" =>
    Signed(file["sig"].data, file["pkg"].data)

(* A broken download heals by itself: after one attempt that failed with   *)
(* no fault of the network or the server, the next one succeeds, whatever  *)
(* was left on the disk or in the connection cache.  The exceptions are a  *)
(* partial file longer than the remote one, which an HTTP server refuses   *)
(* to resume, and proxies, whose connections are mixed up.                 *)
Heals ==
  \/ strikes < 2
  \/ server.via = "proxy"

(* The connection cache holds connections that are open and not in use,    *)
(* each once, under the endpoint or the proxy it is for, and no more than  *)
(* its limits (fetch_cache_get, fetch_cache_put).                          *)
CacheSound ==
  /\ Len(Cache) <= GlobalLimit /\ Cardinality(ToSet(Cache)) = Len(Cache)
  /\ \A c \in ToSet(Cache) :
       /\ conns[c].live
       /\ Cardinality({d \in ToSet(Cache) : Host[conns[d].key] = Host[conns[c].key]}) <= HostLimit
  /\ fpc = "reply" \/ phase = "read" =>
       conns[conn].live /\ conns[conn].key = Key /\ conn \notin ToSet(Cache)

=============================================================================
