-------------------------------- MODULE Ftp ---------------------------------
(***************************************************************************)
(* An FTP request (lib/fetch/ftp.c): the control connection, from the      *)
(* cache or new, and what is asked over it.  The data have a connection of *)
(* their own.                                                              *)
(***************************************************************************)
EXTENDS Fetch

(* A command that is answered as it should, or not: then the control       *)
(* connection is closed.                                                   *)
Command(at, then) ==
  /\ fpc = at
  /\ \/ /\ conns[conn].alive /\ NoFault /\ fpc' = then
        /\ UNCHANGED <<conns, head, next, rep, conn>>
     \/ /\ IF conns[conn].alive THEN Fault ELSE NoFault
        /\ Fail("error") /\ Close(conn)
  /\ UNCHANGED <<unreach, he, url, i, auth, cached, ver, server>>

(* NOOP: a cached connection that does not answer is closed, and the cache *)
(* is asked for another one.                                               *)
FtpNoop ==
  /\ fpc = "noop"
  /\ \/ /\ conns[conn].alive /\ NoFault /\ fpc' = "cwd" /\ UNCHANGED <<conns, head, next>>
     \/ /\ IF conns[conn].alive THEN Fault ELSE NoFault
        /\ fpc' = "loop" /\ Close(conn)
  /\ UNCHANGED <<unreach, he, url, i, auth, cached, conn, rep, ver, server>>

(* The welcome, USER and PASS. *)
FtpLogin == Command("welcome", "cwd")

(* PWD, CDUP and CWD, until the directory is the one of the file. *)
FtpCwd == Command("cwd", "stat")

(* SIZE and MDTM, which a server need not know: then the file has no size  *)
(* and is as old as can be.                                                *)
FtpStat ==
  /\ fpc = "stat" /\ conns[conn].alive
  /\ \E known \in BOOLEAN :
       /\ IF known THEN NoFault ELSE Fault
       /\ LET size == IF known THEN Size[url.file][ver] ELSE Unknown
              time == IF known THEN ver ELSE 0
          IN IF url.since > 0 /\ url.since >= time
               THEN Fail("unchanged") /\ CachePut(conn, TRUE)
               ELSE /\ fpc' = "retr" /\ rep' = [Result("body") EXCEPT !.size = size, !.time = time]
                    /\ UNCHANGED <<conn, conns, head, next>>
  /\ UNCHANGED <<unreach, he, url, i, auth, cached, ver, server>>

FtpStatFails ==
  /\ fpc = "stat" /\ (IF conns[conn].alive THEN Fault ELSE NoFault)
  /\ Fail("error") /\ Close(conn)
  /\ UNCHANGED <<unreach, he, url, i, auth, cached, ver, server>>

(* TYPE, EPSV or PASV or PORT, REST, the data connection and RETR.  If one *)
(* of them fails, the control connection is neither closed nor cached.     *)
FtpTransfer ==
  /\ fpc = "retr"
  /\ \/ /\ conns[conn].alive /\ NoFault /\ fpc' = "done" /\ UNCHANGED conn
        /\ rep' = [rep EXCEPT !.offset = url.offset, !.keep = TRUE,
                              !.body = SubSeq(Content(url.file), url.offset + 1, Size[url.file][ver])]
     \/ /\ IF conns[conn].alive THEN Fault ELSE NoFault
        /\ Fail("error")
  /\ UNCHANGED <<cvars, he, url, i, auth, cached, ver, server>>

FtpRequest ==
  FtpNoop \/ FtpLogin \/ FtpCwd \/ FtpStat \/ FtpStatFails \/ FtpTransfer
=============================================================================
