------------------------------- MODULE Fetch --------------------------------
(***************************************************************************)
(* The transfer library (lib/fetch): connecting to a host by Happy         *)
(* Eyeballs, the cache of connections (common.c) and an HTTP request with  *)
(* its retries, redirections and the interpretation of the reply (http.c). *)
(*                                                                         *)
(* Connections are the nodes of the linked list `connection_cache'; a node *)
(* that was freed keeps its next pointer, as freed memory does.  The       *)
(* server (external) has every file in a sequence of versions; a block of  *)
(* a file is the version it is from and its place.  What a server or the   *)
(* network does wrong counts as a fault.                                   *)
(***************************************************************************)
EXTENDS Integers, Sequences, FiniteSets, SequencesExt, FiniteSetsExt

CONSTANTS
  Endpoint,      \* scheme, host, port and user of a URL
  Scheme,        \* endpoint -> "http", "https" or "ftp"
  Proxy,         \* the endpoint of HTTP_PROXY
  Host,          \* endpoint -> host
  GlobalLimit, HostLimit,  \* of the connection cache
  MaxConn,       \* bound: conn_t objects
  N4, N6,        \* addresses of a host, by family
  MaxRedirect,   \* MAX_REDIRECT
  File,
  MaxVer,        \* bound: versions a file goes through
  Size,          \* file -> version -> number of blocks
  Server,        \* how servers answer: resuming, by length, chunks or end of file, with a
                 \* page for an error, keeping the connection, over IPv6, to a password,
                 \* reached directly or via a proxy
  MaxFaults      \* bound: faults

ASSUME FetchAssumption ==
  /\ Proxy \notin Endpoint
  /\ GlobalLimit \in Nat \ {0} /\ HostLimit \in Nat \ {0} /\ MaxConn \in Nat
  /\ \A h \in {Host[e] : e \in Endpoint} : HostLimit >= Cardinality({e \in Endpoint : Host[e] = h})

Conn == 1..MaxConn
NoConn == [live |-> FALSE, key |-> Proxy, end |-> Proxy, alive |-> FALSE, clean |-> FALSE]
Nil == 0
Home == CHOOSE e \in Endpoint : Scheme[e] # "ftp"   \* where servers may redirect to
Unknown == -1   \* a size or length that is not known

VARIABLES
  conns,     \* conn_t: [live, key, end, alive, clean]: not freed, the URL it is cached
             \* under, who is at the other end, not closed by the peer, nothing of an
             \* earlier reply left to be read
  head, next,  \* the connection cache
  unreach,   \* address families found unreachable by this process
  he,        \* happy_eyeballs_connect: addresses tried, the last family, attempts waiting
  url,       \* the request: [file, end, offset, since]
  i, auth,   \* http_request: redirections so far, need_auth
  cached, conn,  \* its connection
  fpc,       \* "idle", "loop", "connect", "socks", "tunnel", "tls", "reply" or "done";
             \* for FTP "noop", "welcome", "cwd", "stat" or "retr"
  rep,       \* what fetchXGet returned
  ver,       \* the version the server has
  server,    \* how this server answers: [ranges, framing, page, keep, v6, auth, via]
  faults

cvars == <<conns, head, next, unreach>>
rvars == <<he, url, i, auth, cached, conn, fpc, rep>>
evars == <<ver, server, faults>>
fvars == <<cvars, rvars, evars>>

Fault == faults < MaxFaults /\ faults' = faults + 1
NoFault == UNCHANGED faults

-----------------------------------------------------------------------------
(* The connection cache.                                                   *)

(* The nodes reachable from `first'. *)
Nodes(first, nx) ==
  FoldLeft(LAMBDA acc, k : IF acc.it = Nil THEN acc
                           ELSE [it |-> nx[acc.it], seq |-> Append(acc.seq, acc.it)],
           [it |-> first, seq |-> <<>>], [k \in Conn |-> k]).seq

Cache == Nodes(head, next)

(* HTTP_PROXY carries FTP too. *)
Ftp == Scheme[url.end] = "ftp" /\ server.via # "proxy"
Key == IF server.via = "proxy" THEN Proxy ELSE url.end

(* fetch_cache_get: the list continues behind the connection taken.        *)
(* last_conn is never set, so that the nodes before it are lost.           *)
Cached(e) == {k \in DOMAIN Cache : conns[Cache[k]].key = e}
CacheGet(e) ==
  LET c == Cache[Min(Cached(e))] IN conn' = c /\ head' = next[c]

(* Bug: a full cache takes one more. *)
PutStepFull(acc, c) ==
  LET it == acc.it
      gc == acc.gc + 1
      hc == acc.hc + (IF Host[conns[it].key] = Host[conns[c].key] THEN 1 ELSE 0)
      keep == gc <= GlobalLimit /\ hc <= HostLimit
      nx == IF keep \/ acc.last = Nil THEN acc.nx ELSE [acc.nx EXCEPT ![acc.last] = acc.nx[it]]
  IN IF it = Nil THEN acc
     ELSE [it |-> acc.nx[it], last |-> it, hc |-> hc, gc |-> IF keep THEN gc ELSE gc - 1, nx |-> nx,
           head |-> IF ~keep /\ acc.last = Nil THEN acc.nx[it] ELSE acc.head,
           closed |-> IF keep THEN acc.closed ELSE acc.closed \cup {it}]

(* fetch_cache_put: the list is cut to the limits before c comes first.    *)
(* host_count is never reduced, and a node that was closed becomes `last'. *)
PutStep(acc, c) ==
  LET it == acc.it
      gc == acc.gc + 1
      hc == acc.hc + (IF Host[conns[it].key] = Host[conns[c].key] THEN 1 ELSE 0)
      keep == gc < GlobalLimit /\ hc < HostLimit
      nx == IF keep \/ acc.last = Nil THEN acc.nx ELSE [acc.nx EXCEPT ![acc.last] = acc.nx[it]]
  IN IF it = Nil THEN acc
     ELSE [it |-> acc.nx[it], last |-> it, hc |-> hc, gc |-> IF keep THEN gc ELSE gc - 1, nx |-> nx,
           head |-> IF ~keep /\ acc.last = Nil THEN acc.nx[it] ELSE acc.head,
           closed |-> IF keep THEN acc.closed ELSE acc.closed \cup {it}]

Put(c) ==
  FoldLeft(LAMBDA acc, k : PutStep(acc, c),
           [it |-> head, last |-> Nil, gc |-> 0, hc |-> 0, nx |-> next, head |-> head, closed |-> {}],
           [k \in Conn |-> k])

(* c goes back to the cache, c is closed. *)
Freed(cs, S) == [c \in Conn |-> IF c \in S THEN [NoConn EXCEPT !.key = cs[c].key] ELSE cs[c]]
CachePut(c, clean) ==
  LET p == Put(c)
  IN /\ conns' = [Freed(conns, p.closed) EXCEPT ![c].clean = @ /\ clean]
     /\ head' = c /\ next' = [p.nx EXCEPT ![c] = p.head]
Close(c) == conns' = Freed(conns, {c}) /\ UNCHANGED <<head, next>>

(* fetchIO_close of a body of which `left' was not read; FTP data have a   *)
(* connection of their own.                                                *)
CloseIO(left) ==
  IF rep.keep THEN CachePut(conn, left = <<>> \/ Ftp) ELSE Close(conn)

-----------------------------------------------------------------------------
(* Connecting.                                                             *)

Fresh == {c \in Conn : ~conns[c].live}

(* http_connect and ftp_connect: a cached connection, or a new one. *)
Loop ==
  /\ fpc = "loop"
  /\ IF Cached(Key) # {}
       THEN CacheGet(Key) /\ cached' = TRUE /\ fpc' = (IF Ftp THEN "noop" ELSE "reply") /\ UNCHANGED he
       ELSE /\ fpc' = "connect" /\ cached' = FALSE /\ conn' = Nil
            /\ he' = [i4 |-> IF 4 \in unreach THEN N4 ELSE 0,
                      i6 |-> IF 6 \in unreach THEN N6 ELSE 0, family |-> 4, waiting |-> 0]
            /\ UNCHANGED head
  /\ UNCHANGED <<conns, next, unreach, url, i, auth, rep, evars>>

Result(kind) ==
  [kind |-> kind, offset |-> 0, size |-> Unknown, time |-> 0, body |-> <<>>, keep |-> FALSE]

(* The request failed with no connection, or with one that is closed. *)
Fail(kind) == fpc' = "done" /\ rep' = Result(kind) /\ conn' = Nil

(* The next address, of the other family if there is one. *)
Family ==
  IF he.family = 4 THEN IF he.i6 < N6 THEN 6 ELSE 4 ELSE IF he.i4 < N4 THEN 4 ELSE 6
Attempted(f) ==
  [he EXCEPT !.family = f, !.i4 = IF f = 4 THEN @ + 1 ELSE @, !.i6 = IF f = 6 THEN @ + 1 ELSE @]

(* One connect(2): in progress, or an error.  An unreachable network rules *)
(* out its family, here and for later connections.                         *)
Attempt ==
  /\ fpc = "connect" /\ he.i4 + he.i6 < N4 + N6
  /\ LET f == Family
     IN IF f = 6 /\ ~server.v6
          THEN /\ unreach' = unreach \cup {6} /\ he' = [Attempted(f) EXCEPT !.i6 = N6]
               /\ UNCHANGED <<fpc, rep, conn, faults>>
        ELSE \/ /\ he' = [Attempted(f) EXCEPT !.waiting = @ + 1]   \* EINPROGRESS
                /\ NoFault /\ UNCHANGED <<unreach, fpc, rep, conn>>
             \/ /\ Fault /\ he' = Attempted(f)                     \* EADDRNOTAVAIL, EINVAL
                /\ UNCHANGED <<unreach, fpc, rep, conn>>
             \/ /\ Fault /\ Fail("error")                          \* any other error ends it
                /\ UNCHANGED <<unreach, he>>
  /\ UNCHANGED <<conns, head, next, url, i, auth, cached, ver, server>>

(* poll(2): one attempt succeeded, and the others are closed. *)
Tunnels == server.via = "proxy" /\ Scheme[url.end] = "https"
Established ==
  /\ fpc = "connect" /\ he.waiting > 0 /\ Fresh # {}
  /\ conn' = Min(Fresh)
  /\ conns' = [conns EXCEPT ![Min(Fresh)] =
                 [live |-> TRUE, key |-> Key, end |-> Key, alive |-> TRUE, clean |-> TRUE]]
  /\ fpc' = IF server.via = "socks5" THEN "socks" ELSE IF Tunnels THEN "tunnel"
            ELSE IF Ftp THEN "welcome" ELSE IF Scheme[url.end] = "https" THEN "tls" ELSE "reply"
  /\ UNCHANGED <<head, next, unreach, he, url, i, auth, cached, rep, evars>>

(* fetch_socks5: greeting, request and reply. *)
Socks5 ==
  /\ fpc = "socks"
  /\ \/ /\ NoFault /\ UNCHANGED <<conns, head, next, rep, conn>>
        /\ fpc' = IF Ftp THEN "welcome" ELSE IF Scheme[url.end] = "https" THEN "tls" ELSE "reply"
     \/ Fault /\ Fail("error") /\ Close(conn)
  /\ UNCHANGED <<unreach, he, url, i, auth, cached, ver, server>>

(* CONNECT: from here on the other end is the server. *)
Tunnel ==
  /\ fpc = "tunnel"
  /\ \/ /\ NoFault /\ fpc' = "tls" /\ conns' = [conns EXCEPT ![conn].end = url.end]
        /\ UNCHANGED <<head, next, rep, conn>>
     \/ Fault /\ Fail("error") /\ Close(conn)
  /\ UNCHANGED <<unreach, he, url, i, auth, cached, ver, server>>

(* fetch_ssl: the handshake, the certificate and the name in it. *)
Tls ==
  /\ fpc = "tls"
  /\ \/ NoFault /\ fpc' = "reply" /\ UNCHANGED <<conns, head, next, rep, conn>>
     \/ Fault /\ Fail("error") /\ Close(conn)
  /\ UNCHANGED <<unreach, he, url, i, auth, cached, ver, server>>

(* An attempt failed. *)
Refused ==
  /\ fpc = "connect" /\ he.waiting > 0 /\ Fault /\ he' = [he EXCEPT !.waiting = @ - 1]
  /\ UNCHANGED <<cvars, url, i, auth, cached, conn, fpc, rep, ver, server>>

(* No address is left and no attempt is waiting, or none of them is        *)
(* answered in time.                                                       *)
ConnectFails ==
  /\ fpc = "connect" /\ he.i4 + he.i6 = N4 + N6
  /\ IF he.waiting = 0 THEN NoFault ELSE Fault
  /\ Fail("error")
  /\ UNCHANGED <<cvars, he, url, i, auth, cached, ver, server>>

-----------------------------------------------------------------------------
(* Replies.                                                                *)

Content(f) == [k \in 1..Size[f][ver] |-> <<ver, k>>]

Again == fpc' = "loop" /\ UNCHANGED <<rep, conn>>

(* No status line, or not one: the peer closed the connection or data of   *)
(* an earlier reply are read.  A cached connection is replaced (--i, then  *)
(* ++i).                                                                   *)
NoReply ==
  /\ fpc = "reply"
  /\ IF conns[conn].alive /\ conns[conn].clean THEN Fault ELSE NoFault
  /\ IF cached THEN Again ELSE Fail("error")
  /\ Close(conn) /\ UNCHANGED <<unreach, he, url, i, auth, cached, ver, server>>

Replies == fpc = "reply" /\ conns[conn].alive /\ conns[conn].clean

(* The request reaches the server it is for, which a proxy does for all    *)
(* but https.                                                              *)
Reaches ==
  conns[conn].end = url.end \/ (conns[conn].end = Proxy /\ Scheme[url.end] # "https")

(* 401: once more, with the password. *)
Unauthorized ==
  /\ Replies /\ Reaches /\ server.auth /\ ~auth /\ auth' = TRUE
  /\ i' = i + 1 /\ IF i + 1 < MaxRedirect THEN Again ELSE Fail("error")
  /\ Close(conn) /\ UNCHANGED <<unreach, he, url, cached, evars>>

(* 301 and the like: the offset moves along, If-Modified-Since does not.   *)
(* A server that sends the client in circles is at fault.                  *)
Redirected ==
  /\ Replies /\ Reaches
  /\ \E e \in Endpoint :
       /\ url' = [url EXCEPT !.end = e, !.since = 0]
       /\ IF url.end # Home /\ e = Home THEN NoFault ELSE Fault
  /\ auth' = FALSE /\ i' = i + 1
  /\ IF i + 1 < MaxRedirect THEN Again ELSE Fail("error")
  /\ Close(conn) /\ UNCHANGED <<unreach, he, cached, ver, server>>

(* 4xx and 5xx that are not handled, such as the reply of another server. *)
ErrorReply ==
  /\ Replies /\ (IF Reaches THEN Fault ELSE NoFault) /\ Fail("error") /\ Close(conn)
  /\ UNCHANGED <<unreach, he, url, i, auth, cached, ver, server>>

Answers == Replies /\ Reaches /\ (server.auth => auth)
NotModified == url.since >= ver
RangeHonoured == server.ranges /\ url.offset > 0

(* 304 *)
Unchanged ==
  /\ Answers /\ NotModified /\ Fail("unchanged")
  /\ IF server.keep THEN CachePut(conn, TRUE) ELSE Close(conn)
  /\ UNCHANGED <<unreach, he, url, i, auth, cached, evars>>

(* 200 and 206; a chunked reply has no size. *)
Body ==
  /\ Answers /\ ~NotModified
  /\ LET part == RangeHonoured /\ url.offset < Size[url.file][ver]
         offset == IF part THEN url.offset ELSE 0
     IN /\ RangeHonoured => part
        /\ rep' = [kind |-> "body", offset |-> offset, time |-> ver,
                   body |-> SubSeq(Content(url.file), offset + 1, Size[url.file][ver]),
                   size |-> IF server.framing = "length" \/ part THEN Size[url.file][ver] ELSE Unknown,
                   keep |-> server.keep /\ server.framing # "close"]
  /\ fpc' = "done" /\ UNCHANGED <<cvars, he, url, i, auth, cached, conn, evars>>

(* 416: the whole file is there already, if that is its size.  A page with *)
(* the reply makes the lengths inconsistent.                               *)
BadRange ==
  /\ Answers /\ ~NotModified /\ RangeHonoured /\ url.offset >= Size[url.file][ver]
  /\ IF url.offset > Size[url.file][ver] THEN Fail("error") /\ Close(conn)
     ELSE IF server.page
       THEN /\ fpc' = "done" /\ conn' = Nil /\ Close(conn)
            /\ rep' = [Result("proto") EXCEPT !.size = Size[url.file][ver]]
       ELSE /\ fpc' = "done" /\ UNCHANGED <<conn, conns, head, next>>
            /\ rep' = [Result("body") EXCEPT !.size = Size[url.file][ver], !.offset = url.offset,
                                             !.keep = server.keep, !.time = ver]
  /\ UNCHANGED <<unreach, he, url, i, auth, cached, evars>>

(* The server closes a connection that is not in use. *)
PeerCloses ==
  /\ \E c \in Conn : /\ conns[c].live /\ conns[c].alive /\ c # conn
                     /\ conns' = [conns EXCEPT ![c].alive = FALSE]
  /\ UNCHANGED <<head, next, unreach, rvars, evars>>

(* The local variables of a request, when it is over. *)
NoAttempts == [i4 |-> 0, i6 |-> 0, family |-> 4, waiting |-> 0]
NoUrl == [file |-> CHOOSE f \in File : TRUE, end |-> Home, offset |-> 0, since |-> 0]
Over ==
  /\ fpc' = "idle" /\ he' = NoAttempts /\ url' = NoUrl /\ i' = 0 /\ auth' = FALSE
  /\ cached' = FALSE /\ conn' = Nil /\ rep' = Result("none")

(* fetchXGet. *)
StartRequest(f, e, offset, since) ==
  /\ fpc = "idle" /\ fpc' = "loop"
  /\ url' = [file |-> f, end |-> e, offset |-> offset, since |-> since]
  /\ i' = 0 /\ auth' = FALSE /\ cached' = FALSE /\ conn' = Nil

Request ==
  \/ Loop \/ Attempt \/ Established \/ Refused \/ ConnectFails \/ Socks5 \/ Tunnel \/ Tls
  \/ NoReply \/ Unauthorized \/ Redirected \/ ErrorReply \/ Unchanged \/ Body \/ BadRange
  \/ PeerCloses
=============================================================================
