----------------------------- MODULE MCDownload -----------------------------
(***************************************************************************)
(* Download with two endpoints and files of one and two blocks, the second *)
(* version of the package being shorter.                                   *)
(***************************************************************************)
EXTENDS Download

MCHost == [e \in Endpoint \cup {Proxy} |-> e]
MCScheme == [e \in Endpoint |-> IF e = "f" THEN "ftp" ELSE "https"]
MCSize == [f \in File |-> [w \in 1..MaxVer |-> IF f = "sig" \/ (f = "pkg" /\ w = 2) THEN 1 ELSE 2]]

(* A server with pages for its errors resumes; one that resumes is reached *)
(* by IPv6 too, one that does not has a password; one that ends a reply by *)
(* closing keeps none.                                                     *)
MCServer ==
  {s \in [ranges : BOOLEAN, framing : {"length", "chunked", "close"}, page : BOOLEAN,
          keep : BOOLEAN, v6 : BOOLEAN, auth : BOOLEAN, via : {"direct", "socks5", "proxy"}] :
     /\ s.page => s.ranges
     /\ s.v6 = s.ranges /\ s.auth = ~s.ranges
     /\ s.framing = "close" => ~s.keep
     /\ s.via = "socks5" => ~s.ranges
     /\ s.via = "proxy" => s.page}
=============================================================================
