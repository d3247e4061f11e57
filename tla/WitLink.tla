------------------------------ MODULE WitLink ------------------------------
(***************************************************************************)
(* Links in Markdown (src/wit-server/src/server/link/mod.rs): a wit URI    *)
(* names a version, a server and a file; it is parsed into a WitLink and   *)
(* written back as an http URL of the server that renders the page.        *)
(*                                                                         *)
(* URLs are taken as the url crate takes them apart, with the port in the  *)
(* host, paths as the segments between slashes: "page" is <<"page">>,      *)
(* "/page" is <<"", "page">>.  Queries, dot segments and percent-encoding  *)
(* are left out.  Nothing calls to_wit and to_string.                      *)
(***************************************************************************)
EXTENDS Naturals, Sequences

CONSTANTS
    Versions,       \* user names in URLs, "" if there is none
    Hosts,          \* hosts in URLs, "" if there is none
    Segments,       \* of paths
    CURRENT_HOST    \* the authority of this server, address or domain

(* url::Url::parse: after an authority, a path is empty or starts with a   *)
(* slash.  "missing" is a link without a destination, "relative" one that  *)
(* is not a URL by itself.                                                 *)
Urls ==
    {url \in [scheme : {"wit", "http", "https", "mailto", "relative", "missing"},
              username : Versions, host : Hosts, path : Seq(Segments)] :
        \/ url.username = "" /\ url.host = ""
        \/ url.path = <<>>
        \/ url.path[1] = ""}

(* LocalOrRemote::from_str *)
HostFromUrl(url) == IF url.host \in {"", "local"} THEN "local" ELSE url.host

(* WitLink::from_url has a todo!() for http and https, and the caller an   *)
(* unimplemented!() for a link that has no URL.                            *)
LinkPanics(url) == url.scheme \in {"http", "https", "missing"}

FromUrl(url) ==
    [version |-> url.username, host |-> HostFromUrl(url), file |-> url.path]

(* Mutant of ToHttp: without the slash that the file starts with. *)
ToHttpTrimmed(link) ==
    [scheme |-> "http", username |-> "", host |-> CURRENT_HOST,
     path |-> <<"">> \o SelectSeq(link.file, LAMBDA segment : segment # "")]

(* "http://{CURRENT_HOST}/{file}", whatever the host and the version. *)
ToHttp(link) ==
    [scheme |-> "http", username |-> "", host |-> CURRENT_HOST,
     path |-> <<"">> \o link.file]

(* translate_wit_links_full: what is no wit URI stays as it is. *)
Translated(url) == IF url.scheme = "wit" THEN ToHttp(FromUrl(url)) ELSE url

-----------------------------------------------------------------------------
(* Paths that the router gives to other handlers. *)
Routes == {"favicon.ico", "connected-peers.json", "git"}

(* The route /:file_path takes exactly one segment, and not an empty one. *)
Routed(url) ==
    /\ url.scheme = "http"
    /\ url.host = CURRENT_HOST
    /\ Len(url.path) = 2
    /\ url.path[1] = ""
    /\ url.path[2] \notin {""} \cup Routes

(* The page that is served here for a URL that is routed. *)
Target(url) == url.path[2]

(* The WitLink is one of the current version of a page of this server. *)
IsHere(link, page) ==
    link.version = "" /\ link.host = "local" /\ link.file = <<page>>
=============================================================================
