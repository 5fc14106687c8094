-------------------------- MODULE MCCurlTransfers --------------------------
(* Requests to two hosts that leave something behind on the easy handle,   *)
(* and requests that would pick it up.                                     *)
EXTENDS CurlTransfers, TLC

Request(host, method, hdrs, body, opts) ==
    [host |-> host, method |-> method, hdrs |-> hdrs, body |-> body, opts |-> opts, refused |-> {}]

Bare == Request("a", "GET", FALSE, None, << >>)
Login == Request("a", "DELETE", TRUE, None, [httpauth |-> "user", proxyauth |-> "user"])
Part == Request("a", "GET", TRUE, None,
    [range |-> "0-1", etag |-> "tag", lastmodified |-> "now", timeout |-> "5"])
Whole == Request("a", "HEAD", TRUE, None,
    [etag |-> "tag", lastmodified |-> "now", compress |-> "on", cookies |-> "c"])
NoAres == [Request("a", "GET", FALSE, None,
    [resolve |-> "h", redirect |-> "3", dns_servers |-> "d", port |-> "8"])
        EXCEPT !.refused = {"dns_servers"}]
Secure == Request("a", "GET", FALSE, None,
    [ssl |-> "given", verifypeer |-> "off", cert |-> Barred])
Post == Request("a", "POST", FALSE, "seek", << >>)

Reused    == {Bare, Login, Part, Whole, NoAres, Secure}
Failing   == {Login, [Login EXCEPT !.method = None], [Login EXCEPT !.host = None],
              [Part EXCEPT !.host = "b"]}
Uploading == {Post, [Post EXCEPT !.host = "b", !.method = "PUT"], [Post EXCEPT !.body = None],
              [Post EXCEPT !.body = "pipe"]}
MCScripts == {Reused, Failing, Uploading}

Permuted == Permutations(Slots) \cup Permutations(Handles)

MCSize == [b \in {"seek", "pipe"} |-> 2]
=============================================================================
