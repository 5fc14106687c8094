--------------------------- MODULE CurlTransfers ---------------------------
(***************************************************************************)
(* The easy handles of the libcurl driver and what is set on them.          *)
(*                                                                         *)
(* Every transfer gets a new php_http_client_curl_handler_t, but the easy   *)
(* handle in it comes from a pool kept per host and port and is returned to *)
(* that pool, never through curl_easy_reset: whatever the next transfer to  *)
(* that host does not set again, it inherits.  Options are applied from a   *)
(* registry, in registration order, until libcurl refuses one.              *)
(***************************************************************************)
EXTENDS Integers, Sequences, FiniteSets, SequencesExt

CONSTANTS
    Slots,      \* elements of h->requests
    Handles,    \* bound: easy handles that are ever created
    Hosts,      \* "host:port" of a URL
    Bodies,     \* message bodies; requests may share one
    Size,       \* bytes in the stream of each body; an empty body is None
    Seekable,   \* the bodies whose stream can be rewound
    Scripts,    \* sets of requests, with their options: what one program enqueues
    None        \* no transfer, no host, no body, no method

Default == "default"   \* the defval of an option
Barred  == "barred"    \* a path open_basedir does not allow

(* php_http_curle_options, in the order of registration *)
Registry == <<"proxyhost", "proxytype", "proxyport", "proxyauth", "proxyauthtype",
    "proxytunnel", "noproxy", "dns_cache_timeout", "ipresolve", "resolve",
    "dns_servers", "low_speed_limit", "low_speed_time", "fresh_connect",
    "forbid_reuse", "interface", "portrange", "port", "address_scope", "httpauth",
    "httpauthtype", "redirect", "unrestricted_auth", "postredir", "retrycount",
    "retrydelay", "referer", "autoreferer", "useragent", "resume", "range", "etag",
    "compress", "lastmodified", "encodecookies", "cookies", "cookiesession",
    "cookiestore", "maxfilesize", "protocol", "timeout", "connecttimeout",
    "tcp_keepalive", "tcp_keepidle", "tcp_keepintvl", "ssl">>

SslRegistry == <<"cert", "certtype", "key", "keytype", "keypasswd", "engine", "version",
    "verifypeer", "verifyhost", "cipher_list", "cainfo", "capath", "random_file",
    "egdsocket", "issuercert", "crlfile", "certinfo">>

CheckBasedir == {"cookiestore", "cert", "key", "cainfo", "capath", "random_file",
                 "egdsocket", "issuercert", "crlfile"}
CheckStrlen  == CheckBasedir \cup
                {"proxyhost", "proxyauth", "dns_servers", "httpauth", "referer", "etag"}

Options    == ToSet(Registry) \cup ToSet(SslRegistry)
SslOptions == ToSet(SslRegistry)
(* Options that set nothing on the easy handle by themselves *)
Internal   == {"retrycount", "retrydelay", "etag", "compress", "encodecookies", "ssl"}
Settings   == (Options \ Internal) \cup {"timecondition"}

(* The requests of all programs, and what may be set on an easy handle *)
Requests == UNION Scripts
Values   == {Default, "IFMODSINCE", "IFUNMODSINCE"}
            \cup UNION {{r.opts[o] : o \in DOMAIN r.opts} : r \in Requests}

ASSUME BodiesAssumption == Seekable \subseteq Bodies /\ Size \in [Bodies -> Nat \ {0}] /\ None \notin Bodies
ASSUME HostsAssumption == None \notin Hosts
ASSUME RequestsAssumption == \A r \in Requests :
    /\ r.host \in Hosts \cup {None} /\ r.body \in Bodies \cup {None} /\ r.hdrs \in BOOLEAN

VARIABLES
    script,     \* the requests of this program
    easy,       \* what is set on each easy handle
    unborn,     \* easy handles not created yet
    pool,       \* idle easy handles, per host
    transfers,  \* the transfer of each slot
    pos         \* position of each body's stream

vars == <<script, easy, unborn, pool, transfers, pos>>

NewEasy == [opt    |-> [o \in Settings |-> Default],
            kind   |-> "GET",   \* HTTPGET, NOBODY, POST or UPLOAD, the last one set
            custom |-> None,    \* CUSTOMREQUEST
            list   |-> "none",  \* HTTPHEADER: no list, this transfer's, or a freed one
            reads  |-> None,    \* READDATA and IOCTLDATA
            size   |-> 0,       \* INFILESIZE and POSTFIELDSIZE
            hooks  |-> FALSE,   \* debug and progress callbacks, with the handler as data
            multi  |-> FALSE]   \* in the multi handle

Kinds == {"GET", "HEAD", "POST", "PUT"}

EasyHandle == [opt : [Settings -> Values], kind : Kinds,
               custom : {r.method : r \in Requests} \cup {None},
               list : {"none", "own", "freed"}, reads : Bodies \cup {None},
               size : Nat, hooks : BOOLEAN, multi : BOOLEAN]

Transfer == [handle : Handles, request : Requests,
             headers : Seq({"own", "If-Match", "If-None-Match", "Accept-Encoding"}),
             sent : Seq(Nat \ {0}), alone : BOOLEAN]

ASSUME NoneAssumption == None \notin Transfer

-----------------------------------------------------------------------------
(* Options *)

Order == Registry \o SslRegistry
Place == [o \in Options |-> CHOOSE i \in DOMAIN Order : Order[i] = o]

(* The first option of the request that libcurl refuses, if any, ends      *)
(* php_http_options_apply: the options from there on are not applied.      *)
Stop(r) == LET refused == {Place[o] : o \in r.refused}
           IN  IF refused = {} THEN Len(Order) + 1
               ELSE CHOOSE i \in refused : \A j \in refused : i <= j

Applied(o, r) == Place[o] < Stop(r) /\ (o \in SslOptions => "ssl" \in DOMAIN r.opts)

(* php_http_curle_set_option: a setter that is skipped leaves the setting alone *)
Sets(o, r) == /\ Applied(o, r)
              /\ o \in CheckStrlen => o \in DOMAIN r.opts
              /\ o \in CheckBasedir => r.opts[o] # Barred
              /\ o = "cookies" => o \in DOMAIN r.opts

Given(o, r) == IF o \in DOMAIN r.opts THEN r.opts[o] ELSE Default

(* curl->options.range_request when the setter of option o runs *)
RangeRequest(o, r) ==
    \E p \in {"resume", "range"} \cap DOMAIN r.opts : Applied(p, r) /\ Place[p] < Place[o]

(* The setter of lastmodified chooses the condition as well *)
TimeCondition(r) == IF "lastmodified" \notin DOMAIN r.opts THEN Default
                    ELSE IF RangeRequest("lastmodified", r) THEN "IFUNMODSINCE"
                    ELSE "IFMODSINCE"

ApplyOptions(opt, r) == [o \in Settings |->
    IF o = "timecondition"
    THEN IF Applied("lastmodified", r) THEN TimeCondition(r) ELSE opt[o]
    ELSE IF Sets(o, r) THEN Given(o, r) ELSE opt[o]]

(* The list in curl->options.headers once the request is prepared *)
Headers(r) ==
    LET own   == IF r.hdrs \/ r.body # None THEN <<"own">> ELSE <<>>
        match == IF RangeRequest("etag", r) THEN "If-Match" ELSE "If-None-Match"
        etag  == IF "etag" \in DOMAIN r.opts /\ Applied("etag", r) THEN <<match>> ELSE <<>>
        coded == IF "compress" \in DOMAIN r.opts /\ Applied("compress", r)
                 THEN <<"Accept-Encoding">> ELSE <<>>
    IN  own \o etag \o coded

-----------------------------------------------------------------------------
(* Handlers *)

\* A mistake: the credentials stay.
HandlerResetKeeping(h) == h

(* php_http_client_curl_handler_reset *)
HandlerReset(h) == [h EXCEPT !.opt = [@ EXCEPT !["proxyauth"] = Default,
                                               !["httpauth"] = Default]]

HandlerInit(h) == HandlerReset([h EXCEPT !.hooks = TRUE, !.opt["autoreferer"] = Default])

SetMethod(h, m) == IF m \in Kinds THEN [h EXCEPT !.kind = m] ELSE [h EXCEPT !.custom = m]

(* The header list is handed to libcurl only if the message has a header;  *)
(* what the options append later is then part of the same list.            *)
SetHeaders(h, r) == IF r.hdrs \/ r.body # None THEN [h EXCEPT !.list = "own"] ELSE h

\* A mistake: INFILESIZE and POSTFIELDSIZE are not set.
SetBodyUnsized(h, r) == IF r.body = None THEN h ELSE [h EXCEPT !.reads = r.body]

SetBody(h, r) == IF r.body = None THEN h
                 ELSE [h EXCEPT !.reads = r.body, !.size = Size[r.body]]

\* A mistake: the stream is read on from where it is.
RewoundNot(r) == pos

Rewound(r) == IF r.body = None \/ r.body \notin Seekable THEN pos
              ELSE [pos EXCEPT ![r.body] = 0]

Prepare(h, r) == LET set == SetBody(SetHeaders(SetMethod(h, r.method), r), r)
                 IN  [set EXCEPT !.opt = ApplyOptions(@, r)]

\* A mistake: the callbacks stay on.
HandlerDtorHooked(h) == [h EXCEPT !.list = IF @ = "own" THEN "freed" ELSE @]

(* php_http_client_curl_handler_dtor, as far as the easy handle is concerned *)
HandlerDtor(h) == [h EXCEPT !.hooks = FALSE, !.list = IF @ = "own" THEN "freed" ELSE @]

(* create_rf and php_resource_factory_handle_ctor: an idle handle of that  *)
(* host if there is one, else a new one                                    *)
Acquire(host) == IF pool[host] # {} THEN pool[host]
                 ELSE IF unborn # {} THEN {CHOOSE e \in unborn : TRUE} ELSE {}

Running == {s \in Slots : transfers[s] # None}

-----------------------------------------------------------------------------
Init ==
    /\ script \in Scripts
    /\ easy = [e \in Handles |-> NewEasy]
    /\ unborn = Handles
    /\ pool = [host \in Hosts |-> {}]
    /\ transfers = [s \in Slots |-> None]
    /\ pos = [b \in Bodies |-> 0]

Take(e, host) == /\ unborn' = unborn \ {e}
                 /\ pool' = [pool EXCEPT ![host] = @ \ {e}]

Reading(b) == {e \in Handles : b # None /\ easy[e].multi /\ easy[e].reads = b}

(* Preparing handle h rewinds the body: the transfers that read the same   *)
(* body have it to themselves no more                                      *)
Disturbed(h) == [s \in Slots |-> IF s \in Running /\ transfers[s].handle \in Reading(h.reads)
                                 THEN [transfers[s] EXCEPT !.alone = FALSE]
                                 ELSE transfers[s]]

(* php_http_client_curl_enqueue when the multi handle takes the easy handle *)
Enqueue(s, r) ==
    /\ transfers[s] = None /\ r.host # None /\ r.method # None
    /\ \E e \in Acquire(r.host) :
         LET h == Prepare(HandlerInit(easy[e]), r)
         IN  /\ ~easy[e].multi
             /\ Take(e, r.host)
             /\ easy' = [easy EXCEPT ![e] = [h EXCEPT !.multi = TRUE]]
             /\ transfers' = [Disturbed(h) EXCEPT ![s] =
                    [handle |-> e, request |-> r, headers |-> Headers(r),
                     sent |-> <<>>, alone |-> Reading(h.reads) = {}]]
    /\ pos' = Rewound(r)
    /\ UNCHANGED script

(* The request has no method: the handler is destroyed again, after the    *)
(* easy handle has been reset for it                                       *)
EnqueueNoMethod(r) ==
    /\ r.host # None /\ r.method = None
    /\ \E e \in Acquire(r.host) :
         /\ unborn' = unborn \ {e}
         /\ pool' = [pool EXCEPT ![r.host] = @ \cup {e}]
         /\ easy' = [easy EXCEPT ![e] = HandlerDtor(HandlerInit(@))]
    /\ UNCHANGED <<script, transfers, pos>>

(* curl_multi_add_handle refuses the handle, always when it is still in    *)
(* the multi handle: nothing destroys the handler then                     *)
EnqueueNotAdded(r) ==
    /\ r.host # None /\ r.method # None
    /\ \E e \in Acquire(r.host) :
         LET h == Prepare(HandlerInit(easy[e]), r)
         IN  /\ Take(e, r.host)
             /\ easy' = [easy EXCEPT ![e] = h]
             /\ transfers' = Disturbed(h)
    /\ pos' = Rewound(r)
    /\ UNCHANGED script

(* The URL cannot be parsed or is empty *)
EnqueueNoUrl(r) == r.host = None /\ UNCHANGED vars

Uploads(e) == LET h == easy[e]
              IN  /\ h.multi /\ h.kind \in {"POST", "PUT"} /\ h.reads # None
                  /\ pos[h.reads] < Size[h.reads]

(* php_http_curle_read_callback: libcurl asks for the next byte of an upload *)
Read(s) ==
    /\ s \in Running /\ Uploads(transfers[s].handle)
    /\ LET h == easy[transfers[s].handle]
       IN  /\ Len(transfers[s].sent) < h.size
           /\ pos' = [pos EXCEPT ![h.reads] = @ + 1]
           /\ transfers' = [transfers EXCEPT ![s].sent = Append(@, pos[h.reads] + 1)]
    /\ UNCHANGED <<script, easy, unborn, pool>>

(* The same for a handle that was left in the multi handle *)
ReadStray(e) ==
    /\ Uploads(e) /\ \A s \in Running : transfers[s].handle # e
    /\ pos' = [pos EXCEPT ![easy[e].reads] = @ + 1]
    /\ UNCHANGED <<script, easy, unborn, pool, transfers>>

(* php_http_curle_ioctl_callback: libcurl has to send the body once more,  *)
(* after a redirect or an authentication challenge.  It gives up when the  *)
(* stream cannot be rewound.                                               *)
Restart(s) ==
    /\ s \in Running /\ transfers[s].sent # <<>>
    /\ LET b == easy[transfers[s].handle].reads
       IN  /\ b \in Seekable
           /\ pos' = [pos EXCEPT ![b] = 0]
           /\ transfers' = [transfers EXCEPT ![s].sent = <<>>]
    /\ UNCHANGED <<script, easy, unborn, pool>>

Release(s, inMulti) ==
    LET t == transfers[s]
    IN  /\ easy' = [easy EXCEPT ![t.handle] = [HandlerDtor(@) EXCEPT !.multi = inMulti]]
        /\ pool' = [pool EXCEPT ![t.request.host] = @ \cup {t.handle}]
        /\ transfers' = [transfers EXCEPT ![s] = None]
        /\ UNCHANGED <<script, unborn, pos>>

(* The element leaves the list: queue_dtor destroys its handler *)
Dequeue(s) == s \in Running /\ Release(s, FALSE)

(* php_http_client_reset when curl_multi_remove_handle refuses: the list   *)
(* is cleaned anyway                                                       *)
ResetRefused(s) == s \in Running /\ Release(s, TRUE)

Next ==
    \/ \E r \in script : EnqueueNoUrl(r) \/ EnqueueNoMethod(r) \/ EnqueueNotAdded(r)
    \/ \E s \in Slots : \/ \E r \in script : Enqueue(s, r)
                        \/ Read(s) \/ Restart(s) \/ Dequeue(s) \/ ResetRefused(s)
    \/ \E e \in Handles : ReadStray(e)

Spec == Init /\ [][Next]_vars

-----------------------------------------------------------------------------
(* Properties *)

(* The length and the stream a handle was given are those of one body. *)
Sized(h) == h.size = (IF h.reads = None THEN 0 ELSE Size[h.reads])

(* Type invariant; on each easy handle the announced length is that of the *)
(* body libcurl reads, whether this request has set it or an earlier one.  *)
TypeOK ==
    /\ script \in Scripts
    /\ easy \in [Handles -> EasyHandle] /\ \A e \in Handles : Sized(easy[e])
    /\ unborn \subseteq Handles /\ pool \in [Hosts -> SUBSET Handles]
    /\ transfers \in [Slots -> Transfer \cup {None}]
    /\ pos \in [Bodies -> Nat] /\ \A b \in Bodies : pos[b] <= Size[b]

(* An easy handle has one user: it is not created yet, idle in the pool of *)
(* one host, or serves one transfer (or it leaked, see EnqueueNotAdded).   *)
(* An idle handle, which may still be in the multi handle after a refused  *)
(* removal, calls back into no handler, for that one has been freed.       *)
OneUser ==
    /\ \A s \in Running : LET e == transfers[s].handle IN
         /\ e \notin unborn /\ \A host \in Hosts : e \notin pool[host]
         /\ \A u \in Running \ {s} : transfers[u].handle # e
         /\ easy[e].multi /\ easy[e].hooks
    /\ \A host \in Hosts : \A e \in pool[host] :
         /\ ~easy[e].hooks /\ easy[e].list # "own"
         /\ e \notin unborn /\ \A other \in Hosts \ {host} : e \notin pool[other]

(* Settings the code does not set back for request r: strings that are     *)
(* skipped when empty, paths open_basedir bars, cookies, and everything    *)
(* about SSL when the request has no SSL options.                          *)
KeptBy(r) == {o \in Settings :
    \/ o \in CheckStrlen \ {"proxyauth", "httpauth"} /\ Given(o, r) \in {Default, Barred}
    \/ o = "cookies" /\ o \notin DOMAIN r.opts
    \/ o \in SslOptions /\ "ssl" \notin DOMAIN r.opts}

(* An option registered before the first one libcurl refuses, and not      *)
(* among the settings above, has the value of this request or its default: *)
(* no range, timeout, redirect limit, ... of an earlier transfer on the    *)
(* easy handle.  Credentials are this request's or none, also behind a     *)
(* refused option; a time condition is off unless the request has one.     *)
NothingInherited ==
    \A s \in Running :
        LET r == transfers[s].request
            opt == easy[transfers[s].handle].opt
        IN  /\ \A o \in (Settings \cap Options) \ KeptBy(r) :
                 Place[o] < Stop(r) => opt[o] = Given(o, r)
            /\ \A o \in {"httpauth", "proxyauth"} : opt[o] \in {Given(o, r), Default}
            /\ Place["lastmodified"] < Stop(r) /\ "lastmodified" \notin DOMAIN r.opts =>
                 opt["timecondition"] = Default

(* A request with headers of its own sends its own list, and a conditional *)
(* request for part of a representation says so in both conditions: a      *)
(* range goes with If-Match and If-Unmodified-Since, a whole message with  *)
(* If-None-Match and If-Modified-Since.                                    *)
ConditionsAgree ==
    \A s \in Running :
        LET t == transfers[s]
            r == t.request
            partial == {"resume", "range"} \cap DOMAIN r.opts # {}
        IN  /\ "own" \in ToSet(t.headers) => easy[t.handle].list = "own"
            /\ r.refused = {} =>
                 /\ "etag" \in DOMAIN r.opts =>
                      ("If-Match" \in ToSet(t.headers)) = partial
                 /\ "lastmodified" \in DOMAIN r.opts =>
                      easy[t.handle].opt["timecondition"] =
                          (IF partial THEN "IFUNMODSINCE" ELSE "IFMODSINCE")

(* What a request has reaches the easy handle: one of the four methods     *)
(* libcurl has an option for is the last one set, any other one is the     *)
(* custom request, and a body is the one read, with its length.            *)
SendsItsOwn ==
    \A s \in Running :
        LET r == transfers[s].request
            h == easy[transfers[s].handle]
        IN  /\ IF r.method \in Kinds THEN h.kind = r.method ELSE h.custom = r.method
            /\ r.body # None => h.reads = r.body /\ h.size = Size[r.body]

(* Every transfer runs with the method, the headers, the body and the      *)
(* options its request HAS.  Of what it has not, options fall back to      *)
(* their defaults, with the exceptions of NothingInherited; a custom       *)
(* method, the freed list of headers, and the stream and length of a body  *)
(* stay on the easy handle, and nothing is claimed of them.                *)
RequestsApart == NothingInherited /\ ConditionsAgree /\ SendsItsOwn

(* An upload that has its seekable body to itself sends it from the first  *)
(* byte on and skips or repeats none, also when the body was sent before,  *)
(* by a transfer that was dequeued half way, and when libcurl has to start *)
(* over.                                                                   *)
BodySentWhole ==
    \A s \in Running : LET t == transfers[s] IN
        t.alone /\ t.request.body \in Seekable =>
            /\ t.sent = [i \in 1..Len(t.sent) |-> i]
            /\ easy[t.handle].size = Size[t.request.body]
            /\ Len(t.sent) < Size[t.request.body] => pos[t.request.body] = Len(t.sent)

=============================================================================
