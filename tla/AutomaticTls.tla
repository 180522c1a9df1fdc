---------------------------- MODULE AutomaticTls ----------------------------
(***************************************************************************)
(* Automatic TLS: which certificates a server needs (the TLS part of       *)
(* main.rs), how the ACME task obtains, caches and renews them (acme.rs),  *)
(* and how a handshake finds one (tls_util.rs).                            *)
(*                                                                         *)
(* A generation of the server sets up its ACME configurations from the     *)
(* host blocks.  Its ACME task installs what the cache on disk has, then   *)
(* goes through all configurations round after round, holding their mutex  *)
(* for a whole round.  With TLS on demand, a handshake for a host without  *)
(* a resolver sends the host to a receiver task, which starts an adder     *)
(* task for each new host; adders record the host in a file, under a mutex *)
(* of their own, and append an ACME configuration between two rounds.      *)
(* A reload or a crash drops all of this except the files.                 *)
(*                                                                         *)
(* External: the certificate authority and the DNS provider.               *)
(***************************************************************************)
EXTENDS Integers, Sequences, FiniteSets, SequencesExt

CONSTANTS
    SiteLists,    \* the host blocks of a generation, least specific first
    Clients,      \* what clients ask for: the labels of a host, top level first, and a port
    DefaultPort,  \* default_https_port
    IpHosts, LocalHosts,    \* hosts that are addresses, and localhost
    None,
    Life,         \* how long a certificate is valid
    Before,       \* SECONDS_BEFORE_RENEWAL
    RetryAfter,   \* how long renewal information may be kept
    Sizes,        \* the sizes a serialized certificate may have
    Ari,          \* whether the authority offers renewal information
    MaxClock, MaxRestarts, MaxFailures, MaxQueue  \* bounds of the runs

Challenges == {"tls-alpn-01", "http-01", "dns-01"}

\* A host block: its host and port (None if it has none), auto_tls, whether it
\* has a certificate of its own, and the settings of automatic TLS.
IsSite(s) ==
    /\ s.host \in [labels : Seq(STRING), wild : BOOLEAN] \cup {None}
    /\ s.auto \in {"on", "off", "unset"}
    /\ {s.manual, s.onDemand, s.cache} \subseteq BOOLEAN
    /\ s.chal \in Challenges

ASSUME TlsAssumption ==
    /\ \A sl \in SiteLists : sl \in Seq(Range(sl)) /\ \A s \in Range(sl) : IsSite(s)
    /\ \A cl \in Clients : cl.host \in Seq(STRING)
    /\ None \notin Seq(STRING) /\ None \notin Nat \X Nat
    /\ {Life, Before, RetryAfter} \subseteq Nat
    /\ Ari \in BOOLEAN

VARIABLES
    tls,       \* what was set up: see SetUp
    acme,      \* acme_configs
    boot,      \* on-demand configurations whose cached domains are loaded
    turn,      \* the configuration of this round, 0 between two rounds
    pc,        \* the step of provision_certificate
    held,      \* its locals: the account and the new certificate
    queue,     \* acme_on_demand_rx
    existing,  \* existing_combinations
    adders,    \* the tasks that add a configuration
    lock,      \* the adder that holds prevent_file_race_conditions_mutex
    creds,     \* cached account credentials, on disk (TRUE), in memory (FALSE)
    certFile,  \* cached certificates on disk
    nameFile,  \* cached domains on disk
    txt,       \* DNS records
    clock, restarts, failures

disk == <<certFile, nameFile, txt>>
task == <<turn, pc, held>>
demand == <<queue, existing, adders, lock>>
env == <<clock, restarts, failures>>
vars == <<tls, acme, boot, task, demand, creds, disk, env>>

Sites == UNION {Range(sl) : sl \in SiteLists}
Ports == {DefaultPort} \cup ({s.port : s \in Sites} \ {None})
Exact(labels) == [labels |-> labels, wild |-> FALSE]
Hosts == {Exact(cl.host) : cl \in Clients} \cup ({s.host : s \in Sites} \ {None})
OnDemandNames == Ports \X (Hosts \cup {None})

(***************************************************************************)
(* Setting up a generation.                                                *)
(***************************************************************************)
match_hostname(host, labels) ==
    \/ host = None
    \/ host.wild /\ IsPrefix(host.labels, labels)
    \/ host.labels = labels

\* Automatic TLS is on by default for hosts on the default port that have
\* neither a certificate of their own nor the name of the local machine.
AutoTls(s) ==
    \/ s.auto = "on"
    \/ s.auto = "unset" /\ s.port = None /\ ~s.manual /\ s.host \notin LocalHosts

Port(s) == IF s.port = None THEN DefaultPort ELSE s.port

\* Certificates are not obtained for addresses, for no name at all, and for
\* wildcards only by DNS.
Unsupported(s) ==
    \/ s.host = None /\ ~s.onDemand
    \/ s.host \in IpHosts
    \/ /\ s.host # None /\ s.host.wild /\ ~s.onDemand
       /\ s.chal \in {"tls-alpn-01", "http-01"}

NewConfig(host, port, chal, cache, od) ==
    [host |-> host, port |-> port, chal |-> chal, cache |-> cache, od |-> od,
     key |-> None, data |-> None, ari |-> None, account |-> None]

\* load_host_resolver: a host that has a resolver keeps it.  The resolver has
\* the certificate of an ACME configuration, or (0) one of the host block.
load_host_resolver(resolvers, host, port, by) ==
    IF \E r \in resolvers : r.host = host /\ r.port = port THEN resolvers
    ELSE resolvers \cup {[host |-> host, port |-> port, by |-> by]}

\* The state the set-up loop starts with.  lists[1] holds the HTTP-01 data of
\* all ports, the others TLS-ALPN-01 data; alpn names the list of a port.
NothingSetUp ==
    [configs |-> <<>>, onDemand |-> <<>>, resolvers |-> {}, fallbacks |-> {},
     senders |-> {}, lists |-> <<{}>>, alpn |-> [p \in Ports |-> 0],
     used |-> {}, auto |-> {}]

\* The list of challenge data a configuration is registered in, 0 for none.
ListOf(st, chal, port) ==
    CASE chal = "http-01" -> 1
      [] chal = "tls-alpn-01" -> st.alpn[port]
      [] OTHER -> 0

Register(lists, l, new) == IF l = 0 THEN lists ELSE [lists EXCEPT ![l] = @ \cup new]

NewList(st, port) ==
    [st EXCEPT !.lists = Append(@, {}), !.alpn[port] = Len(st.lists) + 1]

SetUpManual(st, s) ==
    LET p == Port(s) IN
    IF <<p, s.host>> \in st.used \cup st.auto THEN st
    ELSE [st EXCEPT !.used = @ \cup {<<p, s.host>>},
                    !.fallbacks = IF s.host = None THEN @ \cup {p} ELSE @,
                    !.resolvers = IF s.host = None THEN @
                                  ELSE load_host_resolver(@, s.host, p, 0)]

\* Mutant: the configuration takes the list of the port before it is replaced.
SetUpOnDemandSwapped(st, s) ==
    LET p == Port(s)
        st1 == IF s.chal = "tls-alpn-01" THEN NewList(st, p) ELSE st
    IN [st1 EXCEPT !.senders = @ \cup {p},
                   !.auto = @ \cup {<<p, s.host>>},
                   !.onDemand = Append(@, [host |-> s.host, port |-> p, chal |-> s.chal,
                                           cache |-> s.cache, after |-> Len(st.configs),
                                           list |-> ListOf(st, s.chal, p)])]

\* The list of the port is made anew even if the port has one.  (after, the number of
\* configurations there are by then, is for the properties.)
SetUpOnDemand(st, s) ==
    LET p == Port(s)
        st1 == IF s.chal = "tls-alpn-01" THEN NewList(st, p) ELSE st
    IN [st1 EXCEPT !.senders = @ \cup {p},
                   !.auto = @ \cup {<<p, s.host>>},
                   !.onDemand = Append(@, [host |-> s.host, port |-> p, chal |-> s.chal,
                                           cache |-> s.cache, after |-> Len(st.configs),
                                           list |-> ListOf(st1, s.chal, p)])]

SetUpHost(st, s) ==
    LET p == Port(s)
        i == Len(st.configs) + 1
        st1 == IF s.chal = "tls-alpn-01" /\ st.alpn[p] = 0 THEN NewList(st, p) ELSE st
    IN [st1 EXCEPT !.configs = Append(@, NewConfig(s.host, p, s.chal, s.cache, 0)),
                   !.lists = Register(@, ListOf(st1, s.chal, p), {i}),
                   !.resolvers = load_host_resolver(@, s.host, p, i),
                   !.auto = @ \cup {<<p, s.host>>}]

\* One turn of the loop over the host blocks.
SetUpSite(st, s) ==
    IF s.manual /\ s.auto # "on" THEN SetUpManual(st, s)
    ELSE IF ~AutoTls(s) \/ <<Port(s), s.host>> \in st.auto \/ Unsupported(s) THEN st
    ELSE IF s.onDemand THEN SetUpOnDemand(st, s)
    ELSE SetUpHost(st, s)

SetUp(sl) ==
    LET after[i \in 0..Len(sl)] ==
            IF i = 0 THEN NothingSetUp ELSE SetUpSite(after[i - 1], sl[i])
    IN after[Len(sl)]

\* No certificate, account or challenge of the configuration being provisioned.
NothingHeld == [account |-> None, cert |-> None, challenge |-> FALSE]

Init ==
    /\ \E sl \in SiteLists : tls = SetUp(sl) /\ acme = SetUp(sl).configs
    /\ boot = 0 /\ turn = 0 /\ pc = "idle" /\ held = NothingHeld
    /\ queue = <<>> /\ existing = {} /\ adders = {} /\ lock = None
    /\ creds = [file \in BOOLEAN |-> None]
    /\ certFile = [n \in Ports \X Hosts |-> None]
    /\ nameFile = [n \in OnDemandNames |-> <<>>]
    /\ txt = [l \in {h.labels : h \in Hosts} |-> None]
    /\ clock = 0 /\ restarts = 0 /\ failures = 0

\* A reload, or a crash and a new start: only the files are left.
Restart ==
    /\ restarts < MaxRestarts
    /\ \E sl \in SiteLists : tls' = SetUp(sl) /\ acme' = SetUp(sl).configs
    /\ boot' = 0 /\ turn' = 0 /\ pc' = "idle" /\ held' = NothingHeld
    /\ queue' = <<>> /\ existing' = {} /\ adders' = {} /\ lock' = None
    /\ creds' = [creds EXCEPT ![FALSE] = None]
    /\ restarts' = restarts + 1
    /\ UNCHANGED <<disk, clock, failures>>

(***************************************************************************)
(* Certificates and the cache.                                             *)
(***************************************************************************)
Margin == IF Life \div 2 < Before THEN Life \div 2 ELSE Before

\* Renewal information takes the place of the certificate's own dates.
check_certificate_validity(cert, ari) ==
    IF ari # None THEN clock < ari.start ELSE clock + Margin <= cert.until

CertName(c) == <<c.port, c.host>>

\* A cached certificate that can be parsed: nothing of a longer one follows it.
CachedCert(c) ==
    LET f == certFile[CertName(c)] IN
    IF c.cache /\ f # None /\ f.len = f.cert.size THEN f.cert ELSE None

\* set_in_cache opens the file without truncating it.
Written(file, cert) ==
    [cert |-> cert,
     len |-> IF file # None /\ file.len > cert.size THEN file.len ELSE cert.size]

\* The renewal information after asking for that of a certificate; the request
\* may fail.  What the configuration has is kept while it is not outdated.
AriOutcomes(ari, cert, until) ==
    IF Ari /\ (ari = None \/ clock > ari.until)
    THEN {ari, [start |-> cert.until - Margin, until |-> until]}
    ELSE {ari}

\* check_certificate_validity_or_install_cached with an account: the
\* configuration afterwards, and whether it has a valid certificate.
CheckedLive(c) ==
    IF c.key = None THEN {[ok |-> FALSE, c |-> c]}
    ELSE {[ok |-> check_certificate_validity(c.key, a), c |-> [c EXCEPT !.ari = a]] :
             a \in AriOutcomes(c.ari, c.key, clock + RetryAfter)}

CheckedCached(c) ==
    LET cert == CachedCert(c) IN
    IF cert = None THEN {[ok |-> FALSE, c |-> c]}
    ELSE {LET ok == check_certificate_validity(cert, a)
          IN [ok |-> ok, c |-> [c EXCEPT !.ari = a, !.key = IF ok THEN cert ELSE @]] :
             a \in AriOutcomes(c.ari, cert, clock - RetryAfter)}

Checked(c) ==
    UNION {IF r.ok THEN {r} ELSE CheckedCached(r.c) : r \in CheckedLive(c)}

\* The same without an account, at the start of a generation.
Installed(c) ==
    LET cert == CachedCert(c) IN
    IF cert # None /\ check_certificate_validity(cert, None)
    THEN [c EXCEPT !.key = cert] ELSE c

(***************************************************************************)
(* The start of the ACME task.                                             *)
(***************************************************************************)
NameFileOf(od) == <<od.port, od.host>>

\* convert_on_demand_config: the configurations for some hosts.
Converted(k, hosts) ==
    LET od == tls.onDemand[k]
    IN [j \in DOMAIN hosts |-> NewConfig(Exact(hosts[j]), od.port, od.chal, od.cache, k)]

\* They are pushed to acme_configs, with resolvers and places in the list of
\* challenge data.  The first of a host has its resolver.
Pushed(k, new) ==
    LET first == {j \in DOMAIN new : \A i \in 1..(j - 1) : new[i].host # new[j].host}
        Load(j) == load_host_resolver(tls.resolvers, new[j].host, new[j].port, Len(acme) + j)
    IN /\ acme' = acme \o new
       /\ tls' = [tls EXCEPT
             !.resolvers = @ \cup UNION {Load(j) : j \in first},
             !.lists = Register(@, tls.onDemand[k].list, {Len(acme) + j : j \in DOMAIN new})]

BootInstall ==
    /\ boot = 0
    /\ acme' = [i \in DOMAIN acme |-> Installed(acme[i])]
    /\ boot' = 1
    /\ UNCHANGED <<tls, task, demand, creds, disk, env>>

\* Mutant: the cached domains are not entered in existing_combinations.
KnownNone(od) == {}

Known(od) == {<<l, od.port>> : l \in Range(nameFile[NameFileOf(od)])}

\* get_cached_domains, and a configuration for each of them.
BootDomains ==
    /\ boot \in DOMAIN tls.onDemand
    /\ LET od == tls.onDemand[boot]
           names == IF od.cache THEN nameFile[NameFileOf(od)] ELSE <<>>
           new == Converted(boot, names)
       IN /\ Pushed(boot, [j \in DOMAIN new |-> Installed(new[j])])
          /\ existing' = IF od.cache THEN existing \cup Known(od) ELSE existing
    /\ boot' = boot + 1
    /\ UNCHANGED <<task, queue, adders, lock, creds, disk, env>>

Booted == boot > Len(tls.onDemand)

(***************************************************************************)
(* provision_certificate, for one configuration after the other.           *)
(***************************************************************************)
RoundStart ==
    /\ Booted
    /\ turn = 0
    /\ acme # <<>>
    /\ turn' = 1 /\ pc' = "account"
    /\ UNCHANGED <<tls, acme, boot, held, demand, creds, disk, env>>

\* On to the next configuration; what was held, the account too, is dropped.
NextConfig ==
    /\ turn' = IF turn < Len(acme) THEN turn + 1 ELSE 0
    /\ pc' = IF turn < Len(acme) THEN "account" ELSE "idle"
    /\ held' = NothingHeld

\* Something the server has no influence on goes wrong.
Failure == failures < MaxFailures /\ failures' = failures + 1

\* dns_01_identifiers are cleaned up, on success and on failure of the last part.
Cleaned(c) ==
    IF held.challenge /\ c.chal = "dns-01" THEN [txt EXCEPT ![c.host.labels] = None] ELSE txt

\* The request to the authority, or to the DNS provider, fails.
ProvisionFails ==
    /\ \/ pc \in {"order", "authorize", "validate", "finalize"}
       \/ pc = "account" /\ acme[turn].account = None
    /\ Failure
    /\ txt' = IF pc = "finalize" THEN Cleaned(acme[turn]) ELSE txt
    /\ NextConfig
    /\ UNCHANGED <<tls, acme, boot, demand, creds, certFile, nameFile, clock, restarts>>

\* The account of the last round, the cached one, or a new one.
GetAccount ==
    /\ pc = "account"
    /\ LET c == acme[turn]
           account == CASE c.account # None -> c.account
                        [] c.account = None /\ creds[c.cache] # None -> creds[c.cache]
                        [] OTHER -> "known"
       IN /\ held' = [held EXCEPT !.account = account]
          /\ acme' = [acme EXCEPT ![turn].account = None]
          /\ creds' = IF c.account # None THEN creds ELSE [creds EXCEPT ![c.cache] = account]
    /\ pc' = "check"
    /\ UNCHANGED <<tls, boot, turn, demand, disk, env>>

Check ==
    /\ pc = "check"
    /\ \E r \in Checked(acme[turn]) :
          IF r.ok
          THEN /\ acme' = [acme EXCEPT ![turn] = [r.c EXCEPT !.account = held.account]]
               /\ NextConfig
          ELSE /\ acme' = [acme EXCEPT ![turn] = r.c]
               /\ pc' = "order"
               /\ UNCHANGED <<turn, held>>
    /\ UNCHANGED <<tls, boot, demand, creds, disk, env>>

Order ==
    /\ pc = "order"
    /\ held.account = "known"
    /\ pc' = "authorize"
    /\ UNCHANGED <<tls, acme, boot, turn, held, demand, creds, disk, env>>

\* Mutant: the credentials of a forgotten account stay in the cache.
OrderRefusedKeeping ==
    /\ pc = "order"
    /\ held.account = "forgotten"
    /\ NextConfig
    /\ UNCHANGED <<tls, acme, boot, demand, creds, disk, env>>

\* accountDoesNotExist: the credentials are removed from the cache.
OrderRefused ==
    /\ pc = "order"
    /\ held.account = "forgotten"
    /\ creds' = [creds EXCEPT ![acme[turn].cache] = None]
    /\ NextConfig
    /\ UNCHANGED <<tls, acme, boot, demand, disk, env>>

\* A token that differs from the one of the order before.
Token(c) == IF c.data = <<turn, 0>> THEN <<turn, 1>> ELSE <<turn, 0>>

\* A pending authorization: the challenge is prepared and declared ready (a
\* failure of the latter is one of the next step).
Authorize ==
    /\ pc = "authorize"
    /\ LET c == acme[turn] IN
         /\ acme' = [acme EXCEPT ![turn].data = Token(c)]
         /\ txt' = IF c.chal = "dns-01" THEN [txt EXCEPT ![c.host.labels] = Token(c)] ELSE txt
    /\ held' = [held EXCEPT !.challenge = TRUE]
    /\ pc' = "validate"
    /\ UNCHANGED <<tls, boot, turn, demand, creds, certFile, nameFile, env>>

\* An authorization that is still valid needs no challenge.
AlreadyAuthorized ==
    /\ pc = "authorize"
    /\ pc' = "finalize"
    /\ UNCHANGED <<tls, acme, boot, turn, held, demand, creds, disk, env>>

\* What the authority finds at the host: TlsAlpn01Resolver takes the first of
\* the port's list with data for the name, the handler of HTTP-01 requests
\* the one with the token, and the DNS has one record per name.
Answers(i) ==
    LET c == acme[i]
        l == tls.alpn[c.port]
        found == {j \in tls.lists[l] : /\ acme[j].data # None
                                       /\ acme[j].host.labels = c.host.labels}
    IN CASE c.chal = "tls-alpn-01" -> l # 0 /\ i \in found /\ \A j \in found : i <= j
         [] c.chal = "http-01" -> \E j \in tls.lists[1] : acme[j].data = c.data
         [] OTHER -> txt[c.host.labels] = c.data

\* poll_ready: the order becomes ready if the challenge is answered, and invalid
\* otherwise.
Validate ==
    /\ pc = "validate"
    /\ IF Answers(turn) THEN pc' = "finalize" /\ UNCHANGED <<turn, held>>
                        ELSE NextConfig
    /\ UNCHANGED <<tls, acme, boot, demand, creds, disk, env>>

\* finalize and poll_certificate.
Finalize ==
    /\ pc = "finalize"
    /\ \E n \in Sizes : held' = [held EXCEPT !.cert = [until |-> clock + Life, size |-> n]]
    /\ pc' = "store"
    /\ UNCHANGED <<tls, acme, boot, turn, demand, creds, disk, env>>

Store ==
    /\ pc = "store"
    /\ LET c == acme[turn] IN
         certFile' = IF c.cache
                     THEN [certFile EXCEPT ![CertName(c)] = Written(@, held.cert)]
                     ELSE certFile
    /\ pc' = "install"
    /\ UNCHANGED <<tls, acme, boot, turn, held, demand, creds, nameFile, txt, env>>

\* The certificate is put in the resolver, and DNS records are removed.
Install ==
    /\ pc = "install"
    /\ acme' = [acme EXCEPT ![turn].key = held.cert, ![turn].account = held.account]
    /\ txt' = Cleaned(acme[turn])
    /\ NextConfig
    /\ UNCHANGED <<tls, boot, demand, creds, certFile, nameFile, env>>

Provision ==
    \/ GetAccount \/ Check \/ Order \/ OrderRefused \/ Authorize \/ AlreadyAuthorized
    \/ Validate \/ Finalize \/ Store \/ Install

(***************************************************************************)
(* Handshakes and TLS on demand.                                           *)
(***************************************************************************)

\* The resolvers for a host, the most specific one first: hosts before
\* wildcards, more labels before fewer.
Resolver(labels, port) ==
    LET rs == {r \in tls.resolvers : r.port = port /\ match_hostname(r.host, labels)}
        Precedes(q, r) == IF q.host.wild = r.host.wild
                          THEN Len(q.host.labels) > Len(r.host.labels) ELSE r.host.wild
    IN IF rs = {} THEN None ELSE CHOOSE r \in rs : \A q \in rs \ {r} : Precedes(r, q)

\* Whether a handshake gets a certificate that has not expired.
Certified(cl) ==
    LET r == Resolver(cl.host, cl.port) IN
    CASE r = None -> cl.port \in tls.fallbacks
      [] r # None /\ r.by = 0 -> TRUE
      [] OTHER -> acme[r.by].key # None /\ clock < acme[r.by].key.until

\* CustomSniResolver::resolve finds no certificate: the host is sent to the
\* receiver.
Handshake(cl) ==
    /\ Resolver(cl.host, cl.port) = None
    /\ cl.port \notin tls.fallbacks
    /\ cl.port \in tls.senders
    /\ Len(queue) < MaxQueue
    /\ queue' = Append(queue, <<cl.host, cl.port>>)
    /\ UNCHANGED <<tls, acme, boot, task, existing, adders, lock, creds, disk, env>>

\* The first on-demand configuration for the host, 0 if there is none.
OnDemandFor(labels, port) ==
    LET ks == {k \in DOMAIN tls.onDemand : /\ match_hostname(tls.onDemand[k].host, labels)
                                           /\ tls.onDemand[k].port = port}
    IN IF ks = {} THEN 0 ELSE Min(ks)

\* The receiver task takes a host (the asking endpoint has agreed) and starts
\* an adder unless it has met the host before.
Receive ==
    /\ Booted
    /\ queue # <<>>
    /\ LET labels == Head(queue)[1]
           port == Head(queue)[2]
           k == OnDemandFor(labels, port)
       IN /\ existing' = existing \cup {Head(queue)}
          /\ adders' = IF Head(queue) \in existing \/ k = 0 THEN adders
                       ELSE adders \cup {[host |-> labels, od |-> k, pc |-> "lock",
                                          names |-> <<>>]}
    /\ queue' = Tail(queue)
    /\ UNCHANGED <<tls, acme, boot, task, lock, creds, disk, env>>

\* The asking endpoint refuses or fails.
AskRefused ==
    /\ Booted
    /\ queue # <<>>
    /\ Failure
    /\ queue' = Tail(queue)
    /\ UNCHANGED <<tls, acme, boot, task, existing, adders, lock, creds, disk, clock, restarts>>

\* Mutant: the file is read without the mutex.
AddLockFree(a) ==
    /\ a \in adders /\ a.pc = "lock"
    /\ adders' = (adders \ {a}) \cup
           {[a EXCEPT !.pc = "write", !.names = nameFile[NameFileOf(tls.onDemand[a.od])]]}
    /\ UNCHANGED <<tls, acme, boot, task, queue, existing, lock, creds, disk, env>>

\* add_domain_to_cache reads the cached domains under the mutex.
AddLock(a) ==
    /\ a \in adders /\ a.pc = "lock"
    /\ lock = None
    /\ lock' = a.host
    /\ adders' = (adders \ {a}) \cup
           {[a EXCEPT !.pc = "write", !.names = nameFile[NameFileOf(tls.onDemand[a.od])]]}
    /\ UNCHANGED <<tls, acme, boot, task, queue, existing, creds, disk, env>>

\* It writes the list with the new domain; the mutex is released.
AddWrite(a) ==
    /\ a \in adders /\ a.pc = "write"
    /\ LET od == tls.onDemand[a.od] IN
         nameFile' = IF od.cache
                     THEN [nameFile EXCEPT ![NameFileOf(od)] = Append(a.names, a.host)]
                     ELSE nameFile
    /\ lock' = None
    /\ adders' = (adders \ {a}) \cup {[a EXCEPT !.pc = "push", !.names = <<>>]}
    /\ UNCHANGED <<tls, acme, boot, task, queue, existing, creds, certFile, txt, env>>

\* The mutex of the configurations is free between two rounds only.
AddPush(a) ==
    /\ a \in adders /\ a.pc = "push"
    /\ turn = 0
    /\ Pushed(a.od, Converted(a.od, <<a.host>>))
    /\ adders' = adders \ {a}
    /\ UNCHANGED <<boot, task, queue, existing, lock, creds, disk, env>>

(***************************************************************************)
(* The environment.                                                        *)
(***************************************************************************)
Tick ==
    /\ clock < MaxClock
    /\ clock' = clock + 1
    /\ UNCHANGED <<tls, acme, boot, task, demand, creds, disk, restarts, failures>>

\* The authority loses the account.
Forget ==
    /\ "known" \in Range(creds)
    /\ Failure
    /\ LET F(a) == IF a = None THEN None ELSE "forgotten"
       IN /\ creds' = [f \in BOOLEAN |-> F(creds[f])]
          /\ acme' = [i \in DOMAIN acme |-> [acme[i] EXCEPT !.account = F(@)]]
          /\ held' = [held EXCEPT !.account = F(@)]
    /\ UNCHANGED <<tls, boot, turn, pc, demand, disk, clock, restarts>>

Next ==
    \/ BootInstall \/ BootDomains \/ RoundStart \/ Provision \/ ProvisionFails
    \/ \E cl \in Clients : Handshake(cl)
    \/ Receive \/ AskRefused
    \/ \E a \in adders : AddLock(a) \/ AddWrite(a) \/ AddPush(a)
    \/ Tick \/ Forget \/ Restart

Spec == Init /\ [][Next]_vars

\* The tasks are driven on.  A task that waits for the mutex of the
\* configurations gets it before the next round: tokio's mutex is fair, and the
\* loop sleeps between two rounds.  Clients that get no certificate come back.
FairSpec ==
    /\ Spec
    /\ WF_vars(BootInstall) /\ WF_vars(BootDomains)
    /\ WF_vars(RoundStart) /\ WF_vars(Provision)
    /\ WF_vars(Receive)
    /\ \A cl \in Clients : WF_vars(Handshake(cl))
    /\ WF_vars(\E a \in adders : AddLock(a))
    /\ WF_vars(\E a \in adders : AddWrite(a))
    /\ SF_vars(\E a \in adders : AddPush(a))

-----------------------------------------------------------------------------
(***************************************************************************)
(* What is said of the host blocks where a property does not hold for all. *)
(***************************************************************************)
\* Automatic TLS is set up for the block, unless its host has it already.
Automatic(s) == ~(s.manual /\ s.auto # "on") /\ AutoTls(s) /\ ~Unsupported(s)

\* No client can be served both on demand and by the certificate of a block for
\* just its host, nor on demand from two blocks.
OnDemandApart ==
    \A sl \in SiteLists : \A i, j \in DOMAIN sl : \A cl \in Clients :
        LET s == sl[i]
            t == sl[j]
        IN /\ Automatic(s) /\ Automatic(t) /\ Port(s) = Port(t)
           /\ s.onDemand /\ match_hostname(s.host, cl.host)
           => IF t.onDemand THEN match_hostname(t.host, cl.host) => t.host = s.host
              ELSE t.host # Exact(cl.host)

\* The i-th ACME configuration, c, is for TLS-ALPN-01, and a later block with TLS-ALPN-01
\* on demand has replaced the list of challenge data of its port.
Overtaken(onDemand, c, i) ==
    /\ c.chal = "tls-alpn-01"
    /\ \E k \in DOMAIN onDemand :
          /\ onDemand[k].port = c.port /\ onDemand[k].chal = "tls-alpn-01"
          /\ IF c.od = 0 THEN i <= onDemand[k].after ELSE c.od < k

-----------------------------------------------------------------------------
\* Every host that was given an ACME configuration on demand is in the file of
\* cached domains, from which a restarted server takes it: adders that run at
\* the same time, rounds and restarts in between lose none (add_domain_to_cache
\* reads, extends and writes the whole list).
DomainsKept ==
    \A i \in DOMAIN acme : acme[i].od # 0 /\ acme[i].cache =>
        acme[i].host.labels \in Range(nameFile[NameFileOf(tls.onDemand[acme[i].od])])

\* No host has two ACME configurations on a port, however often clients ask for
\* it before it has a resolver, and whatever the cache has: two would order
\* certificates in turn, and one of them would not be in a resolver.  (Host blocks
\* for which OnDemandApart fails can make two.)
OneConfigPerHost ==
    \A i, j \in DOMAIN acme :
        acme[i].port = acme[j].port /\ acme[i].host = acme[j].host => i = j

\* While the authority may look at the challenge of an order, it finds the data
\* of this order: nothing of an earlier order, of another configuration of the
\* name, or of a list that nobody reads is in its place.  Only the configurations
\* that a later block cuts off when it replaces the list of the port are excepted.
ChallengeAnswerable ==
    pc = "validate" /\ ~Overtaken(tls.onDemand, acme[turn], turn) => Answers(turn)

\* A certificate is ordered only when the configuration's certificate is due by
\* its own dates, or the information the authority gives for it.
OrdersWhenDue ==
    [][pc = "order" /\ pc' = "authorize" /\ acme[turn].key # None =>
           clock >= acme[turn].key.until - Margin]_vars

\* The generation serves the host with TLS.
Served(cl) ==
    \/ Resolver(cl.host, cl.port) # None
    \/ cl.port \in tls.senders /\ OnDemandFor(cl.host, cl.port) # 0

\* What is set up for the client on demand can pass no challenge.
CutOff(cl) ==
    LET k == OnDemandFor(cl.host, cl.port) IN
    k # 0 /\ Overtaken(tls.onDemand, [chal |-> tls.onDemand[k].chal, port |-> cl.port, od |-> k], 0)

\* A client that keeps coming back is served a certificate again and again, over
\* restarts, expiry, refused and failing requests and a forgotten account, unless
\* its block has been cut off by a later one.
ClientsCertified == \A cl \in Clients : []<>(Served(cl) => Certified(cl) \/ CutOff(cl))
=============================================================================
