------------------------ MODULE MCDomainAuthorization ------------------------
(***************************************************************************)
(* DomainAuthorization with a domain, one subdomain, and a training host:  *)
(* the first user may verify, the second has no record of its own.         *)
(***************************************************************************)
EXTENDS DomainAuthorization, TLC

CONSTANTS u1, u2, root, sub, train, addr, xss, nmap, whois, bogus

MCUnder   == {<<sub, root>>}
MCResolve == (root :> {addr}) @@ (sub :> {addr}) @@ (train :> {})
MCPermits == train :> {xss}

MCSlots == {[user |-> u1, domain |-> root, method |-> "dns_txt"],
            [user |-> u1, domain |-> root, method |-> "http_file"],
            [user |-> u1, domain |-> sub, method |-> "http_file"]}

MCAsks == {[user |-> u1, target |-> sub, checks |-> {xss}],
           [user |-> u2, target |-> sub, checks |-> {xss}],
           [user |-> u1, target |-> train, checks |-> {xss}],
           [user |-> u1, target |-> train, checks |-> {}],
           [user |-> u2, target |-> train, checks |-> {whois, bogus}]}

Symmetry == Permutations(Reqs) \cup Permutations(Tokens)
=============================================================================
