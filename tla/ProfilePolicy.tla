--------------------------- MODULE ProfilePolicy ---------------------------
(***************************************************************************)
(* What is signed and what is refused: the profiles as the migration       *)
(* 237c8e22d7f8 seeds them, the checks of services/cert_service.py, the    *)
(* certificates that core/crypto/ca_engine.py builds, and the two places   *)
(* where the program makes a CSR of its own (services/csr_service.py and   *)
(* services/tls_service.py).  The four are written apart from each other;  *)
(* the assumptions at the end say that they fit together.  Signatures and  *)
(* names are the library's.                                                *)
(***************************************************************************)
EXTENDS Integers, Sequences

Profiles ==
    [server       |-> [usage |-> {"digital_signature", "key_encipherment"},
                       extended |-> {"server_auth", "client_auth"},
                       days |-> 397, sans |-> {"dns", "ip"}, email |-> FALSE],
     client       |-> [usage |-> {"digital_signature"}, extended |-> {"client_auth"},
                       days |-> 397, sans |-> {"dns", "ip"}, email |-> FALSE],
     user         |-> [usage |-> {"digital_signature"},
                       extended |-> {"client_auth", "email_protection"},
                       days |-> 397, sans |-> {"email"}, email |-> TRUE],
     code_signing |-> [usage |-> {"digital_signature"}, extended |-> {"code_signing"},
                       days |-> 1095, sans |-> {}, email |-> FALSE]]

Codes == DOMAIN Profiles
-----------------------------------------------------------------------------
(* CSRs: a key, and the types of the SANs in it; "uri" is for those that *)
(* san_type_name has no name for.                                        *)

Keys == {[type |-> "rsa", size |-> s] : s \in {1024, 2048, 3072, 4096}} \cup
        {[type |-> "ec", size |-> s] : s \in {256, 384, 521}} \cup
        {[type |-> "ed25519", size |-> 256]}
SanTypes == {"dns", "ip", "email", "uri"}
Csrs == [key : Keys, sans : SUBSET SanTypes]

\* validate_public_key
StrongKey(key) ==
    \/ key.type = "rsa" /\ key.size >= 2048
    \/ key.type = "ec" /\ key.size \in {256, 384}

\* validate_csr_for_profile
Admits(profile, csr) ==
    /\ StrongKey(csr.key)
    /\ csr.sans \subseteq profile.sans \cap {"dns", "ip", "email"}
    /\ profile.email => "email" \in csr.sans

\* The validity_days of the request, 0 for none.
EffectiveDays(profile, asked) == IF asked = 0 THEN profile.days ELSE asked
DaysAllowed(profile, asked) == asked = 0 \/ asked \in 1 .. profile.days

\* classify_san: what is neither an address nor a mailbox is taken for a name.
Classified(san) == IF san = "uri" THEN "dns" ELSE san

\* generate_key_and_csr, for SANs of these types
GeneratedCsr(sans) ==
    [key |-> [type |-> "rsa", size |-> 2048], sans |-> {Classified(san) : san \in sans}]

\* The CSR of replace_with_intermediate, for the profile "server".
ListenerCsr == [key |-> [type |-> "rsa", size |-> 2048], sans |-> {"dns"}]
-----------------------------------------------------------------------------
(* Certificates; pathLen is -1 where there is none *)

\* key_usage_from_names, extended_key_usage_from_names: others raise.
KeyUsages == {"digital_signature", "content_commitment", "key_encipherment",
              "data_encipherment", "key_agreement", "key_cert_sign", "crl_sign",
              "encipher_only", "decipher_only"}
ExtendedKeyUsages == {"server_auth", "client_auth", "email_protection", "code_signing"}

CaKeyUsage == {"key_cert_sign", "crl_sign"}

RootCertificate(today) ==
    [ca |-> TRUE, pathLen |-> -1, usage |-> CaKeyUsage, extended |-> {}, sans |-> {},
     from |-> today - 1, to |-> today + 3653]

IntermediateCertificate(today) ==
    [ca |-> TRUE, pathLen |-> 0, usage |-> CaKeyUsage, extended |-> {}, sans |-> {},
     from |-> today - 1, to |-> today + 1827]

LeafCertificate(profile, csr, asked, today) ==
    [ca |-> FALSE, pathLen |-> -1, usage |-> profile.usage, extended |-> profile.extended,
     sans |-> csr.sans, from |-> today - 1, to |-> today + EffectiveDays(profile, asked)]

\* What a client demands of a chain (RFC 5280, 6.1), as far as the builders
\* decide it: chain[1] is the leaf, each certificate is signed by the next.
Accepted(chain, today) ==
    /\ \A i \in DOMAIN chain : chain[i].from <= today /\ today <= chain[i].to
    /\ \A i \in DOMAIN chain \ {1} :
         /\ chain[i].ca /\ "key_cert_sign" \in chain[i].usage
         /\ chain[i].pathLen = -1 \/ i - 2 <= chain[i].pathLen
-----------------------------------------------------------------------------
\* Every name in the seeded profiles is one that ca_engine knows: no issuance
\* under any of them ends with its ValueError.
ASSUME SeededNamesAreKnown ==
    \A code \in Codes :
      /\ Profiles[code].usage \subseteq KeyUsages
      /\ Profiles[code].extended \subseteq ExtendedKeyUsages
      /\ Profiles[code].sans \subseteq SanTypes

\* What the program generates it also signs: every profile admits the CSR that
\* the generator makes of the SANs it allows, and "server" the listener's own.
ASSUME GeneratedIsAdmitted ==
    /\ \A code \in Codes : Admits(Profiles[code], GeneratedCsr(Profiles[code].sans))
    /\ Admits(Profiles["server"], ListenerCsr)

\* No CSR gets a certificate that could sign others, no chain through it does,
\* and one signed the day its issuers were is accepted to its last day.
ASSUME ChainsFit ==
    \A code \in Codes, csr \in Csrs :
      \A asked \in {0, 1, Profiles[code].days} :
        Admits(Profiles[code], csr) /\ DaysAllowed(Profiles[code], asked) =>
          LET leaf == LeafCertificate(Profiles[code], csr, asked, 0)
              chain == <<leaf, IntermediateCertificate(0), RootCertificate(0)>>
          IN  /\ \A day \in {0, 1, leaf.to} : Accepted(chain, day)
              /\ ~Accepted(chain, leaf.to + 1)
              /\ ~Accepted(<<leaf>> \o chain, 0)
=============================================================================
