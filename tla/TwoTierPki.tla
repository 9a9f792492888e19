----------------------------- MODULE TwoTierPki -----------------------------
(***************************************************************************)
(* What the CA promises of its hierarchy, without rows and without         *)
(* requests.  There is one root and below it one intermediate, each        *)
(* founded once and for good; the root's key is opened with the passphrase *)
(* it was founded with and only an open root founds the intermediate; a    *)
(* leaf is signed by the open intermediate, and whoever follows its chain  *)
(* comes to the root.                                                      *)
(***************************************************************************)
CONSTANTS CAs,          \* what may become a CA, or a key
          Passphrases,
          None

VARIABLES root,         \* the root, or None
          secret,       \* its passphrase
          inter,        \* the intermediate, or None
          openRoot,     \* the root's key in memory, or None
          openInter,    \* the intermediate's
          chains        \* the chains of the leaves signed so far: the CAs they
                        \* name from the leaf upwards, and the keys that signed

pkiVars == <<root, secret, inter, openRoot, openInter, chains>>

Init == /\ root = None /\ secret = None /\ inter = None
        /\ openRoot = None /\ openInter = None
        /\ chains = {}

FoundRoot(c, p) == /\ root = None
                   /\ root' = c
                   /\ secret' = p
                   /\ UNCHANGED <<inter, openRoot, openInter, chains>>

\* The founder of the root may lose to another one, whose passphrase is kept.
Open(p) == /\ root # None
           /\ p = secret
           /\ openRoot' = root
           /\ UNCHANGED <<root, secret, inter, openInter, chains>>

Close == /\ openRoot' = None
         /\ UNCHANGED <<openInter, root, secret, inter, chains>>

FoundInter(c) == /\ inter = None
                 /\ openRoot # None
                 /\ c # root
                 /\ inter' = c
                 /\ UNCHANGED <<root, secret, openRoot, openInter, chains>>

Load == /\ openInter' = inter
        /\ UNCHANGED <<openRoot, root, secret, inter, chains>>

Sign == /\ openInter # None
        /\ chains' = chains \cup {[names |-> <<inter, root>>, keys |-> <<openInter, root>>]}
        /\ UNCHANGED <<root, secret, inter, openRoot, openInter>>

\* Only the intermediate's key survives a restart, wrapped by the master key.
Restart == /\ openRoot' = None
           /\ openInter' = inter
           /\ UNCHANGED <<root, secret, inter, chains>>

Next == \/ Load
        \/ Close
        \/ \E c \in CAs : FoundInter(c) \/ \E p \in Passphrases : FoundRoot(c, p)
        \/ \E p \in Passphrases : Open(p)
        \/ Sign
        \/ Restart

Spec == Init /\ [][Next]_pkiVars
=============================================================================
