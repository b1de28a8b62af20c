-------------------------- MODULE TridentParameters --------------------------
(***************************************************************************)
(* What the protocols of the trident service (recovery codes, password     *)
(* reset, magic links, OTP enrolment, passkeys) are parameterised by.      *)
(***************************************************************************)
EXTENDS Naturals, FiniteSets

CONSTANTS
    Users,      \* accounts
    Codes,      \* recovery codes that may ever be generated
    Amounts,    \* sizes of a batch of recovery codes that are asked for
    Tokens,     \* rows of password_reset_tokens that may ever be inserted
    Rows,       \* password rows that may ever be inserted in credentials
    Links,      \* rows of magic_links that may ever be inserted
    Secrets,    \* otp rows that may ever be inserted in credentials
    Challenges, \* WebAuthn challenges that may ever be handed out
    Passkeys,   \* WebAuthn rows that may ever be inserted in credentials
    Counters,   \* what a signature counter may show, 0 where none is kept
    Requests,   \* concurrent HTTP requests
    MaxActive,  \* unexpired reset tokens a user may have (3 in the source)
    None        \* no row, no user

ASSUME IdentityAssumption ==
    /\ Codes \union Tokens \union Rows \union Links \union Secrets \subseteq Nat
    /\ Challenges \union Passkeys \subseteq Nat
ASSUME NoneAssumption ==
    /\ None \notin Users \union Codes \union Tokens \union Rows \union Links \union Secrets
    /\ None \notin Challenges \union Passkeys
ASSUME CountersAssumption == Counters \subseteq Nat /\ 0 \in Counters
ASSUME MaxActiveAssumption == MaxActive \in Nat \ {0}
ASSUME RequestsAssumption == IsFiniteSet(Requests)

\* Rows to be inserted get identities nobody has had (generate_uuid_v7).  They
\* are taken in order: which ones they are makes no difference.
Fresh(new, all, taken) ==
    /\ new \subseteq all \ taken
    /\ \A x \in new, y \in all \ (taken \union new) : x < y
=============================================================================
