--------------------------- MODULE GrantParameters ---------------------------
(***************************************************************************)
(* What the grants of the token endpoint that begin with a login (the      *)
(* authorization code and the device code) are parameterised by.           *)
(***************************************************************************)
CONSTANTS
    Sessions,   \* rows of auth_sessions that may ever be inserted
    Brokered,   \* those for which a login at an identity provider is started
    Codes,      \* authorization codes that may ever be generated
    Devices,    \* rows of device_auth_sessions (device_code is the key)
    UserCodes,  \* user codes that may be drawn
    Users,      \* accounts
    Requests,   \* concurrent HTTP requests
    None        \* NULL

ASSUME BrokeredAssumption == Brokered \subseteq Sessions

\* The login a code is made for.
Origin == [session : Sessions, user : Users]

ASSUME NoneAssumption == None \notin Sessions \union Codes \union Users \union Origin
ASSUME NoDeviceAssumption == None \notin Devices \union UserCodes
=============================================================================
