---------------------------- MODULE GrantsProofs ----------------------------
(* Proofs about Grants and its components, for any sessions, codes,        *)
(* devices, user codes and users, and any number of overlapping requests.  *)
EXTENDS Grants, TLAPS

-----------------------------------------------------------------------------
(* Authorization codes.                                                    *)

USE NoneAssumption, BrokeredAssumption DEF Origin, Code!Origin, Code!Steps

(* A code is known by the session and the login it was made for: the row   *)
(* that holds it, the exchange under way for it, the tokens minted and the *)
(* answers given all go back to one Issue.                                 *)
CodesAreTraced ==
    /\ \A s \in Sessions : code[s] # None =>
          issued[code[s]] # None /\ issued[code[s]].session = s
    /\ \A r \in Requests : pc[r] \in {"mint", "mark"} =>
          issued[cd[r]] # None /\ issued[cd[r]].session = sess[r]
    /\ \A m \in minted : issued[m[1]] # None
    /\ \A c \in answered : issued[c] # None

(* A session that no identity provider takes part in still belongs to the  *)
(* login its code was made for, or to nobody; so does an exchange that has *)
(* read it.                                                                *)
OwnerMadeTheCode ==
    /\ \A s \in Sessions \ Brokered :
          code[s] # None /\ owner[s] # None => owner[s] = issued[code[s]].user
    /\ \A r \in Requests : pc[r] \in {"mint", "mark"} /\ sess[r] \notin Brokered =>
          who[r] = issued[cd[r]].user

(* handle_callback only works on sessions of brokered logins.              *)
LinksAreBrokered ==
    \A r \in Requests : pc[r] \in {"link", "linked"} => sess[r] \in Brokered

(* A session that was never opened holds no code: none is read from it.    *)
AnsweredRowsAreSpent ==
    \A s \in Sessions : code[s] \in answered => authenticated[s]

CodeInductive ==
    /\ Code!TypeOK
    /\ CodesAreTraced
    /\ OwnerMadeTheCode
    /\ LinksAreBrokered
    /\ AnsweredRowsAreSpent
    /\ Code!TokensForTheirLogin

-----------------------------------------------------------------------------
LEMMA CodeInitInductive == Code!Init => CodeInductive
  BY DEF Code!Init, CodeInductive, Code!TypeOK, CodesAreTraced, OwnerMadeTheCode, LinksAreBrokered,
         AnsweredRowsAreSpent, Code!TokensForTheirLogin

(* Every step keeps the types. *)
LEMMA CodeStepTypeOK == Code!TypeOK /\ [Code!Next]_(Code!vars) => Code!TypeOK'
  <1> SUFFICES ASSUME Code!TypeOK, [Code!Next]_(Code!vars) PROVE Code!TypeOK'
    OBVIOUS
  <1> USE DEF Code!TypeOK, Code!sessions, Code!locals, Code!history
  <1>1. ASSUME NEW s \in Sessions, Code!OpenSession(s)
        PROVE Code!TypeOK'
    BY <1>1 DEF Code!OpenSession
  <1>2. ASSUME NEW s \in Sessions, Code!Expire(s)
        PROVE Code!TypeOK'
    BY <1>2 DEF Code!Expire
  <1>3. ASSUME NEW u \in Users, Code!DeleteUser(u)
        PROVE Code!TypeOK'
    BY <1>3 DEF Code!DeleteUser
  <1>4. ASSUME NEW r \in Requests, NEW s \in Sessions, Code!Authenticate(r, s)
        PROVE Code!TypeOK'
    BY <1>4 DEF Code!Authenticate, Code!Enter
  <1>5. ASSUME NEW r \in Requests, NEW u \in Users, Code!CheckCredentials(r, u)
        PROVE Code!TypeOK'
    BY <1>5 DEF Code!CheckCredentials, Code!Enter, Code!Finish, Code!Live
  <1>6. ASSUME NEW r \in Requests, NEW s \in Sessions, NEW u \in Users, Code!Register(r, s, u)
        PROVE Code!TypeOK'
    BY <1>6 DEF Code!Register, Code!Enter
  <1>7. ASSUME NEW r \in Requests, Code!ResumeAfterRegister(r)
        PROVE Code!TypeOK'
    BY <1>7 DEF Code!ResumeAfterRegister, Code!Enter, Code!Finish
  <1>8. ASSUME NEW r \in Requests, NEW s \in Sessions, NEW u \in Users, Code!Challenge(r, s, u)
        PROVE Code!TypeOK'
    BY <1>8 DEF Code!Challenge, Code!Enter
  <1>9. ASSUME NEW r \in Requests, NEW c \in Codes, Code!Stamp(r, c)
        PROVE Code!TypeOK'
    <2>1. sess[r] \in Sessions /\ who[r] \in Users
      BY <1>9 DEF Code!Stamp
    <2>2. [session |-> sess[r], user |-> who[r]] \in Code!Origin
      BY <2>1
    <2>3. CASE Code!Live(who[r])
      <3>1. issued' \in [Codes -> Code!Origin \union {None}]
        <4> HIDE DEF Code!Origin
        <4> QED BY <1>9, <2>2, <2>3 DEF Code!Stamp, Code!Issue
      <3> HIDE DEF Code!Origin
      <3>2. /\ code' = [code EXCEPT ![sess[r]] = c]
            /\ owner' = [owner EXCEPT ![sess[r]] = who[r]]
            /\ authenticated' = [authenticated EXCEPT ![sess[r]] = FALSE]
        BY <1>9, <2>3 DEF Code!Stamp
      <3>3. held' \in SUBSET Codes
        BY <1>9, <2>3 DEF Code!Stamp, Code!Issue
      <3>4. /\ pc' = [pc EXCEPT ![r] = "idle"]
            /\ sess' \in [Requests -> Sessions \union {None}]
            /\ who' \in [Requests -> Users \union {None}]
            /\ cd' \in [Requests -> Codes \union {None}]
            /\ \A q \in Requests \ {r} :
                  sess'[q] = sess[q] /\ who'[q] = who[q] /\ cd'[q] = cd[q]
        BY <1>9 DEF Code!Stamp, Code!Finish
      <3>5. UNCHANGED <<opened, expired, account, minted, answered>>
        BY <1>9 DEF Code!Stamp
      <3>6. /\ code' \in [Sessions -> Codes \union {None}]
            /\ owner' \in [Sessions -> Users \union {None}]
            /\ authenticated' \in [Sessions -> BOOLEAN]
        BY <2>1, <3>2
      <3> QED BY <3>1, <3>3, <3>4, <3>5, <3>6
    <2>4. CASE ~Code!Live(who[r])
      BY <1>9, <2>4 DEF Code!Stamp, Code!Finish
    <2> QED BY <2>3, <2>4
  <1>10. ASSUME NEW r \in Requests, NEW s \in Sessions, NEW u \in Users, Code!BrokerCallback(r, s, u)
        PROVE Code!TypeOK'
    BY <1>10 DEF Code!BrokerCallback, Code!Enter
  <1>11. ASSUME NEW r \in Requests, Code!BrokerLink(r)
        PROVE Code!TypeOK'
    BY <1>11 DEF Code!BrokerLink, Code!Enter, Code!Finish, Code!Live
  <1>12. ASSUME NEW r \in Requests, NEW c \in Codes, Code!BrokerStamp(r, c)
        PROVE Code!TypeOK'
    BY <1>12 DEF Code!BrokerStamp, Code!Issue, Code!Fresh, Code!Finish
  <1>13. ASSUME NEW s \in Sessions, NEW u \in Users, NEW c \in Codes, Code!BrokerOpens(s, u, c)
        PROVE Code!TypeOK'
    BY <1>13 DEF Code!BrokerOpens, Code!Issue, Code!Fresh
  <1>14. ASSUME NEW r \in Requests, NEW c \in Codes, Code!ReadCode(r, c)
        PROVE Code!TypeOK'
    BY <1>14 DEF Code!ReadCode, Code!Enter
  <1>15. ASSUME NEW r \in Requests, Code!Mint(r)
        PROVE Code!TypeOK'
    BY <1>15 DEF Code!Mint, Code!Enter, Code!Finish, Code!Live
  <1>16. ASSUME NEW r \in Requests, Code!MarkUsed(r)
        PROVE Code!TypeOK'
    BY <1>16 DEF Code!MarkUsed, Code!Finish
  <1>17. ASSUME NEW r \in Requests, Code!Abort(r)
        PROVE Code!TypeOK'
    BY <1>17 DEF Code!Abort, Code!Finish
  <1>18. CASE UNCHANGED Code!vars
    BY <1>18 DEF Code!vars
  <1> QED
    BY <1>1, <1>2, <1>3, <1>4, <1>5, <1>6, <1>7, <1>8, <1>9, <1>10, <1>11,
       <1>12, <1>13, <1>14, <1>15, <1>16, <1>17, <1>18
       DEF Code!Next, Code!Login, Code!BrokerLogin, Code!Exchange

(* Every step preserves the inductive invariant. *)
LEMMA CodeStepInductive == CodeInductive /\ [Code!Next]_(Code!vars) => CodeInductive'
  <1> SUFFICES ASSUME CodeInductive, [Code!Next]_(Code!vars), Code!TypeOK' PROVE CodeInductive'
    BY CodeStepTypeOK DEF CodeInductive
  <1> USE DEF CodeInductive, Code!TypeOK, Code!sessions, Code!locals, Code!history, CodesAreTraced, OwnerMadeTheCode,
              LinksAreBrokered, AnsweredRowsAreSpent, Code!TokensForTheirLogin
  <1>1. ASSUME NEW s \in Sessions, Code!OpenSession(s)
        PROVE CodeInductive'
    BY <1>1 DEF Code!OpenSession
  <1>2. ASSUME NEW s \in Sessions, Code!Expire(s)
        PROVE CodeInductive'
    BY <1>2 DEF Code!Expire
  <1>3. ASSUME NEW u \in Users, Code!DeleteUser(u)
        PROVE CodeInductive'
    <2>1. CodesAreTraced'
      BY <1>3 DEF Code!DeleteUser
    <2>2. OwnerMadeTheCode'
      BY <1>3 DEF Code!DeleteUser
    <2>3. LinksAreBrokered'
      BY <1>3 DEF Code!DeleteUser
    <2>4. AnsweredRowsAreSpent'
      BY <1>3 DEF Code!DeleteUser
    <2>5. Code!TokensForTheirLogin'
      BY <1>3 DEF Code!DeleteUser
    <2> QED BY <2>1, <2>2, <2>3, <2>4, <2>5
  <1>4. ASSUME NEW r \in Requests, NEW s \in Sessions, Code!Authenticate(r, s)
        PROVE CodeInductive'
    BY <1>4 DEF Code!Authenticate, Code!Enter
  <1>5. ASSUME NEW r \in Requests, NEW u \in Users, Code!CheckCredentials(r, u)
        PROVE CodeInductive'
    <2>1. CodesAreTraced'
      BY <1>5 DEF Code!CheckCredentials, Code!Enter, Code!Finish, Code!Live
    <2>2. OwnerMadeTheCode'
      BY <1>5 DEF Code!CheckCredentials, Code!Enter, Code!Finish, Code!Live
    <2>3. LinksAreBrokered'
      BY <1>5 DEF Code!CheckCredentials, Code!Enter, Code!Finish, Code!Live
    <2>4. AnsweredRowsAreSpent'
      BY <1>5 DEF Code!CheckCredentials, Code!Enter, Code!Finish, Code!Live
    <2>5. Code!TokensForTheirLogin'
      BY <1>5 DEF Code!CheckCredentials, Code!Enter, Code!Finish, Code!Live
    <2> QED BY <2>1, <2>2, <2>3, <2>4, <2>5
  <1>6. ASSUME NEW r \in Requests, NEW s \in Sessions, NEW u \in Users, Code!Register(r, s, u)
        PROVE CodeInductive'
    BY <1>6 DEF Code!Register, Code!Enter
  <1>7. ASSUME NEW r \in Requests, Code!ResumeAfterRegister(r)
        PROVE CodeInductive'
    <2>1. CodesAreTraced'
      BY <1>7 DEF Code!ResumeAfterRegister, Code!Enter, Code!Finish
    <2>2. OwnerMadeTheCode'
      BY <1>7 DEF Code!ResumeAfterRegister, Code!Enter, Code!Finish
    <2>3. LinksAreBrokered'
      BY <1>7 DEF Code!ResumeAfterRegister, Code!Enter, Code!Finish
    <2>4. AnsweredRowsAreSpent'
      BY <1>7 DEF Code!ResumeAfterRegister, Code!Enter, Code!Finish
    <2>5. Code!TokensForTheirLogin'
      BY <1>7 DEF Code!ResumeAfterRegister, Code!Enter, Code!Finish
    <2> QED BY <2>1, <2>2, <2>3, <2>4, <2>5
  <1>8. ASSUME NEW r \in Requests, NEW s \in Sessions, NEW u \in Users, Code!Challenge(r, s, u)
        PROVE CodeInductive'
    BY <1>8 DEF Code!Challenge, Code!Enter
  <1>9. ASSUME NEW r \in Requests, NEW c \in Codes, Code!Stamp(r, c)
        PROVE CodeInductive'
    <2>1. CodesAreTraced'
      BY <1>9 DEF Code!Stamp, Code!Issue, Code!Fresh, Code!Finish, Code!Live
    <2>2. OwnerMadeTheCode'
      BY <1>9 DEF Code!Stamp, Code!Issue, Code!Fresh, Code!Finish, Code!Live
    <2>3. LinksAreBrokered'
      BY <1>9 DEF Code!Stamp, Code!Issue, Code!Fresh, Code!Finish, Code!Live
    <2>4. AnsweredRowsAreSpent'
      BY <1>9 DEF Code!Stamp, Code!Issue, Code!Fresh, Code!Finish, Code!Live
    <2>5. Code!TokensForTheirLogin'
      BY <1>9 DEF Code!Stamp, Code!Issue, Code!Fresh, Code!Finish, Code!Live
    <2> QED BY <2>1, <2>2, <2>3, <2>4, <2>5
  <1>10. ASSUME NEW r \in Requests, NEW s \in Sessions, NEW u \in Users, Code!BrokerCallback(r, s, u)
        PROVE CodeInductive'
    BY <1>10 DEF Code!BrokerCallback, Code!Enter
  <1>11. ASSUME NEW r \in Requests, Code!BrokerLink(r)
        PROVE CodeInductive'
    <2>1. CodesAreTraced'
      BY <1>11 DEF Code!BrokerLink, Code!Enter, Code!Finish, Code!Live
    <2>2. OwnerMadeTheCode'
      BY <1>11 DEF Code!BrokerLink, Code!Enter, Code!Finish, Code!Live
    <2>3. LinksAreBrokered'
      BY <1>11 DEF Code!BrokerLink, Code!Enter, Code!Finish, Code!Live
    <2>4. AnsweredRowsAreSpent'
      BY <1>11 DEF Code!BrokerLink, Code!Enter, Code!Finish, Code!Live
    <2>5. Code!TokensForTheirLogin'
      BY <1>11 DEF Code!BrokerLink, Code!Enter, Code!Finish, Code!Live
    <2> QED BY <2>1, <2>2, <2>3, <2>4, <2>5
  <1>12. ASSUME NEW r \in Requests, NEW c \in Codes, Code!BrokerStamp(r, c)
        PROVE CodeInductive'
    <2>1. CodesAreTraced'
      BY <1>12 DEF Code!BrokerStamp, Code!Issue, Code!Fresh, Code!Finish
    <2>2. OwnerMadeTheCode'
      BY <1>12 DEF Code!BrokerStamp, Code!Issue, Code!Fresh, Code!Finish
    <2>3. LinksAreBrokered'
      BY <1>12 DEF Code!BrokerStamp, Code!Issue, Code!Fresh, Code!Finish
    <2>4. AnsweredRowsAreSpent'
      BY <1>12 DEF Code!BrokerStamp, Code!Issue, Code!Fresh, Code!Finish
    <2>5. Code!TokensForTheirLogin'
      BY <1>12 DEF Code!BrokerStamp, Code!Issue, Code!Fresh, Code!Finish
    <2> QED BY <2>1, <2>2, <2>3, <2>4, <2>5
  <1>13. ASSUME NEW s \in Sessions, NEW u \in Users, NEW c \in Codes, Code!BrokerOpens(s, u, c)
        PROVE CodeInductive'
    <2>1. CodesAreTraced'
      BY <1>13 DEF Code!BrokerOpens, Code!Issue, Code!Fresh
    <2>2. OwnerMadeTheCode'
      BY <1>13 DEF Code!BrokerOpens, Code!Issue, Code!Fresh
    <2>3. LinksAreBrokered'
      BY <1>13 DEF Code!BrokerOpens, Code!Issue, Code!Fresh
    <2>4. AnsweredRowsAreSpent'
      BY <1>13 DEF Code!BrokerOpens, Code!Issue, Code!Fresh
    <2>5. Code!TokensForTheirLogin'
      BY <1>13 DEF Code!BrokerOpens, Code!Issue, Code!Fresh
    <2> QED BY <2>1, <2>2, <2>3, <2>4, <2>5
  <1>14. ASSUME NEW r \in Requests, NEW c \in Codes, Code!ReadCode(r, c)
        PROVE CodeInductive'
    <2>1. CodesAreTraced'
      BY <1>14 DEF Code!ReadCode, Code!Enter
    <2>2. OwnerMadeTheCode'
      BY <1>14 DEF Code!ReadCode, Code!Enter
    <2>3. LinksAreBrokered'
      BY <1>14 DEF Code!ReadCode, Code!Enter
    <2>4. AnsweredRowsAreSpent'
      BY <1>14 DEF Code!ReadCode, Code!Enter
    <2>5. Code!TokensForTheirLogin'
      BY <1>14 DEF Code!ReadCode, Code!Enter
    <2> QED BY <2>1, <2>2, <2>3, <2>4, <2>5
  <1>15. ASSUME NEW r \in Requests, Code!Mint(r)
        PROVE CodeInductive'
    <2>1. CodesAreTraced'
      BY <1>15 DEF Code!Mint, Code!Enter, Code!Finish, Code!Live
    <2>2. OwnerMadeTheCode'
      BY <1>15 DEF Code!Mint, Code!Enter, Code!Finish, Code!Live
    <2>3. LinksAreBrokered'
      BY <1>15 DEF Code!Mint, Code!Enter, Code!Finish, Code!Live
    <2>4. AnsweredRowsAreSpent'
      BY <1>15 DEF Code!Mint, Code!Enter, Code!Finish, Code!Live
    <2>5. Code!TokensForTheirLogin'
      BY <1>15 DEF Code!Mint, Code!Enter, Code!Finish, Code!Live
    <2> QED BY <2>1, <2>2, <2>3, <2>4, <2>5
  <1>16. ASSUME NEW r \in Requests, Code!MarkUsed(r)
        PROVE CodeInductive'
    <2>1. CodesAreTraced'
      BY <1>16 DEF Code!MarkUsed, Code!Finish
    <2>2. OwnerMadeTheCode'
      BY <1>16 DEF Code!MarkUsed, Code!Finish
    <2>3. LinksAreBrokered'
      BY <1>16 DEF Code!MarkUsed, Code!Finish
    <2>4. AnsweredRowsAreSpent'
      BY <1>16 DEF Code!MarkUsed, Code!Finish
    <2>5. Code!TokensForTheirLogin'
      BY <1>16 DEF Code!MarkUsed, Code!Finish
    <2> QED BY <2>1, <2>2, <2>3, <2>4, <2>5
  <1>17. ASSUME NEW r \in Requests, Code!Abort(r)
        PROVE CodeInductive'
    <2>1. CodesAreTraced'
      BY <1>17 DEF Code!Abort, Code!Finish
    <2>2. OwnerMadeTheCode'
      BY <1>17 DEF Code!Abort, Code!Finish
    <2>3. LinksAreBrokered'
      BY <1>17 DEF Code!Abort, Code!Finish
    <2>4. AnsweredRowsAreSpent'
      BY <1>17 DEF Code!Abort, Code!Finish
    <2>5. Code!TokensForTheirLogin'
      BY <1>17 DEF Code!Abort, Code!Finish
    <2> QED BY <2>1, <2>2, <2>3, <2>4, <2>5
  <1>18. CASE UNCHANGED Code!vars
    BY <1>18 DEF Code!vars
  <1> QED
    BY <1>1, <1>2, <1>3, <1>4, <1>5, <1>6, <1>7, <1>8, <1>9, <1>10, <1>11,
       <1>12, <1>13, <1>14, <1>15, <1>16, <1>17, <1>18
       DEF Code!Next, Code!Login, Code!BrokerLogin, Code!Exchange

-----------------------------------------------------------------------------
(* Device codes.                                                           *)

HIDE BrokeredAssumption DEF Origin, Code!Origin, Code!Steps
USE NoneAssumption, NoDeviceAssumption DEF Device!Steps, Device!Stored, Device!Exists,
    Device!Holding

(* Whoever an approved row names has approved it, and so has whoever a     *)
(* request that is about to issue tokens read from it, even if the row has *)
(* been denied, taken over or expired since.                               *)
ApprovalsKnown ==
    /\ \A d \in Devices : status[d] = "approved" => <<d, user[d]>> \in approvals
    /\ \A r \in Requests : pc[r] = "issue" => <<dev[r], by[r]>> \in approvals

DeviceInductive ==
    /\ Device!TypeOK
    /\ Device!GrantsFollowApproval
    /\ Device!UserCodesAreUnique
    /\ Device!ApprovedRowsHaveTheirUser
    /\ ApprovalsKnown

-----------------------------------------------------------------------------
LEMMA DeviceInitInductive == Device!Init => DeviceInductive
  BY DEF Device!Init, DeviceInductive, Device!TypeOK, Device!GrantsFollowApproval, Device!UserCodesAreUnique,
         Device!ApprovedRowsHaveTheirUser, ApprovalsKnown

(* Every step keeps the types; an approved row's user is needed for the    *)
(* user a poll reads.                                                      *)
LEMMA DeviceStepTypeOK == DeviceInductive /\ [Device!Next]_(Device!vars) => Device!TypeOK'
  <1> SUFFICES ASSUME DeviceInductive, [Device!Next]_(Device!vars) PROVE Device!TypeOK'
    OBVIOUS
  <1> USE DEF DeviceInductive, Device!TypeOK, Device!columns, Device!clock, Device!locals, Device!history
  <1>1. ASSUME NEW r \in Requests, NEW d \in Devices, NEW c \in UserCodes, Device!Initiate(r, d, c)
        PROVE Device!TypeOK'
    BY <1>1 DEF Device!Initiate, Device!Enter
  <1>2. ASSUME NEW r \in Requests, Device!Insert(r) PROVE Device!TypeOK'
    BY <1>2 DEF Device!Insert, Device!Finish, Device!Enter
  <1>3. ASSUME NEW r \in Requests, NEW d \in Devices, Device!Poll(r, d) PROVE Device!TypeOK'
    BY <1>3 DEF Device!Poll, Device!Enter, Device!ApprovedRowsHaveTheirUser
  <1>4. ASSUME NEW r \in Requests, Device!IssueTokens(r) PROVE Device!TypeOK'
    BY <1>4 DEF Device!IssueTokens, Device!Finish, Device!Enter
  <1>5. ASSUME NEW r \in Requests, Device!ExpireRow(r) PROVE Device!TypeOK'
    BY <1>5 DEF Device!ExpireRow, Device!Finish, Device!Enter
  <1>6. ASSUME NEW r \in Requests, Device!MarkPolled(r) PROVE Device!TypeOK'
    BY <1>6 DEF Device!MarkPolled, Device!Finish, Device!Enter
  <1>7. ASSUME NEW r \in Requests, NEW c \in UserCodes, NEW u \in Users, Device!VerifyUserCode(r, c, u)
        PROVE Device!TypeOK'
    BY <1>7 DEF Device!VerifyUserCode, Device!Enter
  <1>8. ASSUME NEW r \in Requests, NEW c \in UserCodes, NEW u \in Users, Device!RequestDenial(r, c, u)
        PROVE Device!TypeOK'
    BY <1>8 DEF Device!RequestDenial, Device!Enter
  <1>9. ASSUME NEW r \in Requests, Device!Approve(r) PROVE Device!TypeOK'
    BY <1>9 DEF Device!Approve, Device!Finish, Device!Enter
  <1>10. ASSUME NEW r \in Requests, Device!Deny(r) PROVE Device!TypeOK'
    BY <1>10 DEF Device!Deny, Device!Finish, Device!Enter
  <1>11. ASSUME NEW r \in Requests, Device!Abort(r) PROVE Device!TypeOK'
    BY <1>11 DEF Device!Abort, Device!Finish, Device!Enter
  <1>12. ASSUME NEW d \in Devices, Device!LifetimeElapses(d) PROVE Device!TypeOK'
    BY <1>12 DEF Device!LifetimeElapses
  <1>13. ASSUME NEW d \in Devices, Device!IntervalElapses(d) PROVE Device!TypeOK'
    BY <1>13 DEF Device!IntervalElapses
  <1>14. ASSUME NEW u \in Users, Device!DeleteUser(u) PROVE Device!TypeOK'
    BY <1>14 DEF Device!DeleteUser
  <1>15. CASE UNCHANGED Device!vars
    BY <1>15 DEF Device!vars
  <1> QED
    BY <1>1, <1>2, <1>3, <1>4, <1>5, <1>6, <1>7, <1>8, <1>9, <1>10, <1>11,
       <1>12, <1>13, <1>14, <1>15
       DEF Device!Next, Device!DeviceRequest, Device!VerificationPage

(* Every step preserves the inductive invariant.                           *)
LEMMA DeviceStepInductive == DeviceInductive /\ [Device!Next]_(Device!vars) => DeviceInductive'
  <1> SUFFICES ASSUME DeviceInductive, [Device!Next]_(Device!vars), Device!TypeOK' PROVE DeviceInductive'
    BY DeviceStepTypeOK
  <1> USE DEF DeviceInductive, Device!TypeOK, Device!columns, Device!clock, Device!locals, Device!history, Device!GrantsFollowApproval,
              Device!UserCodesAreUnique, Device!ApprovedRowsHaveTheirUser, ApprovalsKnown
  <1>1. ASSUME NEW r \in Requests, NEW d \in Devices, NEW c \in UserCodes, Device!Initiate(r, d, c)
        PROVE DeviceInductive'
    BY <1>1 DEF Device!Initiate, Device!Enter
  <1>2. ASSUME NEW r \in Requests, Device!Insert(r) PROVE DeviceInductive'
    <2>1. Device!GrantsFollowApproval'
      BY <1>2 DEF Device!Insert, Device!Finish, Device!Enter
    <2>2. Device!UserCodesAreUnique'
      BY <1>2 DEF Device!Insert, Device!Finish, Device!Enter
    <2>3. Device!ApprovedRowsHaveTheirUser'
      BY <1>2 DEF Device!Insert, Device!Finish, Device!Enter
    <2>4. ApprovalsKnown'
      BY <1>2 DEF Device!Insert, Device!Finish, Device!Enter
    <2> QED BY <2>1, <2>2, <2>3, <2>4
  <1>3. ASSUME NEW r \in Requests, NEW d \in Devices, Device!Poll(r, d) PROVE DeviceInductive'
    <2>1. Device!GrantsFollowApproval'
      BY <1>3 DEF Device!Poll, Device!Enter
    <2>2. Device!UserCodesAreUnique'
      BY <1>3 DEF Device!Poll, Device!Enter
    <2>3. Device!ApprovedRowsHaveTheirUser'
      BY <1>3 DEF Device!Poll, Device!Enter
    <2>4. ApprovalsKnown'
      BY <1>3 DEF Device!Poll, Device!Enter
    <2> QED BY <2>1, <2>2, <2>3, <2>4
  <1>4. ASSUME NEW r \in Requests, Device!IssueTokens(r) PROVE DeviceInductive'
    BY <1>4 DEF Device!IssueTokens, Device!Finish, Device!Enter
  <1>5. ASSUME NEW r \in Requests, Device!ExpireRow(r) PROVE DeviceInductive'
    <2>1. Device!GrantsFollowApproval'
      BY <1>5 DEF Device!ExpireRow, Device!Finish, Device!Enter
    <2>2. Device!UserCodesAreUnique'
      BY <1>5 DEF Device!ExpireRow, Device!Finish, Device!Enter
    <2>3. Device!ApprovedRowsHaveTheirUser'
      BY <1>5 DEF Device!ExpireRow, Device!Finish, Device!Enter
    <2>4. ApprovalsKnown'
      BY <1>5 DEF Device!ExpireRow, Device!Finish, Device!Enter
    <2> QED BY <2>1, <2>2, <2>3, <2>4
  <1>6. ASSUME NEW r \in Requests, Device!MarkPolled(r) PROVE DeviceInductive'
    BY <1>6 DEF Device!MarkPolled, Device!Finish, Device!Enter
  <1>7. ASSUME NEW r \in Requests, NEW c \in UserCodes, NEW u \in Users, Device!VerifyUserCode(r, c, u)
        PROVE DeviceInductive'
    BY <1>7 DEF Device!VerifyUserCode, Device!Enter
  <1>8. ASSUME NEW r \in Requests, NEW c \in UserCodes, NEW u \in Users, Device!RequestDenial(r, c, u)
        PROVE DeviceInductive'
    BY <1>8 DEF Device!RequestDenial, Device!Enter
  <1>9. ASSUME NEW r \in Requests, Device!Approve(r) PROVE DeviceInductive'
    <2>1. Device!GrantsFollowApproval'
      BY <1>9 DEF Device!Approve, Device!Finish, Device!Enter
    <2>2. Device!UserCodesAreUnique'
      BY <1>9 DEF Device!Approve, Device!Finish, Device!Enter
    <2>3. Device!ApprovedRowsHaveTheirUser'
      BY <1>9 DEF Device!Approve, Device!Finish, Device!Enter
    <2>4. ApprovalsKnown'
      BY <1>9 DEF Device!Approve, Device!Finish, Device!Enter
    <2> QED BY <2>1, <2>2, <2>3, <2>4
  <1>10. ASSUME NEW r \in Requests, Device!Deny(r) PROVE DeviceInductive'
    <2>1. Device!GrantsFollowApproval'
      BY <1>10 DEF Device!Deny, Device!Finish, Device!Enter
    <2>2. Device!UserCodesAreUnique'
      BY <1>10 DEF Device!Deny, Device!Finish, Device!Enter
    <2>3. Device!ApprovedRowsHaveTheirUser'
      BY <1>10 DEF Device!Deny, Device!Finish, Device!Enter
    <2>4. ApprovalsKnown'
      BY <1>10 DEF Device!Deny, Device!Finish, Device!Enter
    <2> QED BY <2>1, <2>2, <2>3, <2>4
  <1>11. ASSUME NEW r \in Requests, Device!Abort(r) PROVE DeviceInductive'
    BY <1>11 DEF Device!Abort, Device!Finish, Device!Enter
  <1>12. ASSUME NEW d \in Devices, Device!LifetimeElapses(d) PROVE DeviceInductive'
    BY <1>12 DEF Device!LifetimeElapses
  <1>13. ASSUME NEW d \in Devices, Device!IntervalElapses(d) PROVE DeviceInductive'
    BY <1>13 DEF Device!IntervalElapses
  <1>14. ASSUME NEW u \in Users, Device!DeleteUser(u) PROVE DeviceInductive'
    <2>1. Device!GrantsFollowApproval'
      BY <1>14 DEF Device!DeleteUser
    <2>2. Device!UserCodesAreUnique'
      BY <1>14 DEF Device!DeleteUser
    <2>3. Device!ApprovedRowsHaveTheirUser'
      BY <1>14 DEF Device!DeleteUser
    <2>4. ApprovalsKnown'
      BY <1>14 DEF Device!DeleteUser
    <2> QED BY <2>1, <2>2, <2>3, <2>4
  <1>15. CASE UNCHANGED Device!vars
    BY <1>15 DEF Device!vars
  <1> QED
    BY <1>1, <1>2, <1>3, <1>4, <1>5, <1>6, <1>7, <1>8, <1>9, <1>10, <1>11,
       <1>12, <1>13, <1>14, <1>15
       DEF Device!Next, Device!DeviceRequest, Device!VerificationPage

-----------------------------------------------------------------------------
(* Both grants together.                                                   *)

Inductive ==
    /\ grant \in {"code", "device"}
    /\ grant = "code" => CodeInductive
    /\ grant = "device" => DeviceInductive

LEMMA InitInductive == Init => Inductive
  BY CodeInitInductive, DeviceInitInductive DEF Init, Inductive

(* A step is one of the grant the behaviour is about.                      *)
LEMMA StepInductive == Inductive /\ [Next]_vars => Inductive'
  <1> SUFFICES ASSUME Inductive, [Next]_vars PROVE Inductive'
    OBVIOUS
  <1>1. CASE CodeStep
    <2>1. grant = "code" /\ grant' = "code" /\ Code!Next
      BY <1>1 DEF CodeStep
    <2>2. CodeInductive'
      BY <2>1, CodeStepInductive DEF Inductive
    <2> QED BY <2>1, <2>2 DEF Inductive
  <1>2. CASE DeviceStep
    <2>1. grant = "device" /\ grant' = "device" /\ Device!Next
      BY <1>2 DEF DeviceStep
    <2>2. DeviceInductive'
      BY <2>1, DeviceStepInductive DEF Inductive
    <2> QED BY <2>1, <2>2 DEF Inductive
  <1>3. CASE UNCHANGED vars
    <2>1. grant' = grant /\ UNCHANGED Code!vars /\ UNCHANGED Device!vars
      BY <1>3 DEF vars, codeVars, deviceVars, Code!vars, Code!sessions, Code!locals,
                  Code!history, Device!vars, Device!columns, Device!clock, Device!locals,
                  Device!history
    <2>2. grant = "code" => CodeInductive'
      BY <2>1, CodeStepInductive DEF Inductive
    <2>3. grant = "device" => DeviceInductive'
      BY <2>1, DeviceStepInductive DEF Inductive
    <2> QED BY <2>1, <2>2, <2>3 DEF Inductive
  <1> QED
    BY <1>1, <1>2, <1>3 DEF Next

LEMMA AlwaysInductive == Spec => []Inductive
  BY InitInductive, StepInductive, PTL DEF Spec

-----------------------------------------------------------------------------
(* Every variable of the grant keeps its type; in particular an exchange   *)
(* and a request that issues tokens to a device have a user.               *)
THEOREM TypeCorrect == Spec => []TypeOK
  <1>1. Inductive => TypeOK
    BY DEF Inductive, TypeOK, CodeInductive, DeviceInductive
  <1> QED BY <1>1, AlwaysInductive, PTL

(* Whatever logins reuse a session, a code whose exchange was answered is  *)
(* held only by rows that are marked as used.                              *)
THEOREM AnsweredCodesStaySpent == Spec => []AnsweredCodeStaysSpent
  <1>1. Inductive => AnsweredCodeStaysSpent
    BY DEF Inductive, CodeInductive, Code!TypeOK, AnsweredRowsAreSpent,
           AnsweredCodeStaysSpent, Code!AnsweredCodeStaysSpent
  <1> QED BY <1>1, AlwaysInductive, PTL

(* The token endpoint mints for the user who made the code, whoever takes  *)
(* the session over in the meantime.                                       *)
THEOREM TokensFollowTheirLogin == Spec => []TokensForTheirLogin
  <1>1. Inductive => TokensForTheirLogin
    BY DEF Inductive, CodeInductive, TokensForTheirLogin
  <1> QED BY <1>1, AlwaysInductive, PTL

(* However approvals, denials, polls, expiries and deletions cross, the    *)
(* token endpoint answers a device only for a user who approved its row.   *)
THEOREM OnlyApprovedGrants == Spec => []GrantsFollowApproval
  <1>1. Inductive => GrantsFollowApproval
    BY DEF Inductive, DeviceInductive, GrantsFollowApproval
  <1> QED BY <1>1, AlwaysInductive, PTL

(* The check of generate_unique_user_code and the unique column together   *)
(* keep user codes from naming two rows.                                   *)
THEOREM CodesNameOneRow == Spec => []UserCodesAreUnique
  <1>1. Inductive => UserCodesAreUnique
    BY DEF Inductive, DeviceInductive, UserCodesAreUnique
  <1> QED BY <1>1, AlwaysInductive, PTL

(* poll never meets an approved row without a user.                        *)
THEOREM ApprovedHaveUser == Spec => []ApprovedRowsHaveTheirUser
  <1>1. Inductive => ApprovedRowsHaveTheirUser
    BY DEF Inductive, DeviceInductive, ApprovedRowsHaveTheirUser
  <1> QED BY <1>1, AlwaysInductive, PTL
=============================================================================
