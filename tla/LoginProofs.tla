----------------------------- MODULE LoginProofs -----------------------------
(* Safety of the services that a login goes through, for every value of their *)
(* constants: as in ServicesProofs, each has an inductive invariant of its    *)
(* own, Inv in its module.                                                   *)
EXTENDS MCServices, Integers, Sequences, FiniteSetTheorems, SequenceTheorems, TLAPS

USE DEF slots, all

-----------------------------------------------------------------------------
(* HelperDelivery: the upload of a helper has one outcome, and what the      *)
(* connection on offer tells of it is told to whoever has its ticket.        *)

HelperInv == which = "helper" => H!Inv

LEMMA HelperStarts == Init => HelperInv
<1> SUFFICES ASSUME Init, which = "helper" PROVE H!Inv
  BY DEF HelperInv
<1> USE DEF H!Init, H!Offer, H!NoAdmission, H!Admitting, H!Errors, H!Answers, H!HasTicket,
           H!Run, H!Connection
<1>1. H!Init /\ ServicesAssumption
  BY ServicesAssumption DEF Init
<1>2. H!Types
  BY <1>1 DEF H!Types, ServicesAssumption, H!ConstantsOK
<1>3. H!Uploading
  BY <1>1 DEF H!Uploading, ServicesAssumption, H!ConstantsOK
<1>4. H!Offering
  BY <1>1 DEF H!Offering, ServicesAssumption, H!ConstantsOK
<1> QED
  BY <1>2, <1>3, <1>4 DEF H!Inv

LEMMA HelperTypes ==
    ASSUME H!ConstantsOK, H!Inv, H!Next \/ UNCHANGED H!vars
    PROVE  H!Types'
<1> USE DEF H!ConstantsOK, H!Inv, H!Types, H!Errors, H!Answers, H!Admitting,
           H!Run, H!Connection
<1>a. ASSUME NEW error \in {"none", "vague"}, H!Invalidate(error), UNCHANGED <<s3, s4, s5>>
      PROVE  H!Types'
  <2>1. s1'.attempt \in Nat /\ s1' \in H!Connection
    BY <1>a DEF H!Invalidate, H!Invalidated, H!Offer
  <2>2. s2' \in [helper : Helpers \cup {NoHelper}, attempt : Nat, cut : BOOLEAN]
    BY <1>a DEF H!Invalidate
  <2> QED
    BY <1>a, <2>1, <2>2
<1>1. ASSUME H!Enable PROVE H!Types'
  BY <1>1
     DEF H!Enable, H!Offer
<1>2. ASSUME H!Expire PROVE H!Types'
  BY <1>2
     DEF H!Expire
<1>3. ASSUME H!Status PROVE H!Types'
  BY <1>3, <1>a DEF H!Status
<1>4. ASSUME H!Cancel PROVE H!Types'
  BY <1>4, <1>a DEF H!Cancel
<1>5. ASSUME H!Install PROVE H!Types'
  BY <1>5
     DEF H!Install, H!Ended, H!NoAdmission
<1>6. ASSUME H!AdmissionFails PROVE H!Types'
  <2>1. PICK kind \in {"definite", "vague"} :
           /\ s1' = IF s1.attempt = s2.attempt
                    THEN [s1 EXCEPT !.state = "error", !.error = kind] ELSE s1
           /\ H!Ended(kind)
    BY <1>6 DEF H!AdmissionFails
  <2>2. UNCHANGED s5
    BY <1>6 DEF H!AdmissionFails
  <2> QED
    BY <2>1, <2>2 DEF H!Ended, H!NoAdmission
<1>7. ASSUME H!AdmissionCancelled PROVE H!Types'
  BY <1>7
     DEF H!AdmissionCancelled, H!Ended, H!NoAdmission
<1>8. ASSUME NEW h \in Helpers, H!ArriveRefused(h) PROVE H!Types'
  BY <1>8
     DEF H!ArriveRefused
<1>9. ASSUME NEW h \in Helpers, H!ArriveInvalid(h) PROVE H!Types'
  BY <1>9
     DEF H!ArriveInvalid, H!Refused
<1>10. ASSUME NEW h \in Helpers, H!Arrive(h) PROVE H!Types'
  BY <1>10
     DEF H!Arrive, H!Refused
<1>11. ASSUME NEW h \in Helpers, H!Connect(h) PROVE H!Types'
  <2>1. s3' = [s3 EXCEPT ![h].pc = "browser", ![h].attempt = s1.attempt]
        \/ s3' = H!Report(h, "failure")
    BY <1>11 DEF H!Connect
  <2>2. s1' = [s1 EXCEPT !.state = "connected", !.ticket = h] /\ UNCHANGED <<s2, s4, s5>>
    BY <1>11 DEF H!Connect
  <2>3. s3' \in [Helpers -> H!Run]
    BY <2>1 DEF H!Report
  <2>4. s1' \in H!Connection
    BY <2>2
  <2> QED
    BY <2>2, <2>3, <2>4
<1>12. ASSUME NEW h \in Helpers, H!SignIn(h) PROVE H!Types'
  BY <1>12
     DEF H!SignIn, H!Goto, H!Report
<1>13. ASSUME NEW h \in Helpers, H!Answer(h) PROVE H!Types'
  BY <1>13
     DEF H!Answer, H!Cleanup, H!Goto, H!Report
<1>14. ASSUME NEW h \in Helpers, H!NoAnswer(h) PROVE H!Types'
  BY <1>14
     DEF H!NoAnswer, H!Goto
<1>15. ASSUME NEW h \in Helpers, H!Poll(h) PROVE H!Types'
  BY <1>15
     DEF H!Poll, H!IsFailure, H!Receipt, H!Cleanup, H!Report
<1>16. ASSUME NEW h \in Helpers, H!PollFails(h) PROVE H!Types'
  BY <1>16 DEF H!PollFails
<1>17. ASSUME NEW h \in Helpers, H!GiveUp(h) PROVE H!Types'
  <2>1. s3' = H!Report(h, "unknown") /\ UNCHANGED <<s1, s2, s4, s5>>
    BY <1>17 DEF H!GiveUp
  <2>2. s3' \in [Helpers -> H!Run]
    <3> DEFINE over == [s3 EXCEPT ![h].pc = "done"]
    <3>1. over \in [Helpers -> H!Run]
      OBVIOUS
    <3>2. s3' = [over EXCEPT ![h].report = "unknown"]
      BY <2>1 DEF H!Report
    <3> HIDE DEF over
    <3> QED
      BY <3>1, <3>2
  <2> QED
    BY <2>1, <2>2
<1>18. ASSUME UNCHANGED H!vars PROVE H!Types'
  BY <1>18 DEF H!vars
<1> QED
  BY <1>1, <1>2, <1>3, <1>4, <1>5, <1>6, <1>7, <1>8, <1>9, <1>10, <1>11,
     <1>12, <1>13, <1>14, <1>15, <1>16, <1>17, <1>18 DEF H!Next

LEMMA HelperUploading ==
    ASSUME H!ConstantsOK, H!Inv, H!Next \/ UNCHANGED H!vars
    PROVE  H!Uploading'
<1> USE DEF H!ConstantsOK, H!Inv, H!Types, H!Uploading, H!Admitting, H!HasTicket, H!Answers,
           H!Run, H!Connection
<1>1. ASSUME H!Enable PROVE H!Uploading'
  BY <1>1
     DEF H!Enable, H!Offer
<1>2. ASSUME H!Expire PROVE H!Uploading'
  BY <1>2
     DEF H!Expire
<1>3. ASSUME H!Status PROVE H!Uploading'
  BY <1>3
     DEF H!Status, H!Invalidate, H!Invalidated, H!Offer
<1>4. ASSUME H!Cancel PROVE H!Uploading'
  BY <1>4
     DEF H!Cancel, H!Invalidate, H!Invalidated, H!Offer
<1>5. ASSUME H!Install PROVE H!Uploading'
  BY <1>5
     DEF H!Install, H!Ended, H!NoAdmission
<1>6. ASSUME H!AdmissionFails PROVE H!Uploading'
  BY <1>6
     DEF H!AdmissionFails, H!Ended, H!NoAdmission
<1>7. ASSUME H!AdmissionCancelled PROVE H!Uploading'
  BY <1>7
     DEF H!AdmissionCancelled, H!Ended, H!NoAdmission
<1>8. ASSUME NEW h \in Helpers, H!ArriveRefused(h) PROVE H!Uploading'
  BY <1>8
     DEF H!ArriveRefused
<1>9. ASSUME NEW h \in Helpers, H!ArriveInvalid(h) PROVE H!Uploading'
  BY <1>9
     DEF H!ArriveInvalid, H!Refused
<1>10. ASSUME NEW h \in Helpers, H!Arrive(h) PROVE H!Uploading'
  BY <1>10
     DEF H!Arrive, H!Refused
<1>11. ASSUME NEW h \in Helpers, H!Connect(h) PROVE H!Uploading'
  BY <1>11
     DEF H!Connect, H!Report
<1>12. ASSUME NEW h \in Helpers, H!SignIn(h) PROVE H!Uploading'
  BY <1>12
     DEF H!SignIn, H!Goto, H!Report
<1>13. ASSUME NEW h \in Helpers, H!Answer(h) PROVE H!Uploading'
  BY <1>13
     DEF H!Answer, H!Cleanup, H!Goto, H!Report
<1>14. ASSUME NEW h \in Helpers, H!NoAnswer(h) PROVE H!Uploading'
  BY <1>14
     DEF H!NoAnswer, H!Goto
<1>15. ASSUME NEW h \in Helpers, H!Poll(h) PROVE H!Uploading'
  BY <1>15
     DEF H!Poll, H!IsFailure, H!Receipt, H!Cleanup, H!Report
<1>16. ASSUME NEW h \in Helpers, H!PollFails(h) PROVE H!Uploading'
  BY <1>16
     DEF H!PollFails
<1>17. ASSUME NEW h \in Helpers, H!GiveUp(h) PROVE H!Uploading'
  BY <1>17
     DEF H!GiveUp, H!Report
<1>18. ASSUME UNCHANGED H!vars PROVE H!Uploading'
  BY <1>18 DEF H!vars
<1> QED
  BY <1>1, <1>2, <1>3, <1>4, <1>5, <1>6, <1>7, <1>8, <1>9, <1>10, <1>11,
     <1>12, <1>13, <1>14, <1>15, <1>16, <1>17, <1>18 DEF H!Next

LEMMA HelperOffering ==
    ASSUME H!ConstantsOK, H!Inv, H!Next \/ UNCHANGED H!vars
    PROVE  H!Offering'
<1> USE DEF H!ConstantsOK, H!Inv, H!Types, H!Uploading, H!Offering, H!Admitting, H!HasTicket,
           H!Run, H!Connection
<1>1. ASSUME H!Enable PROVE H!Offering'
  BY <1>1
     DEF H!Enable, H!Offer
<1>2. ASSUME H!Expire PROVE H!Offering'
  BY <1>2
     DEF H!Expire
<1>3. ASSUME H!Status PROVE H!Offering'
  BY <1>3
     DEF H!Status, H!Invalidate, H!Invalidated, H!Offer
<1>4. ASSUME H!Cancel PROVE H!Offering'
  BY <1>4
     DEF H!Cancel, H!Invalidate, H!Invalidated, H!Offer
<1>5. ASSUME H!Install PROVE H!Offering'
  BY <1>5
     DEF H!Install, H!Ended, H!NoAdmission
<1>6. ASSUME H!AdmissionFails PROVE H!Offering'
  BY <1>6
     DEF H!AdmissionFails, H!Ended, H!NoAdmission
<1>7. ASSUME H!AdmissionCancelled PROVE H!Offering'
  BY <1>7
     DEF H!AdmissionCancelled, H!Ended, H!NoAdmission
<1>8. ASSUME NEW h \in Helpers, H!ArriveRefused(h) PROVE H!Offering'
  BY <1>8
     DEF H!ArriveRefused
<1>9. ASSUME NEW h \in Helpers, H!ArriveInvalid(h) PROVE H!Offering'
  BY <1>9
     DEF H!ArriveInvalid, H!Refused
<1>10. ASSUME NEW h \in Helpers, H!Arrive(h) PROVE H!Offering'
  BY <1>10
     DEF H!Arrive, H!Refused
<1>11. ASSUME NEW h \in Helpers, H!Connect(h) PROVE H!Offering'
  BY <1>11
     DEF H!Connect, H!Report
<1>12. ASSUME NEW h \in Helpers, H!SignIn(h) PROVE H!Offering'
  <2>1. UNCHANGED <<s1, s2, s5>>
    BY <1>12 DEF H!SignIn
  <2>2. ASSUME NEW k \in Helpers, H!HasTicket(k)', s1.error = "definite"
        PROVE  s4'[k] = "definite"
    <3>1. s3'[k].attempt = s3[k].attempt
      BY <1>12 DEF H!SignIn, H!Goto, H!Report
    <3>2. s4[k] = "definite"
      BY <2>1, <2>2, <3>1
    <3>3. k # h
      BY <1>12, <3>2 DEF H!SignIn
    <3> QED
      BY <1>12, <3>2, <3>3 DEF H!SignIn
  <2>3. H!Admitting' <=> H!Admitting
    BY <2>1
  <2> QED
    BY <2>1, <2>2, <2>3
<1>13. ASSUME NEW h \in Helpers, H!Answer(h) PROVE H!Offering'
  BY <1>13
     DEF H!Answer, H!Cleanup, H!Goto, H!Report
<1>14. ASSUME NEW h \in Helpers, H!NoAnswer(h) PROVE H!Offering'
  BY <1>14
     DEF H!NoAnswer, H!Goto
<1>15. ASSUME NEW h \in Helpers, H!Poll(h) PROVE H!Offering'
  BY <1>15
     DEF H!Poll, H!IsFailure, H!Receipt, H!Cleanup, H!Report
<1>16. ASSUME NEW h \in Helpers, H!PollFails(h) PROVE H!Offering'
  BY <1>16
     DEF H!PollFails
<1>17. ASSUME NEW h \in Helpers, H!GiveUp(h) PROVE H!Offering'
  BY <1>17
     DEF H!GiveUp, H!Report
<1>18. ASSUME UNCHANGED H!vars PROVE H!Offering'
  BY <1>18 DEF H!vars
<1> QED
  BY <1>1, <1>2, <1>3, <1>4, <1>5, <1>6, <1>7, <1>8, <1>9, <1>10, <1>11,
     <1>12, <1>13, <1>14, <1>15, <1>16, <1>17, <1>18 DEF H!Next


LEMMA HelperStays == HelperInv /\ [Next]_all => HelperInv'
<1> SUFFICES ASSUME HelperInv, [Next]_all, which' = "helper" PROVE H!Inv'
  BY DEF HelperInv
<1>1. which = "helper" /\ H!Inv /\ H!ConstantsOK
  BY ServicesAssumption DEF HelperInv, Next, ServicesAssumption
<1>2. H!Next \/ UNCHANGED H!vars
  BY <1>1 DEF Next, H!vars
<1> QED
  BY <1>1, <1>2, HelperTypes, HelperUploading, HelperOffering DEF H!Inv

(* A helper reports success only of a session that was installed, its own,  *)
(* and failure only of one that never is, whatever is delayed, lost or      *)
(* cancelled on the way.                                                     *)
THEOREM ReportsAreTrueAlways == Spec => []ReportsAreTrue
<1>1. HelperInv => ReportsAreTrue
  BY DEF HelperInv, ReportsAreTrue, H!Inv, H!Uploading, H!ReportsAreTrue
<1> QED
  BY <1>1, HelperStarts, HelperStays, PTL DEF Spec

-----------------------------------------------------------------------------
(* LoginBrowser: who waits for a cleanup, and what it has not done yet.      *)

BrowserInv == which = "browser" => B!Inv

LEMMA BrowserStarts == Init => BrowserInv
<1> SUFFICES ASSUME Init, which = "browser" PROVE B!Inv
  BY DEF BrowserInv
<1>1. B!Init
  BY DEF Init
<1> QED
  BY <1>1 DEF B!Init, B!Inv, B!Types, B!Cleaning, B!Running, B!Left, B!NoCleanup, B!Cleanup,
     B!Using

LEMMA BrowserNext ==
    ASSUME B!Inv, B!Next PROVE B!Inv'
<1> USE DEF B!Inv, B!Types, B!Cleaning, B!Running, B!Left, B!Cleanup, B!Using, B!Desktop,
        B!Goto
<1>1. CASE B!Start
  BY <1>1 DEF B!Start, B!NoCleanup
<1>2. CASE B!StartProcess
  BY <1>2 DEF B!StartProcess
<1>3. CASE B!DesktopReady
  BY <1>3 DEF B!DesktopReady
<1>4. CASE B!BrowserStarts
  BY <1>4 DEF B!BrowserStarts
<1>5. CASE B!Capture
  BY <1>5 DEF B!Capture
<1>6. CASE B!CaptureStarts
  BY <1>6 DEF B!CaptureStarts
<1>7. CASE B!Captured
  BY <1>7 DEF B!Captured
<1>8. CASE B!Cancel
  BY <1>8 DEF B!Cancel
<1>9. CASE B!Close
  BY <1>9 DEF B!Close
<1>10. CASE B!StopBrowser
  BY <1>10 DEF B!StopBrowser, B!Ends, B!Stays
<1>11. CASE B!StopDesktop
  <2>1. s5.desktop = "stop" /\ UNCHANGED <<s1, s4>>
    BY <1>11 DEF B!StopDesktop
  <2>2. s1 = "close desktop" /\ "browser" \notin s3
    BY <2>1
  <2>3. CASE /\ \E p \in s3 \cap B!Desktop : s3' = s3 \ {p}
             /\ s6 \subseteq s6' /\ UNCHANGED s5
    BY <2>1, <2>2, <2>3
  <2>4. CASE /\ s3 \cap B!Desktop = {} /\ s5' = [s5 EXCEPT !.desktop = "remove"]
             /\ UNCHANGED <<s3, s6>>
    <3>1. s3 = {}
      BY <2>2, <2>4
    <3> QED
      BY <2>1, <2>2, <2>4, <3>1
  <2> QED
    BY <1>11, <2>3, <2>4 DEF B!StopDesktop, B!Ends, B!Stays
<1>12. CASE B!Remove
  BY <1>12 DEF B!Remove
<1>13. CASE B!BrowserClosed
  BY <1>13 DEF B!BrowserClosed, B!Drained
<1>14. CASE B!DesktopClosed
  BY <1>14 DEF B!DesktopClosed, B!Drained
<1> QED
  BY <1>1, <1>2, <1>3, <1>4, <1>5, <1>6, <1>7, <1>8, <1>9, <1>10, <1>11, <1>12, <1>13, <1>14
  DEF B!Next

LEMMA BrowserStays == BrowserInv /\ [Next]_all => BrowserInv'
<1> SUFFICES ASSUME BrowserInv, [Next]_all, which' = "browser" PROVE B!Inv'
  BY DEF BrowserInv
<1>1. which = "browser" /\ B!Inv
  BY DEF BrowserInv, Next, all
<1>2. B!Next \/ UNCHANGED B!vars
  BY <1>1 DEF Next, B!vars, all, slots
<1>3. CASE B!Next
  BY <1>1, <1>3, BrowserNext
<1>4. CASE UNCHANGED B!vars
  BY <1>1, <1>4 DEF B!vars, B!Inv, B!Types, B!Cleaning, B!Running, B!Left, B!Using
<1> QED
  BY <1>2, <1>3, <1>4

-----------------------------------------------------------------------------
(* NativeBrowser: what run has at each of its awaits, and what close still    *)
(* has to do.                                                                *)

NativeInv == which = "native" => N!Inv

LEMMA NativeInit == N!Init => N!Inv
  BY DEF N!Init, N!Inv, N!Types, N!Using, N!Owned, N!Cleaning, N!Ending, N!Once

LEMMA NativeNext == N!Inv /\ [N!Next]_(N!vars) => N!Inv'
<1> SUFFICES ASSUME N!Inv, [N!Next]_(N!vars) PROVE N!Inv'
  OBVIOUS
<1> USE DEF N!Inv, N!Types, N!Using, N!Owned, N!Cleaning, N!Ending, N!Once
<1>1. ASSUME NEW b \in s3, N!BrowserEnds(b) PROVE N!Inv'
  <2>1. N!Types'
    BY <1>1 DEF N!BrowserEnds
  <2>2. N!Owned'
    BY <1>1 DEF N!BrowserEnds
  <2>3. N!Cleaning'
    BY <1>1 DEF N!BrowserEnds
  <2>4. N!Ending'
    BY <1>1 DEF N!BrowserEnds
  <2> QED
    BY <2>1, <2>2, <2>3, <2>4
<1>2. CASE N!Terminated
  <2>1. N!Types'
    BY <1>2 DEF N!Terminated
  <2>2. N!Owned'
    BY <1>2 DEF N!Terminated
  <2>3. N!Cleaning'
    BY <1>2 DEF N!Terminated
  <2>4. N!Ending'
    BY <1>2 DEF N!Terminated
  <2> QED
    BY <2>1, <2>2, <2>3, <2>4
<1>13. CASE N!Interrupted
  <2>1. N!Types'
    BY <1>13 DEF N!Interrupted
  <2>2. N!Owned'
    BY <1>13 DEF N!Interrupted
  <2>3. N!Cleaning'
    BY <1>13 DEF N!Interrupted
  <2>4. N!Ending'
    BY <1>13 DEF N!Interrupted
  <2> QED
    BY <2>1, <2>2, <2>3, <2>4
<1>14. CASE N!Abandoned
  <2>1. N!Types'
    BY <1>14 DEF N!Abandoned
  <2>2. N!Owned'
    BY <1>14 DEF N!Abandoned
  <2>3. N!Cleaning'
    BY <1>14 DEF N!Abandoned
  <2>4. N!Ending'
    BY <1>14 DEF N!Abandoned
  <2> QED
    BY <2>1, <2>2, <2>3, <2>4
<1>3. CASE N!Refused
  BY <1>3 DEF N!Refused
<1>4. CASE N!Opened
  BY <1>4 DEF N!Opened
<1>5. CASE N!Restarts
  BY <1>5 DEF N!Restarts, N!EndedInOrder
<1>6. CASE N!Ready \/ N!SignedIn \/ N!Captured \/ N!Sent
  <2>1. CASE N!Ready
    BY <2>1 DEF N!Ready, N!Proceeds
  <2>2. CASE N!SignedIn
    BY <2>2 DEF N!SignedIn, N!Proceeds
  <2>3. CASE N!Captured
    BY <2>3 DEF N!Captured, N!Proceeds
  <2>4. CASE N!Sent
    BY <2>4 DEF N!Sent, N!Proceeds
  <2> QED
    BY <1>6, <2>1, <2>2, <2>3, <2>4
<1>7. CASE N!Fails
  BY <1>7 DEF N!Fails
<1>8. CASE N!CloseBegins
  <2>1. N!Types'
    BY <1>8 DEF N!CloseBegins
  <2>2. N!Owned'
    BY <1>8 DEF N!CloseBegins
  <2>3. N!Cleaning'
    BY <1>8 DEF N!CloseBegins
  <2>4. N!Ending'
    BY <1>8 DEF N!CloseBegins
  <2> QED
    BY <2>1, <2>2, <2>3, <2>4
<1>15. CASE N!Asked
  <2>1. N!Types'
    BY <1>15 DEF N!Asked
  <2>2. N!Owned'
    BY <1>15 DEF N!Asked
  <2>3. N!Cleaning'
    BY <1>15 DEF N!Asked
  <2>4. N!Ending'
    BY <1>15 DEF N!Asked
  <2> QED
    BY <2>1, <2>2, <2>3, <2>4
<1>9. CASE N!Waited
  BY <1>9 DEF N!Waited
<1>10. CASE N!Removed
  BY <1>10 DEF N!Removed
<1>11. CASE N!Closed
  <2>1. N!Types'
    BY <1>11 DEF N!Closed, N!Drained
  <2>2. N!Owned'
    BY <1>11 DEF N!Closed, N!Drained
  <2>3. N!Cleaning'
    BY <1>11 DEF N!Closed, N!Drained
  <2>4. N!Ending'
    BY <1>11 DEF N!Closed, N!Drained
  <2> QED
    BY <2>1, <2>2, <2>3, <2>4
<1>12. CASE UNCHANGED N!vars
  <2>1. N!Types'
    BY <1>12 DEF N!vars
  <2>2. N!Owned'
    BY <1>12 DEF N!vars
  <2>3. N!Cleaning'
    BY <1>12 DEF N!vars
  <2>4. N!Ending'
    BY <1>12 DEF N!vars
  <2> QED
    BY <2>1, <2>2, <2>3, <2>4
<1> QED
  BY <1>1, <1>2, <1>3, <1>4, <1>5, <1>6, <1>7, <1>8, <1>9, <1>10, <1>11, <1>12, <1>13,
     <1>14, <1>15 DEF N!Next

LEMMA NativeSuffices == N!Inv => N!NothingOutlivesTheHelper
<1> SUFFICES ASSUME N!Inv PROVE N!NothingOutlivesTheHelper
  OBVIOUS
<1>1. s1 = "over" /\ s12 # "not cleaned up" /\ N!Once => s3 = {} /\ s6 = "none"
  BY DEF N!Inv, N!Types, N!Cleaning, N!Ending
<1>2. Cardinality(s3) <= 1
  <2>1. Cardinality({}) <= 1 /\ \A x : Cardinality({x}) <= 1
    BY FS_EmptySet, FS_Singleton
  <2>2. s3 = {} \/ \E b : s3 = {b}
    BY DEF N!Inv, N!Types
  <2> QED
    BY <2>1, <2>2
<1>3. s12 = "success" => s11
  BY DEF N!Inv, N!Ending
<1>4. s1 \in {"capture", "send"} => s5 /\ s6 = "signed in"
  BY DEF N!Inv, N!Owned
<1>5. N!Cardinality(s3) = Cardinality(s3)
  BY DEF N!Cardinality, Cardinality, N!IsFiniteSet, IsFiniteSet
<1> QED
  BY <1>1, <1>2, <1>3, <1>4, <1>5 DEF N!NothingOutlivesTheHelper

LEMMA NativeStarts == Init => NativeInv
  BY NativeInit DEF Init, NativeInv

LEMMA NativeStays == NativeInv /\ [Next]_all => NativeInv'
<1> SUFFICES ASSUME NativeInv, [Next]_all, which' = "native" PROVE N!Inv'
  BY DEF NativeInv
<1>1. which = "native" /\ N!Inv
  BY DEF NativeInv, Next, all
<1>2. [N!Next]_(N!vars)
  BY <1>1 DEF Next, N!vars, all, slots
<1> QED
  BY <1>1, <1>2, NativeNext

(* A login that is over leaves no process and no directory behind, but what  *)
(* could not be ended, whatever cancels it at whatever await.                *)
THEOREM NothingOutlivesTheRunAlways == Spec => []NothingOutlivesTheRun
<1>1. B!Inv => B!NothingOutlivesTheRun
  <2> SUFFICES ASSUME B!Inv PROVE B!NothingOutlivesTheRun
    OBVIOUS
  <2> USE DEF B!Inv, B!Types, B!Cleaning, B!Running, B!Left, B!Using
  <2>1. "browser" \in s3 => B!Desktop \subseteq s3 /\ {"profile", "display"} \subseteq s4
    OBVIOUS
  <2>2. s3 # {} => "display" \in s4
    <3>1. s3 # {} => s1 # "over"
      OBVIOUS
    <3>2. s1 = "close desktop" /\ s3 # {} => s5.desktop = "stop"
      BY DEF B!Cleanup
    <3> QED
      BY <3>1, <3>2
  <2>3. ASSUME s1 = "over", NEW d \in s4
        PROVE  d \in s6 \/ ("browser" \in s6 /\ d = "profile")
    BY <2>3
  <2> QED
    BY <2>1, <2>2, <2>3 DEF B!NothingOutlivesTheRun
<1>2. N!Inv => N!NothingOutlivesTheHelper
  BY NativeSuffices
<1>3. BrowserInv /\ NativeInv => NothingOutlivesTheRun
  BY <1>1, <1>2 DEF BrowserInv, NativeInv, NothingOutlivesTheRun
<1> QED
  BY <1>3, BrowserStarts, BrowserStays, NativeStarts, NativeStays, PTL DEF Spec
-----------------------------------------------------------------------------
(* Logins: who may install, what is shown and what is offered.               *)

LoginsInv == which = "logins" => L!Inv

LEMMA LoginsStart == Init => LoginsInv
<1> SUFFICES ASSUME Init, which = "logins" PROVE L!Inv
  BY DEF LoginsInv
<1>1. L!Init
  BY DEF Init
<1> QED
  BY <1>1 DEF L!Init, L!Inv, L!Shapes, L!Replacing, L!Showing, L!Offering, L!NoTask, L!Disabled,
     L!Running, L!Closers, L!Requests

\* ContainerLogin.request_login, of the login as it is or idle: a run begins at most where
\* there is none, and outdates the token.
LEMMA LoginsRequest ==
    ASSUME L!Shapes, NEW l, DOMAIN l = {"state", "needed"}, L!RequestLogin(l)
    PROVE  /\ DOMAIN s4' = {"state", "needed"} /\ s4'.needed = TRUE
           /\ DOMAIN s5' = DOMAIN s5 /\ DOMAIN s8' = DOMAIN s8 /\ s8'.pc = s8.pc
           /\ \/ s4'.state = l.state /\ s5' = s5 /\ s8' = s8
              \/ s5.pc = "none" /\ s5'.pc # "none" /\ s8'.current = FALSE /\ s4'.state = "starting"
<1>1. CASE L!CanStart(l)
  BY <1>1 DEF L!RequestLogin, L!CanStart, L!Running, L!Outdated, L!NoTask, L!Shapes
<1>2. CASE ~L!CanStart(l)
  BY <1>2 DEF L!RequestLogin
<1> QED
  BY <1>1, <1>2

\* What a new session ends: the helper is not awaited, or nothing has changed.
LEMMA LoginsHelperNotices ==
    ASSUME L!Shapes, L!HelperNotices
    PROVE  /\ DOMAIN s6' = DOMAIN s6 /\ DOMAIN s7' = DOMAIN s7 /\ s7'.pc = s7.pc
           /\ UNCHANGED <<s6, s7>> \/ s6'.state = "disabled"
           /\ s7.current = s7'.current \/ s7'.current = FALSE
<1> DEFINE gone == L!Replaced(s7)
<1>1. DOMAIN gone = DOMAIN s7 /\ gone.pc = s7.pc /\ gone.current \in {s7.current, FALSE}
  BY DEF L!Shapes, L!Replaced
<1>2. /\ DOMAIN L!Disabled = {"state", "live", "ticket", "gen", "refused"}
      /\ L!Disabled.state = "disabled"
  BY DEF L!Disabled
<1>3. UNCHANGED <<s6, s7>> \/ (s6' = L!Disabled /\ s7' = gone)
  BY DEF L!HelperNotices
<1> HIDE DEF gone
<1> QED
  BY <1>1, <1>2, <1>3 DEF L!Shapes

LEMMA LoginsBrowserNotices ==
    ASSUME L!Shapes, L!BrowserNotices
    PROVE  /\ DOMAIN s4' = DOMAIN s4 /\ s4'.state = s4.state
           /\ DOMAIN s5' = DOMAIN s5 /\ s5'.pc = s5.pc /\ s5'.current = s5.current
<1> QED
  BY DEF L!BrowserNotices, L!Shapes

\* The browser is closed: the request does what it is for.
LEMMA LoginsAfterBrowser ==
    ASSUME L!Inv, NEW o \in {"enable", "logout", "token", "shutdown"}, L!AfterBrowser(o),
           s5.pc = "none", UNCHANGED <<s1, s3, s5, s7>>, o = "token" => s8.pc = "none",
           s12' = s12 \/ (s12' = s12 \cup {"token"} /\ s8.pc # "none")
    PROVE  L!Inv'
<1> USE DEF L!Inv, L!Shapes, L!Replacing, L!Showing, L!Offering, L!NoTask, L!Disabled, L!Running,
        L!Closers, L!Requests, L!Selected
<1>1. /\ s4' = [state |-> IF o = "token" THEN "verifying" ELSE "idle", needed |-> FALSE]
      /\ IF o = "enable" THEN L!Enable ELSE s6' = L!Disabled
      /\ s8' = CASE o = "token" -> L!Admitted
                 [] o \in {"logout", "shutdown"} -> L!Replaced(s8)
                 [] OTHER -> L!Outdated(s8)
      /\ s9' = [s9 EXCEPT ![o] = CASE o = "logout" -> "controller" [] o = "shutdown" -> "done"
                                 [] OTHER -> "idle"]
      /\ s11' = IF o = "shutdown" THEN {"helper", "browser", "controller"} ELSE s11
  BY DEF L!AfterBrowser, L!Suspend, L!Leave, L!Stopping
<1>2. /\ DOMAIN s6' = {"state", "live", "ticket", "gen", "refused"}
      /\ s6'.state \in {"waiting", "disabled"}
      /\ o = "enable" /\ ~s1 /\ s11 = {} => s6'.state = "waiting" \/ s6'.refused
  <2>1. CASE o = "enable" /\ s6' = [L!Disabled EXCEPT !.state = "waiting", !.live = TRUE, !.gen = s2]
    <3>1. s6' = [state |-> "waiting", live |-> TRUE, ticket |-> FALSE, gen |-> s2, refused |-> FALSE]
      BY <2>1
    <3> QED
      BY <3>1
  <2>2. CASE s6' = [L!Disabled EXCEPT !.refused = ~s1 /\ "helper" \notin s11]
    <3>1. s6' = [state |-> "disabled", live |-> FALSE, ticket |-> FALSE, gen |-> 0,
                 refused |-> ~s1 /\ "helper" \notin s11]
      BY <2>2
    <3>2. s6'.refused = (~s1 /\ "helper" \notin s11)
      BY <3>1
    <3> QED
      BY <3>1, <3>2
  <2>3. CASE o # "enable" /\ s6' = L!Disabled
    BY <2>3
  <2> QED
    BY <1>1, <2>1, <2>2, <2>3 DEF L!Enable
<1>3. CASE o = "token"
  BY <1>1, <1>2, <1>3 DEF L!Admitted
<1>4. CASE o # "token"
  <2>1. DOMAIN s8' = DOMAIN s8 /\ s8'.pc = s8.pc /\ (s8.pc # "none" => s8'.current = FALSE)
    BY <1>1, <1>4 DEF L!Replaced, L!Outdated
  <2>2. L!Shapes' /\ L!Replacing' /\ L!Showing'
    BY <1>1, <1>2, <1>4, <2>1
  <2>3. L!Offering'
    <3>1. CASE o = "enable"
      BY <1>1, <1>2, <3>1
    <3>2. CASE o = "logout"
      BY <1>1, <1>2, <3>2
    <3>3. CASE o = "shutdown"
      BY <1>1, <1>2, <3>3
    <3> QED
      BY <1>4, <3>1, <3>2, <3>3
  <2> QED
    BY <2>2, <2>3
<1> QED
  BY <1>3, <1>4

LEMMA LoginsCloseBrowser ==
    ASSUME L!Inv, NEW o \in {"enable", "logout", "token", "shutdown"}, L!CloseBrowser(o),
           UNCHANGED <<s1, s3, s7>>, o = "token" => s8.pc = "none",
           s12' = s12 \cup (IF s5.pc # "none" THEN {"run"} ELSE {})
                      \cup (IF s8.pc # "none" THEN {"token"} ELSE {})
    PROVE  L!Inv'
<1>1. CASE ~L!Running(s5)
  BY <1>1, LoginsAfterBrowser DEF L!CloseBrowser, L!Running
<1>2. CASE L!Running(s5)
  <2>1. /\ s5' = L!Replaced(s5) /\ s4' = [s4 EXCEPT !.needed = FALSE]
        /\ s8' = L!Outdated(s8) /\ s6' = L!Disabled
        /\ s9' = [s9 EXCEPT ![o] = "browser"]
    BY <1>2 DEF L!CloseBrowser, L!Suspend
  <2> QED
    BY <1>2, <2>1 DEF L!Inv, L!Shapes, L!Replacing, L!Showing, L!Offering, L!Disabled, L!Running,
       L!Closers, L!Requests, L!Selected, L!Replaced, L!Outdated
<1> QED
  BY <1>1, <1>2

LEMMA LoginsAfterHelper ==
    ASSUME L!Inv, NEW o \in L!Closers, L!AfterHelper(o), UNCHANGED <<s1, s3, s7>>,
           o = "token" => s8.pc = "none"
    PROVE  L!Inv'
<1>1. CASE o = "cancel"
  <2>1. /\ s6' = L!Disabled /\ s9' = [s9 EXCEPT !["cancel"] = "idle"]
        /\ UNCHANGED <<s11, s12>>
        /\ L!RequestLogin(s4) \/ (~s3 /\ UNCHANGED <<s4, s5, s8>>)
    BY <1>1 DEF L!AfterHelper, L!Leave
  <2> USE DEF L!Inv, L!Shapes, L!Replacing, L!Showing, L!Offering, L!Disabled, L!Running,
          L!Closers, L!Requests, L!Selected
  <2>2. CASE L!RequestLogin(s4)
    BY <2>1, <2>2, LoginsRequest
  <2>3. CASE ~s3 /\ UNCHANGED <<s4, s5, s8>>
    BY <2>1, <2>3
  <2> QED
    BY <2>1, <2>2, <2>3
<1>2. CASE o # "cancel"
  BY <1>2, LoginsCloseBrowser DEF L!AfterHelper, L!Running, L!Closers, L!Requests
<1> QED
  BY <1>1, <1>2

LEMMA LoginsCloseHelper ==
    ASSUME L!Inv, NEW o \in L!Closers, L!CloseHelper(o), UNCHANGED <<s1, s3>>,
           o = "token" => s8.pc = "none"
    PROVE  L!Inv'
<1>1. CASE ~L!Running(s7)
  BY <1>1, LoginsAfterHelper DEF L!CloseHelper
<1>2. CASE L!Running(s7)
  <2>1. /\ s7' = L!Replaced(s7) /\ s12' = s12 \cup {"accept"} /\ s6' = L!Disabled
        /\ s9' = [s9 EXCEPT ![o] = "helper"] /\ UNCHANGED <<s4, s5, s8>>
    BY <1>2 DEF L!CloseHelper, L!Suspend
  <2> QED
    BY <1>2, <2>1 DEF L!Inv, L!Shapes, L!Replacing, L!Showing, L!Offering, L!Disabled, L!Running,
       L!Closers, L!Requests, L!Selected, L!Replaced
<1> QED
  BY <1>1, <1>2

LEMMA LoginsNext == ASSUME L!Inv, L!Next PROVE L!Inv'
<1> USE DEF L!Inv, L!Shapes, L!Replacing, L!Showing, L!Offering, L!NoTask, L!Disabled, L!Running,
        L!Closers, L!Requests, L!Selected, L!session, L!tasks, L!doing
<1>1. CASE L!Ask
  <2>1. /\ UNCHANGED <<s7, s9, s12>> /\ DOMAIN s6' = DOMAIN s6 /\ s6'.state = s6.state
    BY <1>1 DEF L!Ask
  <2>2. CASE L!Selected
    BY <1>1, <2>1, <2>2 DEF L!Ask
  <2>3. CASE ~L!Selected
    <3>1. L!RequestLogin(s4)
      BY <1>1, <2>3 DEF L!Ask
    <3> QED
      BY <2>1, <3>1, LoginsRequest
  <2> QED
    BY <2>2, <2>3
<1>2. CASE L!Unask
  BY <1>2 DEF L!Unask
<1>3. CASE L!Expire
  BY <1>3 DEF L!Expire
<1>4. CASE L!Renewed
  <2>1. s1' = TRUE /\ UNCHANGED <<s8, s9, s12>> /\ L!BrowserNotices /\ L!HelperNotices
    BY <1>4 DEF L!Renewed, L!Install
  <2> QED
    BY <2>1, LoginsHelperNotices, LoginsBrowserNotices
<1>5. CASE L!RunStarted
  BY <1>5 DEF L!RunStarted, L!OthersUnchanged
<1>6. CASE L!RunSignedIn
  BY <1>6 DEF L!RunSignedIn, L!OthersUnchanged, L!RunGoes
<1>7. CASE L!RunCaptured
  BY <1>7 DEF L!RunCaptured, L!OthersUnchanged, L!RunGoes
<1>8. CASE L!RunInstalls
  <2>1. /\ s1' = TRUE /\ UNCHANGED <<s8, s9, s12>> /\ L!HelperNotices
        /\ s4' = [s4 EXCEPT !.needed = FALSE] /\ s5' = [s5 EXCEPT !.pc = "leave"]
    BY <1>8 DEF L!RunInstalls, L!Install, L!RunGoes
  <2> QED
    BY <2>1, LoginsHelperNotices
<1>9. CASE L!RunFails
  BY <1>9 DEF L!RunFails, L!OthersUnchanged
<1>10. CASE L!RunEnds
  BY <1>10 DEF L!RunEnds, L!OthersUnchanged
<1>11. CASE L!Retry
  BY <1>11 DEF L!Retry, L!RequestLogin, L!CanStart, L!Outdated
<1>12. CASE L!Lapse
  BY <1>12 DEF L!Lapse, L!HelperOnly
<1>13. CASE L!Polled
  <2>1. /\ DOMAIN s6' = DOMAIN L!Disabled /\ s6'.state \in {"disabled", "error"}
        /\ (L!Selected => s6'.state = "error") /\ s6'.refused = s6.refused
    BY <1>13 DEF L!Polled
  <2>2. s7' = L!Replaced(s7) /\ UNCHANGED <<s1, s3, s4, s5, s8, s9, s11, s12>>
    BY <1>13 DEF L!Polled, L!HelperOnly
  <2>3. L!Shapes'
    BY <2>1, <2>2 DEF L!Replaced
  <2>4. L!Replacing'
    BY <2>2 DEF L!Replaced
  <2>5. L!Showing'
    BY <2>1, <2>2 DEF L!Replaced
  <2>6. L!Offering'
    BY <2>1, <2>2
  <2> QED
    BY <2>3, <2>4, <2>5, <2>6
<1>14. CASE L!Connect
  BY <1>14 DEF L!Connect, L!HelperOnly
<1>15. CASE L!Submit
  BY <1>15 DEF L!Submit, L!HelperOnly, L!Admitted
<1>16. CASE L!AcceptInstalls
  BY <1>16 DEF L!AcceptInstalls, L!Authorized, L!Install, L!BrowserNotices, L!AcceptOver
<1>17. CASE L!AcceptFails
  BY <1>17 DEF L!AcceptFails, L!HelperOnly, L!AcceptOver
<1>18. CASE L!TokenInstalls
  <2>1. /\ s1' = TRUE /\ UNCHANGED <<s5, s9>> /\ L!HelperNotices
        /\ s4' = [s4 EXCEPT !.state = "idle"] /\ s8' = L!NoTask /\ s12' = s12 \ {"token"}
    BY <1>18 DEF L!TokenInstalls, L!Install, L!TokenOver
  <2> QED
    BY <2>1, LoginsHelperNotices
<1>19. CASE L!TokenFails
  BY <1>19 DEF L!TokenFails, L!TokenOver
<1>20. CASE L!LoggedOut
  <2>1. /\ s3' = FALSE /\ UNCHANGED <<s6, s7, s12>>
        /\ s9' = [s9 EXCEPT !["logout"] = "idle"]
    BY <1>20 DEF L!LoggedOut, L!Leave
  <2>2. CASE L!RequestLogin(s4)
    BY <2>1, <2>2, LoginsRequest
  <2>3. CASE UNCHANGED <<s4, s5, s8>>
    BY <2>1, <2>3
  <2> QED
    BY <1>20, <2>2, <2>3 DEF L!LoggedOut
<1>21. CASE L!Shutdown
  <2>1. L!CloseHelper("shutdown") /\ UNCHANGED <<s1, s3>>
    BY <1>21 DEF L!Shutdown, L!session
  <2> HIDE DEF L!Inv
  <2> QED
    BY <2>1, LoginsCloseHelper
<1>22. ASSUME NEW o \in L!Requests, L!Requested(o) PROVE L!Inv'
  BY <1>22 DEF L!Requested
<1>23. ASSUME NEW o \in L!Requests, L!Locked(o) PROVE L!Inv'
  <2>1. s9[o] = "lock" /\ UNCHANGED <<s1, s3>>
    BY <1>23 DEF L!Locked
  <2>2. CASE L!CloseHelper(o)
    <3>1. o = "token" => s8.pc = "none"
      BY <2>1
    <3> HIDE DEF L!Inv
    <3> QED
      BY <2>1, <2>2, <3>1, LoginsCloseHelper
  <2>3. CASE L!Leave(o) /\ UNCHANGED <<s4, s5, s6, s7, s8, s11, s12>>
    BY <2>1, <2>3 DEF L!Leave
  <2> QED
    BY <1>23, <2>2, <2>3 DEF L!Locked
<1>24. ASSUME NEW o \in L!Closers, L!HelperClosed(o) PROVE L!Inv'
  <2>1. s9[o] = "helper" /\ UNCHANGED <<s1, s3, s7>> /\ L!AfterHelper(o)
    BY <1>24 DEF L!HelperClosed
  <2>2. o = "token" => s8.pc = "none"
    BY <2>1
  <2> HIDE DEF L!Inv
  <2> QED
    BY <2>1, <2>2, LoginsAfterHelper
<1>25. ASSUME NEW o \in L!Closers, L!BrowserClosed(o) PROVE L!Inv'
  <2>1. /\ s9[o] = "browser" /\ UNCHANGED <<s1, s3, s5, s7, s12>> /\ L!AfterBrowser(o)
        /\ s5.pc = "none"
    BY <1>25 DEF L!BrowserClosed
  <2>2. (o = "token" => s8.pc = "none") /\ o # "cancel"
    BY <2>1
  <2> HIDE DEF L!Inv
  <2> QED
    BY <2>1, <2>2, LoginsAfterBrowser
<1> QED
  BY <1>1, <1>2, <1>3, <1>4, <1>5, <1>6, <1>7, <1>8, <1>9, <1>10, <1>11, <1>12, <1>13, <1>14, <1>15, <1>16, <1>17, <1>18, <1>19, <1>20, <1>21, <1>22, <1>23, <1>24, <1>25
  DEF L!Next, L!SessionStep, L!BrowserStep, L!HelperStep, L!TokenStep, L!RequestStep

LEMMA LoginsStay == LoginsInv /\ [Next]_all => LoginsInv'
<1> SUFFICES ASSUME LoginsInv, [Next]_all, which' = "logins" PROVE L!Inv'
  BY DEF LoginsInv
<1>1. which = "logins" /\ L!Inv
  BY DEF LoginsInv, Next, all
<1>2. L!Next \/ UNCHANGED slots
  BY <1>1 DEF Next, all
<1>3. CASE L!Next
  BY <1>1, <1>3, LoginsNext
<1>4. CASE UNCHANGED slots
  BY <1>1, <1>4 DEF slots, L!Inv, L!Shapes, L!Replacing, L!Showing, L!Offering, L!Running,
     L!Selected
<1> QED
  BY <1>2, <1>3, <1>4

(* While a task waits for a session there is a way to log in.                *)
THEOREM LoginOfferedAlways == Spec => []LoginOffered
<1>1. L!Inv => L!LoginOffered
  BY DEF L!Inv, L!Offering, L!LoginOffered
<1>2. LoginsInv => LoginOffered
  BY <1>1 DEF LoginsInv, LoginOffered
<1> QED
  BY <1>2, LoginsStart, LoginsStay, PTL DEF Spec

(* What is shown of the browser and of the helper is under way.              *)
THEOREM StatusIsTrueAlways == Spec => []StatusIsTrue
<1>1. L!Inv => L!StatusIsTrue
  BY DEF L!Inv, L!Showing, L!StatusIsTrue
<1>2. LoginsInv => StatusIsTrue
  BY <1>1 DEF LoginsInv, StatusIsTrue
<1> QED
  BY <1>2, LoginsStart, LoginsStay, PTL DEF Spec

(* A login that a later request replaced never installs its session.         *)
THEOREM ReplacedNeverInstallsEver == Spec => ReplacedNeverInstalls
<1>1. L!Inv => L!OnlyTheLatestInstalls
  BY DEF L!Inv, L!Replacing, L!OnlyTheLatestInstalls, L!RunInstalls, L!AcceptInstalls,
     L!Authorized, L!TokenInstalls
<1>2. LoginsInv => (which = "logins" => L!OnlyTheLatestInstalls)
  BY <1>1 DEF LoginsInv
<1> QED
  BY <1>2, LoginsStart, LoginsStay, PTL DEF Spec, ReplacedNeverInstalls
-----------------------------------------------------------------------------
(* WebAuth: the open sockets with a session have timers.                     *)

WebAuthInv == which = "dashboard" => W!Inv

LEMMA WebAuthStarts == Init => WebAuthInv
<1> SUFFICES ASSUME Init, which = "dashboard" PROVE W!Inv
  BY DEF WebAuthInv
<1>1. W!Init
  BY DEF Init
<1> QED
  BY <1>1 DEF W!Init, W!Inv, W!Shapes, W!Sessions, W!OpenSocketsFollow, W!Open, W!NoRequest

\* The tokens of the sessions after a request are old or the one it hands out.
LEMMA WebAuthPolicies ==
    ASSUME W!Inv, NEW t, NEW policy \in W!Policies(t),
           s7.op \in {"login", "logout", "enable", "change", "disable"}
    PROVE  /\ DOMAIN policy = {"on", "sessions"}
           /\ policy.sessions \subseteq s1.sessions \cup {t}
           /\ s7.op \in {"logout", "disable"} => policy.sessions \subseteq s1.sessions
           /\ ~policy.on => policy.sessions = {}
<1> USE DEF W!Inv, W!Shapes, W!Sessions
<1>1. CASE s7.op = "login"
  <2>1. PICK kept \in SUBSET (s1.sessions \ s3) :
            policy = [on |-> TRUE, sessions |-> (kept \cup {t}) \ {s7.token}]
    BY <1>1 DEF W!Policies, W!LoggedIn
  <2> QED
    BY <1>1, <2>1
<1>2. CASE s7.op = "logout"
  <2>1. policy = [s1 EXCEPT !.sessions = s1.sessions \ {s7.token}]
    BY <1>2 DEF W!Policies
  <2> QED
    BY <1>2, <2>1
<1>3. CASE s7.op \in {"enable", "change"}
  <2>1. policy = [on |-> TRUE, sessions |-> {t}]
    BY <1>3 DEF W!Policies
  <2> QED
    BY <1>3, <2>1
<1>4. CASE s7.op = "disable"
  <2>1. policy = [on |-> FALSE, sessions |-> {}]
    BY <1>4 DEF W!Policies
  <2> QED
    BY <1>4, <2>1
<1> QED
  BY <1>1, <1>2, <1>3, <1>4

LEMMA WebAuthNext ==
    ASSUME W!ConstantsOK, W!Inv, W!Next PROVE W!Inv'
<1> USE DEF W!ConstantsOK, W!Inv, W!Shapes, W!Sessions, W!OpenSocketsFollow, W!Open,
        W!Allowed, W!Authenticated, W!NoRequest
<1>1. ASSUME NEW op \in {"login", "logout", "enable", "change", "disable"},
             NEW t \in s4 \cup {NoToken}, W!Begin(op, t)
      PROVE  W!Inv'
  <2>1. /\ s7.at = "idle" /\ UNCHANGED <<s1, s2, s3, s4, s5, s6>>
        /\ s7' = [op |-> op, at |-> "verify", token |-> t, left |-> {}]
    BY <1>1 DEF W!Begin
  <2> QED
    BY <2>1
<1>2. CASE W!Refuse
  BY <1>2 DEF W!Refuse
<1>3. CASE W!Commit
  <2>1. /\ s7.at = "verify" /\ UNCHANGED <<s3, s5, s6>>
        /\ s7' = [s7 EXCEPT !.at = "prune", !.left = W!Open]
    BY <1>3 DEF W!Commit
  <2>2. DOMAIN s7' = {"op", "at", "token", "left"} /\ s7'.at = "prune" /\ s7'.left = W!Open
    BY <2>1
  <2>3. PICK t : /\ \E policy \in W!Policies(t) : s2' = policy /\ s1' = policy
                 /\ \/ t \in Tokens \ s4 /\ s4' = s4 \cup {t}
                    \/ s7.op \in {"logout", "disable"} /\ s4' = s4
    BY <1>3, <2>1 DEF W!Commit, W!Save
  <2>4. /\ DOMAIN s1' = {"on", "sessions"} /\ s2' = s1'
        /\ s1'.sessions \subseteq s1.sessions \cup {t}
        /\ s7.op \in {"logout", "disable"} => s1'.sessions \subseteq s1.sessions
        /\ ~s1'.on => s1'.sessions = {}
    BY <2>1, <2>3, WebAuthPolicies
  <2>5. \A s \in Sockets : s5[s] # NoSocket /\ s5[s] \in s1'.sessions => s5[s] \in s1.sessions
    BY <2>3, <2>4
  <2>6. s5' \in [Sockets -> s4' \cup {NoToken, NoSocket}] /\ s4' \subseteq Tokens
        /\ s1'.sessions \subseteq s4'
    BY <2>1, <2>3, <2>4
  <2> QED
    BY <2>1, <2>2, <2>4, <2>5, <2>6
<1>4. CASE W!Prune
  <2>1. PICK s \in s7.left :
            /\ s7' = [s7 EXCEPT !.left = s7.left \ {s}]
            /\ IF s5[s] = NoSocket \/ (s7.op # "disable" /\ W!Allowed(s5[s]))
               THEN UNCHANGED <<s5, s6>>
               ELSE W!Disconnected(s)
    BY <1>4 DEF W!Prune
  <2>2. s7.at = "prune" /\ UNCHANGED <<s1, s2, s3, s4>>
    BY <1>4 DEF W!Prune
  <2>3. CASE s5[s] = NoSocket \/ (s7.op # "disable" /\ W!Allowed(s5[s]))
    BY <2>1, <2>2, <2>3
  <2>4. CASE W!Disconnected(s)
    BY <2>1, <2>2, <2>4 DEF W!Disconnected
  <2> QED
    BY <2>1, <2>3, <2>4
<1>5. CASE W!Respond
  BY <1>5 DEF W!Respond
<1>6. ASSUME NEW s \in Sockets, W!Forget(s) PROVE W!Inv'
  BY <1>6 DEF W!Forget, W!Disconnected
<1>7. ASSUME NEW s \in Sockets, NEW t \in s4 \cup {NoToken}, W!Register(s, t) PROVE W!Inv'
  BY <1>7 DEF W!Register
<1>8. ASSUME NEW t \in Tokens, W!Expire(t) PROVE W!Inv'
  BY <1>8 DEF W!Expire
<1>9. CASE W!Restart
  BY <1>9 DEF W!Restart
<1> QED
  BY <1>1, <1>2, <1>3, <1>4, <1>5, <1>6, <1>7, <1>8, <1>9 DEF W!Next

LEMMA WebAuthStays == WebAuthInv /\ [Next]_all => WebAuthInv'
<1> SUFFICES ASSUME WebAuthInv, [Next]_all, which' = "dashboard" PROVE W!Inv'
  BY DEF WebAuthInv
<1>1. which = "dashboard" /\ W!Inv /\ W!ConstantsOK
  BY ServicesAssumption DEF WebAuthInv, Next, ServicesAssumption, all
<1>2. W!Next \/ UNCHANGED W!vars
  BY <1>1 DEF Next, W!vars, all, slots
<1>3. CASE W!Next
  BY <1>1, <1>3, WebAuthNext
<1>4. CASE UNCHANGED W!vars
  BY <1>1, <1>4 DEF W!vars, W!Inv, W!Shapes, W!Sessions, W!OpenSocketsFollow, W!Open,
     W!Allowed, W!Authenticated
<1> QED
  BY <1>2, <1>3, <1>4

(* An open socket is allowed by the policy in force, or somebody is about to *)
(* look at it, in whatever order sockets come and go.                        *)
THEOREM OpenSocketsFollowAlways == Spec => []OpenSocketsFollow
<1>1. WebAuthInv => OpenSocketsFollow
  BY DEF WebAuthInv, W!Inv, OpenSocketsFollow
<1> QED
  BY <1>1, WebAuthStarts, WebAuthStays, PTL DEF Spec
-----------------------------------------------------------------------------
(* DevTools: an answer names its command wherever it is, and a reader that   *)
(* has ended has put the end where its events are.                           *)

ToolsInv == which = "devtools" => T!Inv

LEMMA ToolsStart == Init => ToolsInv
<1> SUFFICES ASSUME Init, which = "devtools" PROVE T!Inv
  BY DEF ToolsInv
<1>1. T!Init
  BY DEF Init
<1>2. <<>> \in Seq(T!Messages) /\ <<>> \in Seq(T!Sent) /\ DOMAIN <<>> = {}
  OBVIOUS
<1>3. T!Types
  BY <1>1, <1>2 DEF T!Init, T!Types
<1>4. \A c \in T!Conn : s7[c] # "done"
  BY <1>1 DEF T!Init
<1>5. T!AnswersAreTheirOwn
  BY <1>1, <1>2, <1>4 DEF T!Init, T!AnswersAreTheirOwn
<1> QED
  BY <1>3, <1>5 DEF T!Inv

HasEnd(x) == T!End \in {x[i] : i \in DOMAIN x}

LEMMA ToolsMessages ==
    ASSUME NEW x \in Seq(T!Messages)
    PROVE  /\ \A m \in T!Messages : /\ Append(x, m) \in Seq(T!Messages)
                                    /\ HasEnd(x) => HasEnd(Append(x, m))
           /\ T!End \in T!Messages /\ HasEnd(Append(x, T!End))
           /\ Len(x) \in Nat /\ (x = <<>> => Len(x) = 0)
           /\ x # <<>> => /\ Head(x) \in T!Messages /\ Tail(x) \in Seq(T!Messages)
                          /\ HasEnd(x) => Head(x) = T!End \/ HasEnd(Tail(x))
<1>1. ASSUME NEW m \in T!Messages
      PROVE  /\ Append(x, m) \in Seq(T!Messages) /\ (HasEnd(x) => HasEnd(Append(x, m)))
             /\ m = T!End => HasEnd(Append(x, m))
  <2>1. /\ Append(x, m) \in Seq(T!Messages)
        /\ Len(Append(x, m)) = Len(x) + 1
        /\ \A i \in 1..Len(x) : Append(x, m)[i] = x[i]
        /\ Append(x, m)[Len(x) + 1] = m
    BY AppendProperties
  <2>2. /\ DOMAIN x = 1..Len(x) /\ Len(x) \in Nat
        /\ DOMAIN Append(x, m) = 1..(Len(x) + 1)
    BY <2>1, LenProperties
  <2> QED
    BY <2>1, <2>2 DEF HasEnd
<1>2. T!End \in T!Messages
  BY DEF T!Messages
<1>3. ASSUME x # <<>>
      PROVE  /\ Head(x) \in T!Messages /\ Tail(x) \in Seq(T!Messages)
             /\ HasEnd(x) => Head(x) = T!End \/ HasEnd(Tail(x))
  <2>1. /\ Head(x) \in T!Messages /\ Tail(x) \in Seq(T!Messages) /\ Head(x) = x[1]
        /\ Len(Tail(x)) = Len(x) - 1 /\ \A i \in 1..Len(Tail(x)) : Tail(x)[i] = x[i + 1]
    BY <1>3, HeadTailProperties
  <2>2. DOMAIN x = 1..Len(x) /\ Len(x) \in Nat /\ DOMAIN Tail(x) = 1..Len(Tail(x))
    BY <2>1, LenProperties
  <2>3. ASSUME NEW i \in 1..Len(x), i # 1 PROVE i - 1 \in DOMAIN Tail(x) /\ Tail(x)[i - 1] = x[i]
    <3>1. \A n \in Nat : \A j \in 1..n :
             j # 1 => j - 1 \in 1..(n - 1) /\ (j - 1) + 1 = j
      OBVIOUS
    <3>2. Len(x) \in Nat /\ Len(Tail(x)) = Len(x) - 1
      BY <2>1, <2>2
    <3>3. i - 1 \in 1..(Len(x) - 1) /\ (i - 1) + 1 = i
      BY <2>3, <3>1, <3>2
    <3> QED
      BY <2>1, <2>2, <3>2, <3>3
  <2>4. ASSUME HasEnd(x), Head(x) # T!End PROVE HasEnd(Tail(x))
    <3>1. PICK i \in DOMAIN x : x[i] = T!End
      BY <2>4 DEF HasEnd
    <3>2. i \in 1..Len(x) /\ i # 1
      BY <2>1, <2>2, <2>4, <3>1
    <3>3. i - 1 \in DOMAIN Tail(x) /\ Tail(x)[i - 1] = T!End
      BY <2>3, <3>1, <3>2
    <3> QED
      BY <3>3 DEF HasEnd
  <2> QED
    BY <2>1, <2>4
<1> QED
  BY <1>1, <1>2, <1>3, LenProperties

LEMMA ToolsMapped ==
    ASSUME NEW X, NEW s \in Seq(X), NEW f, f = [i \in DOMAIN s |-> f[i]],
           \A i \in DOMAIN s : f[i] \in X
    PROVE  f \in Seq(X) /\ DOMAIN f = DOMAIN s
<1>1. Len(s) \in Nat /\ DOMAIN s = 1..Len(s)
  BY LenProperties
<1>2. f \in [1..Len(s) -> X]
  BY <1>1
<1> QED
  BY <1>1, <1>2, SeqDef

\* A command is sent: the next one, which nobody has answered.
LEMMA ToolsCommand ==
    ASSUME T!Inv, NEW conn \in T!Conn, NEW attach \in BOOLEAN, T!Command(conn, attach)
    PROVE  /\ s8' \in Seq(T!Sent) /\ s1' \subseteq T!Asked /\ s7[conn] = "reading"
           /\ \A i \in DOMAIN s8' : /\ s8'[i].id = i
                                    /\ \/ i \in DOMAIN s8 /\ s8'[i] = s8[i]
                                       \/ s8'[i].state # "answered" /\ s8'[i].conn = conn
<1>1. s8 \in Seq(T!Sent) /\ \A i \in DOMAIN s8 : s8[i].id = i
  BY DEF T!Inv, T!Types
<1>2. Len(s8) \in Nat /\ DOMAIN s8 = 1..Len(s8)
  BY <1>1, LenProperties
<1> DEFINE new == [conn |-> conn, id |-> Len(s8) + 1, got |-> 0,
                   state |-> IF s4 = "open" THEN "pending" ELSE "failed"]
           ask == [conn |-> conn, id |-> Len(s8) + 1, n |-> Len(s8) + 1, attach |-> attach]
<1>3. s8' = Append(s8, new) /\ s1' \subseteq s1 \cup {ask} /\ s7[conn] = "reading"
  BY DEF T!Command, T!Id
<1>4. new \in T!Sent /\ new.id = Len(s8) + 1 /\ new.state # "answered" /\ new.conn = conn
  BY <1>2 DEF T!Sent
<1>5. ask \in T!Asked
  BY <1>2 DEF T!Asked
<1> HIDE DEF new, ask
<1>6. /\ s8' \in Seq(T!Sent) /\ Len(s8') = Len(s8) + 1
      /\ \A i \in 1..Len(s8) : s8'[i] = s8[i]
      /\ s8'[Len(s8) + 1] = new
  BY <1>1, <1>3, <1>4, AppendProperties
<1>7. DOMAIN s8' = 1..(Len(s8) + 1)
  BY <1>6, LenProperties
<1>8. ASSUME NEW i \in 1..(Len(s8) + 1) PROVE i \in 1..Len(s8) \/ i = Len(s8) + 1
  BY <1>2
<1> QED
  BY <1>1, <1>2, <1>3, <1>4, <1>5, <1>6, <1>7, <1>8 DEF T!Inv, T!Types

\* A reader ends: none of its commands waits, and the end is where its events are.
LEMMA ToolsReaderEnds ==
    ASSUME T!ConstantsOK, T!Inv, NEW c \in T!Conn, T!ReaderEnds(c)
    PROVE  /\ s7' = [s7 EXCEPT ![c] = "done"] /\ s9' \in [T!Conn -> Seq(T!Messages)]
           /\ s8' \in Seq(T!Sent) /\ DOMAIN s8' = DOMAIN s8
           /\ \A i \in DOMAIN s8 :
                 /\ s8'[i].id = s8[i].id /\ s8'[i].conn = s8[i].conn
                 /\ s8'[i] = s8[i] \/ (s8'[i].state = "failed" /\ s8[i].conn = c)
                 /\ s8[i].conn = c => s8'[i].state # "pending"
           /\ HasEnd(s9'[c]) /\ \A d \in T!Conn \ {c} : s9'[d] = s9[d]
<1>1. /\ s8 \in Seq(T!Sent) /\ s9 \in [T!Conn -> Seq(T!Messages)]
      /\ \A i \in DOMAIN s8 : s8[i] \in T!Sent
  <2>1. s8 \in Seq(T!Sent) /\ s9 \in [T!Conn -> Seq(T!Messages)]
    BY DEF T!Inv, T!Types
  <2> QED
    BY <2>1, ElementOfSeq, LenProperties
<1>2. s8' = [i \in DOMAIN s8 |-> IF s8[i].conn = c /\ s8[i].state = "pending"
                                 THEN [s8[i] EXCEPT !.state = "failed"] ELSE s8[i]]
  BY DEF T!ReaderEnds
<1>3. ASSUME NEW i \in DOMAIN s8
      PROVE  /\ s8'[i] \in T!Sent
             /\ s8'[i].id = s8[i].id /\ s8'[i].conn = s8[i].conn
             /\ s8'[i] = s8[i] \/ (s8'[i].state = "failed" /\ s8[i].conn = c)
             /\ s8[i].conn = c => s8'[i].state # "pending"
  BY <1>1, <1>2 DEF T!Sent
<1>4. s8' \in Seq(T!Sent) /\ DOMAIN s8' = DOMAIN s8
  <2>1. s8' = [i \in DOMAIN s8 |-> s8'[i]]
    BY <1>2
  <2> QED
    BY <1>1, <1>3, <2>1, ToolsMapped
<1> DEFINE rest == IF Len(s9[c]) = MaxEvents THEN Tail(s9[c]) ELSE s9[c]
<1>5. s9' = [s9 EXCEPT ![c] = Append(rest, T!End)] /\ s7' = [s7 EXCEPT ![c] = "done"]
  BY DEF T!ReaderEnds
<1>6. rest \in Seq(T!Messages)
  <2>1. s9[c] \in Seq(T!Messages) /\ MaxEvents # 0
    BY <1>1 DEF T!ConstantsOK
  <2> QED
    BY <2>1, ToolsMessages
<1> HIDE DEF rest
<1>7. Append(rest, T!End) \in Seq(T!Messages) /\ HasEnd(Append(rest, T!End))
  BY <1>6, ToolsMessages
<1> QED
  BY <1>1, <1>3, <1>4, <1>5, <1>7

\* A queue of the pipe only grows by messages and ends.
LEMMA ToolsEnded ==
    ASSUME T!Inv, NEW cs, T!Ended(cs) PROVE s6' \in [T!Conn -> Seq(T!Messages)]
<1>1. s6 \in [T!Conn -> Seq(T!Messages)]
  BY DEF T!Inv, T!Types
<1>2. \A c \in T!Conn : Append(s6[c], T!End) \in Seq(T!Messages)
  BY <1>1, ToolsMessages
<1> QED
  BY <1>1, <1>2 DEF T!Ended

\* Nothing happened that the commands, their readers or their events show.
LEMMA ToolsElsewhere ==
    ASSUME T!Inv, UNCHANGED <<s7, s8, s9, s10>>,
           s1' \subseteq T!Asked, s3' \in Seq(T!Messages), s6' \in [T!Conn -> Seq(T!Messages)]
    PROVE  T!Inv'
<1>1. T!Types'
  BY DEF T!Inv, T!Types
<1>2. T!AnswersAreTheirOwn'
  BY DEF T!Inv, T!AnswersAreTheirOwn
<1> QED
  BY <1>1, <1>2 DEF T!Inv

LEMMA ToolsNext ==
    ASSUME T!ConstantsOK, T!Inv, T!Next PROVE T!Inv'
<1>1. /\ s1 \subseteq T!Asked /\ s3 \in Seq(T!Messages)
      /\ s6 \in [T!Conn -> Seq(T!Messages)] /\ s9 \in [T!Conn -> Seq(T!Messages)]
      /\ s7 \in [T!Conn -> {"off", "reading", "done"}]
      /\ s8 \in Seq(T!Sent) /\ \A i \in DOMAIN s8 : s8[i].id = i
  BY DEF T!Inv, T!Types
<1>2. /\ \A i \in DOMAIN s8 : s8[i].state = "answered" => s8[i].got = i
      /\ \A c \in T!Conn : s7[c] = "done" =>
            /\ (c = "page" /\ s10) \/ HasEnd(s9[c])
            /\ \A i \in DOMAIN s8 : s8[i].conn = c => s8[i].state # "pending"
  BY DEF T!Inv, T!AnswersAreTheirOwn, HasEnd
<1> DEFINE Typed == /\ s1' \subseteq T!Asked /\ s3' \in Seq(T!Messages)
                    /\ s6' \in [T!Conn -> Seq(T!Messages)]
                    /\ s9' \in [T!Conn -> Seq(T!Messages)]
                    /\ s7' \in [T!Conn -> {"off", "reading", "done"}]
                    /\ s8' \in Seq(T!Sent) /\ \A i \in DOMAIN s8' : s8'[i].id = i
           Own == \A i \in DOMAIN s8' : s8'[i].state = "answered" => s8'[i].got = i
           Over == \A c \in T!Conn : s7'[c] = "done" =>
                       /\ (c = "page" /\ s10') \/ HasEnd(s9'[c])
                       /\ \A i \in DOMAIN s8' : s8'[i].conn = c => s8'[i].state # "pending"
<1>3. ASSUME Typed, Own, Over PROVE T!Inv'
  <2>1. T!Types'
    BY <1>3 DEF T!Types, T!Asked, T!Messages, T!Sent, T!Conn, T!End
  <2>2. T!AnswersAreTheirOwn'
    BY <1>3 DEF T!AnswersAreTheirOwn, HasEnd, T!Conn, T!End
  <2> QED
    BY <2>1, <2>2 DEF T!Inv
<1>4. ASSUME NEW m \in T!Messages, T!Writes(m) PROVE s3' \in Seq(T!Messages)
  BY <1>1, <1>4, ToolsMessages DEF T!Writes
<1>5. CASE T!Replies
  <2>1. PICK a \in s1 :
            /\ s1' = s1 \ {a}
            /\ T!Writes([kind |-> "reply", id |-> a.id, of |-> a.n,
                         to |-> IF s2 = "gone" THEN "browser" ELSE a.conn])
    BY <1>5 DEF T!Replies
  <2>2. [kind |-> "reply", id |-> a.id, of |-> a.n,
         to |-> IF s2 = "gone" THEN "browser" ELSE a.conn] \in T!Messages
    BY <1>1 DEF T!Asked, T!Messages, T!Conn
  <2>3. s3' \in Seq(T!Messages)
    BY <1>4, <2>1, <2>2
  <2>4. UNCHANGED <<s6, s7, s8, s9, s10>>
    BY <1>5 DEF T!Replies
  <2> QED
    BY <1>1, <2>1, <2>3, <2>4, ToolsElsewhere
<1>6. CASE T!PageEvent
  <2>1. [kind |-> "event", to |-> "page"] \in T!Messages
    BY DEF T!Messages, T!Conn
  <2> QED
    BY <1>1, <1>4, <1>6, <2>1, ToolsElsewhere DEF T!PageEvent
<1>7. CASE T!PageGoes
  <2>1. [kind |-> "detached", to |-> "browser"] \in T!Messages
    BY DEF T!Messages, T!Conn
  <2> QED
    BY <1>1, <1>4, <1>7, <2>1, ToolsElsewhere DEF T!PageGoes
<1>8. CASE T!PipeReads
  <2>1. /\ s3 # <<>> /\ s3' = Tail(s3) /\ UNCHANGED <<s1, s7, s8, s9, s10>>
    BY <1>8 DEF T!PipeReads
  <2>2. Head(s3) \in T!Messages /\ s3' \in Seq(T!Messages)
    BY <1>1, <2>1, ToolsMessages
  <2> DEFINE m == Head(s3)
  <2>3. (\E cs : T!Ended(cs)) \/ s6' = [s6 EXCEPT ![m.to] = Append(s6[m.to], m)] \/ s6' = s6
    BY <1>8 DEF T!PipeReads
  <2> HIDE DEF m
  <2>4. CASE s6' = [s6 EXCEPT ![m.to] = Append(s6[m.to], m)]
    <3>1. m.to \in T!Conn => Append(s6[m.to], m) \in Seq(T!Messages)
      BY <1>1, <2>2, ToolsMessages DEF m
    <3>2. m.to \notin T!Conn => s6' = s6
      BY <1>1, <2>4
    <3>3. s6' \in [T!Conn -> Seq(T!Messages)]
      BY <1>1, <2>4, <3>1, <3>2
    <3> QED
      BY <1>1, <2>1, <2>2, <3>3, ToolsElsewhere
  <2> QED
    BY <1>1, <2>1, <2>2, <2>3, <2>4, ToolsEnded, ToolsElsewhere
<1>9. CASE T!PipeEnds
  <2>1. /\ s3' = <<>> /\ s1' = {} /\ T!Ended(T!Conn) /\ UNCHANGED <<s7, s8, s9, s10>>
    BY <1>9 DEF T!PipeEnds
  <2>2. s3' \in Seq(T!Messages)
    BY <2>1
  <2> QED
    BY <2>1, <2>2, ToolsEnded, ToolsElsewhere
\* A command is sent on a connection that is read.
<1>10. ASSUME NEW conn \in T!Conn, NEW attach \in BOOLEAN, T!Command(conn, attach),
              UNCHANGED <<s3, s6, s7, s9, s10>>
       PROVE  T!Inv'
  <2>1. /\ s8' \in Seq(T!Sent) /\ s1' \subseteq T!Asked /\ s7[conn] = "reading"
        /\ \A i \in DOMAIN s8' : /\ s8'[i].id = i
                                 /\ \/ i \in DOMAIN s8 /\ s8'[i] = s8[i]
                                    \/ s8'[i].state # "answered" /\ s8'[i].conn = conn
    BY <1>10, ToolsCommand
  <2>2. Typed
    BY <1>1, <1>10, <2>1
  <2>3. Own
    BY <1>2, <2>1
  <2>4. Over
    BY <1>2, <1>10, <2>1
  <2> QED
    BY <1>3, <2>2, <2>3, <2>4
<1>11. CASE T!Commands
  <2>1. PICK conn \in T!Conn : T!Command(conn, FALSE)
    BY <1>11 DEF T!Commands
  <2>2. UNCHANGED <<s3, s6, s7, s9, s10>> /\ FALSE \in BOOLEAN
    BY <1>11 DEF T!Commands
  <2> QED
    BY <1>10, <2>1, <2>2
<1>12. CASE T!Attach
  <2>1. T!Command("browser", TRUE) /\ "browser" \in T!Conn
    BY <1>12 DEF T!Attach, T!Conn
  <2>2. UNCHANGED <<s3, s6, s7, s9, s10>> /\ TRUE \in BOOLEAN
    BY <1>12 DEF T!Attach
  <2> QED
    BY <1>10, <2>1, <2>2
<1>13. CASE T!TimesOut
  <2>1. PICK n \in DOMAIN s8 : s8' = [s8 EXCEPT ![n].state = "failed"]
    BY <1>13 DEF T!TimesOut
  <2>2. UNCHANGED <<s1, s3, s6, s7, s9, s10>>
    BY <1>13 DEF T!TimesOut
  <2>3. \A i \in DOMAIN s8 : s8[i] \in T!Sent
    BY <1>1, ElementOfSeq, LenProperties
  <2>4. ASSUME NEW i \in DOMAIN s8
        PROVE  /\ s8'[i] \in T!Sent /\ s8'[i].id = s8[i].id /\ s8'[i].conn = s8[i].conn
               /\ s8'[i] = s8[i] \/ s8'[i].state = "failed"
    BY <2>1, <2>3 DEF T!Sent
  <2>5. s8' \in Seq(T!Sent) /\ DOMAIN s8' = DOMAIN s8
    <3>1. s8' = [i \in DOMAIN s8 |-> s8'[i]]
      BY <1>1, <2>1, LenProperties
    <3> QED
      BY <1>1, <2>4, <3>1, ToolsMapped
  <2>6. Typed
    BY <1>1, <2>2, <2>4, <2>5
  <2>7. Own
    BY <1>2, <2>4, <2>5
  <2>8. Over
    BY <1>2, <2>2, <2>4, <2>5
  <2> QED
    BY <1>3, <2>6, <2>7, <2>8
\* A reader ends, while whatever it has read is taken from its queue.
<1>14. ASSUME NEW c \in T!Conn, T!ReaderEnds(c), UNCHANGED <<s1, s3, s10>>,
              s6' \in [T!Conn -> Seq(T!Messages)]
       PROVE  T!Inv'
  <2>1. /\ s7' = [s7 EXCEPT ![c] = "done"] /\ s9' \in [T!Conn -> Seq(T!Messages)]
        /\ s8' \in Seq(T!Sent) /\ DOMAIN s8' = DOMAIN s8
        /\ \A i \in DOMAIN s8 :
              /\ s8'[i].id = s8[i].id /\ s8'[i].conn = s8[i].conn
              /\ s8'[i] = s8[i] \/ (s8'[i].state = "failed" /\ s8[i].conn = c)
              /\ s8[i].conn = c => s8'[i].state # "pending"
        /\ HasEnd(s9'[c]) /\ \A d \in T!Conn \ {c} : s9'[d] = s9[d]
    BY <1>14, ToolsReaderEnds
  <2>2. Typed
    BY <1>1, <1>14, <2>1
  <2>3. Own
    BY <1>2, <2>1
  <2>4. Over
    <3>1. ASSUME NEW d \in T!Conn \ {c}, s7'[d] = "done"
          PROVE  /\ (d = "page" /\ s10') \/ HasEnd(s9'[d])
                 /\ \A i \in DOMAIN s8' : s8'[i].conn = d => s8'[i].state # "pending"
      BY <1>1, <1>2, <1>14, <2>1, <3>1
    <3> QED
      BY <2>1, <3>1
  <2> QED
    BY <1>3, <2>2, <2>3, <2>4
<1>15. ASSUME NEW c \in T!Conn, T!Reads(c) PROVE T!Inv'
  <2> DEFINE m == Head(s6[c])
             Mine(i) == m.kind = "reply" /\ s8[i].conn = c /\ s8[i].id = m.id
                        /\ s8[i].state = "pending"
  <2>1. /\ s7[c] = "reading" /\ s6[c] # <<>> /\ s6' = [s6 EXCEPT ![c] = Tail(s6[c])]
        /\ UNCHANGED <<s1, s3, s10>>
    BY <1>15 DEF T!Reads, T!Received
  <2>2. m \in T!Messages /\ s6' \in [T!Conn -> Seq(T!Messages)]
    <3>1. s6[c] \in Seq(T!Messages)
      BY <1>1
    <3>2. m \in T!Messages /\ Tail(s6[c]) \in Seq(T!Messages)
      BY <2>1, <3>1, ToolsMessages
    <3> QED
      BY <1>1, <2>1, <3>2
  <2>3. CASE T!ReaderEnds(c)
    BY <1>14, <2>1, <2>2, <2>3
  <2>4. CASE /\ s8' = [i \in DOMAIN s8 |->
                  IF Mine(i) THEN [s8[i] EXCEPT !.state = "answered", !.got = m.of] ELSE s8[i]]
             /\ s9' = (IF m.kind = "event" THEN [s9 EXCEPT ![c] = Append(s9[c], m)] ELSE s9)
             /\ UNCHANGED s7
    <3>1. \A i \in DOMAIN s8 : s8[i] \in T!Sent
      BY <1>1, ElementOfSeq, LenProperties
    <3>2. m.kind = "reply" => m.of \in Nat /\ m.of = m.id
      BY <2>2 DEF T!Messages, T!End
    <3>3. ASSUME NEW i \in DOMAIN s8
          PROVE  /\ s8'[i] \in T!Sent /\ s8'[i].id = s8[i].id /\ s8'[i].conn = s8[i].conn
                 /\ s8'[i] = s8[i] \/ (s8'[i].state = "answered" /\ s8'[i].got = i)
      <4>1. CASE Mine(i)
        <5>1. s8'[i] = [conn |-> s8[i].conn, id |-> s8[i].id, got |-> m.of, state |-> "answered"]
          BY <2>4, <3>1, <4>1 DEF T!Sent
        <5>2. m.of = i /\ m.of \in Nat
          BY <1>1, <3>2, <4>1
        <5> HIDE DEF m
        <5> QED
          BY <3>1, <5>1, <5>2 DEF T!Sent
      <4>2. CASE ~Mine(i)
        BY <2>4, <3>1, <4>2
      <4> QED
        BY <4>1, <4>2
    <3>4. s8' \in Seq(T!Sent) /\ DOMAIN s8' = DOMAIN s8
      <4>1. s8' = [i \in DOMAIN s8 |-> s8'[i]]
        BY <2>4
      <4> QED
        BY <1>1, <3>3, <4>1, ToolsMapped
    <3>5. s9[c] \in Seq(T!Messages)
      BY <1>1
    <3>6. Append(s9[c], m) \in Seq(T!Messages) /\ (HasEnd(s9[c]) => HasEnd(Append(s9[c], m)))
      BY <2>2, <3>5, ToolsMessages
    <3> HIDE DEF m
    <3>7. /\ s9' \in [T!Conn -> Seq(T!Messages)]
          /\ \A d \in T!Conn : HasEnd(s9[d]) => HasEnd(s9'[d])
      BY <1>1, <2>4, <3>6
    <3>8. Typed
      <4>1. \A i \in DOMAIN s8' : s8'[i].id = i
        BY <1>1, <3>3, <3>4
      <4> HIDE DEF Mine
      <4> QED
        BY <1>1, <2>1, <2>2, <2>4, <3>4, <3>7, <4>1
    <3>9. Own
      BY <1>2, <3>3, <3>4
    <3>10. Over
      <4>1. s7' = s7 /\ s10' = s10
        BY <2>1, <2>4
      <4>2. ASSUME NEW d \in T!Conn, s7[d] = "done"
            PROVE  /\ (d = "page" /\ s10) \/ HasEnd(s9'[d])
                   /\ \A i \in DOMAIN s8' : s8'[i].conn = d => s8'[i].state # "pending"
        <5>1. (d = "page" /\ s10) \/ HasEnd(s9[d])
          BY <1>2, <4>2
        <5>2. \A i \in DOMAIN s8 : s8[i].conn = d => s8[i].state # "pending"
          BY <1>2, <4>2
        <5>3. ASSUME NEW i \in DOMAIN s8', s8'[i].conn = d PROVE s8'[i].state # "pending"
          <6>1. i \in DOMAIN s8 /\ s8[i].conn = d
            BY <3>3, <3>4, <5>3
          <6>2. s8'[i] = s8[i] \/ s8'[i].state = "answered"
            BY <3>3, <6>1
          <6> QED
            BY <5>2, <6>1, <6>2
        <5> QED
          BY <3>7, <5>1, <5>3
      <4> QED
        BY <4>1, <4>2
    <3> QED
      BY <1>3, <3>8, <3>9, <3>10
  <2> QED
    BY <1>15, <2>3, <2>4 DEF T!Reads
<1>16. CASE T!TakesEvent
  <2>1. /\ s9["page"] # <<>> /\ s9' = [s9 EXCEPT !["page"] = Tail(s9["page"])]
        /\ s10' = (s10 \/ Head(s9["page"]) = T!End)
        /\ UNCHANGED <<s1, s3, s6, s7, s8>>
    BY <1>16 DEF T!TakesEvent
  <2>2. "page" \in T!Conn /\ s9["page"] \in Seq(T!Messages)
    BY <1>1 DEF T!Conn
  <2>3. /\ Tail(s9["page"]) \in Seq(T!Messages)
        /\ HasEnd(s9["page"]) => Head(s9["page"]) = T!End \/ HasEnd(Tail(s9["page"]))
    BY <2>1, <2>2, ToolsMessages
  <2>4. /\ s10 => s10'
        /\ Head(s9["page"]) = T!End => s10'
    BY <2>1, Zenon
  <2>5. Typed
    BY <1>1, <2>1, <2>3
  <2>6. Own
    BY <1>2, <2>1
  <2>7. \A d \in T!Conn : HasEnd(s9[d]) => HasEnd(s9'[d]) \/ (d = "page" /\ s10')
    BY <1>1, <2>1, <2>2, <2>3, <2>4
  <2>8. Over
    BY <1>2, <2>1, <2>4, <2>7
  <2> QED
    BY <1>3, <2>5, <2>6, <2>8
<1>17. CASE T!Attached
  <2>1. s7' = [s7 EXCEPT !["page"] = "reading"] /\ UNCHANGED <<s1, s3, s6, s8, s9, s10>>
    BY <1>17 DEF T!Attached
  <2>2. Typed
    BY <1>1, <2>1
  <2>3. Own
    BY <1>2, <2>1
  <2>4. Over
    BY <1>1, <1>2, <2>1
  <2> QED
    BY <1>3, <2>2, <2>3, <2>4
<1>18. CASE T!Detach
  <2>1. UNCHANGED <<s1, s3, s10>> /\ T!Ended({"page"}) /\ "page" \in T!Conn
    BY <1>18 DEF T!Detach, T!Conn
  <2>2. T!ReaderEnds("page") \/ UNCHANGED <<s7, s8, s9>>
    BY <1>18 DEF T!Detach
  <2> QED
    BY <1>1, <1>14, <2>1, <2>2, ToolsEnded, ToolsElsewhere
<1>19. CASE T!AttachFails
  BY <1>1, <1>19, ToolsElsewhere DEF T!AttachFails
<1> QED
  BY <1>5, <1>6, <1>7, <1>8, <1>9, <1>11, <1>12, <1>13, <1>15, <1>16, <1>17, <1>18, <1>19
  DEF T!Next

LEMMA ToolsStay == ToolsInv /\ [Next]_all => ToolsInv'
<1> SUFFICES ASSUME ToolsInv, [Next]_all, which' = "devtools" PROVE T!Inv'
  BY DEF ToolsInv
<1>1. which = "devtools" /\ T!Inv /\ T!ConstantsOK
  BY ServicesAssumption DEF ToolsInv, Next, ServicesAssumption, all
<1>2. T!Next \/ UNCHANGED T!vars
  BY <1>1 DEF Next, T!vars, all, slots
<1>3. CASE T!Next
  BY <1>1, <1>3, ToolsNext
<1>4. CASE UNCHANGED T!vars
  <2>1. /\ s1 \subseteq T!Asked /\ s3 \in Seq(T!Messages)
        /\ s6 \in [T!Conn -> Seq(T!Messages)]
    BY <1>1 DEF T!Inv, T!Types
  <2> QED
    BY <1>1, <1>4, <2>1, ToolsElsewhere DEF T!vars
<1> QED
  BY <1>2, <1>3, <1>4

(* A command gets its own answer or none, and the end of a connection        *)
(* reaches everyone, however its events are queued.                          *)
THEOREM AnswersAreTheirOwnAlways == Spec => []AnswersAreTheirOwn
<1>1. ToolsInv => AnswersAreTheirOwn
  BY DEF ToolsInv, T!Inv, AnswersAreTheirOwn
<1> QED
  BY <1>1, ToolsStart, ToolsStay, PTL DEF Spec
-----------------------------------------------------------------------------
(* Issuance: what the page fetched is a finished POST; that a cache answered  *)
(* it is learnt before its response, as long as the connection is open.       *)

IssuanceInv == which = "issuance" => I!Inv

LEMMA IssuanceStarts == Init => IssuanceInv
<1> SUFFICES ASSUME Init, which = "issuance" PROVE I!Inv
  BY DEF IssuanceInv
<1> USE DEF I!Init, I!Unsent, I!Request, I!Exchanges, I!ConstantsOK
<1>1. I!Init /\ I!ConstantsOK
  BY ServicesAssumption DEF Init, ServicesAssumption
<1>2. I!Types
  <2>1. FALSE \in BOOLEAN /\ TRUE \in BOOLEAN
    OBVIOUS
  <2>2. s1 \in [Calls -> I!Request] /\ s8 \in I!Exchanges
    BY <1>1, <2>1
  <2>3. s2 \in BOOLEAN /\ s7 \in BOOLEAN
    BY <1>1, <2>1, Zenon
  <2>4. s4 \in Seq(I!Events) /\ s6 \in Seq(I!Events)
    BY <1>1
  <2> QED
    BY <1>1, <2>2, <2>3, <2>4 DEF I!Types
<1>3. I!Fetching /\ I!AllSent /\ I!Proven
  BY <1>1 DEF I!Fetching, I!AllSent, I!Proven
<1>4. I!InOrder
  BY <1>1 DEF I!InOrder, I!FromCache, I!Sent
<1> QED
  BY <1>2, <1>3, <1>4 DEF I!Inv

(* What the connection carries.                                              *)
LEMMA IssuanceEvents ==
    /\ \A m \in I!Methods, r \in Calls :
          /\ I!Event(m, r) \in I!Events
          /\ I!Event(m, r).method = m /\ I!Event(m, r).request = r
    /\ \A m \in {"loaded", "end"} : I!Event(m, NoCall) \in I!Events
    /\ \A e \in I!Events : e.method \notin {"loaded", "end"} => e.request \in Calls
  BY DEF I!Event, I!Events, I!Methods

(* The end of the connection keeps what the queue has, but for its oldest.   *)
LEMMA IssuanceCloses ==
    ASSUME I!ConstantsOK, I!Types, I!Closes
    PROVE  /\ s4' = <<>> /\ s7' = FALSE /\ s6' \in Seq(I!Events)
           /\ \A i \in 1..Len(s6') : s6'[i] = I!Event("end", NoCall)
                                     \/ \E j \in 1..Len(s6) : s6'[i] = s6[j]
<1> DEFINE rest == IF Len(s6) >= Limit THEN Tail(s6) ELSE s6
<1>1. s6 \in Seq(I!Events) /\ Limit \in Nat \ {0}
  BY DEF I!Types, I!ConstantsOK
<1>2. /\ rest \in Seq(I!Events)
      /\ \A i \in 1..Len(rest) : \E j \in 1..Len(s6) : rest[i] = s6[j]
  <2>1. CASE Len(s6) >= Limit
    <3>1. s6 # <<>>
      BY <1>1, <2>1
    <3>2. Tail(s6) \in Seq(I!Events) /\ Len(Tail(s6)) = Len(s6) - 1
      BY <1>1, <3>1
    <3>3. \A i \in 1..Len(Tail(s6)) : Tail(s6)[i] = s6[i + 1] /\ i + 1 \in 1..Len(s6)
      BY <1>1, <3>1, <3>2
    <3> QED
      BY <2>1, <3>2, <3>3
  <2>2. CASE ~(Len(s6) >= Limit)
    BY <1>1, <2>2
  <2> QED
    BY <2>1, <2>2
<1>3. s6' = Append(rest, I!Event("end", NoCall)) /\ s4' = <<>> /\ s7' = FALSE
  BY DEF I!Closes
<1> HIDE DEF rest
<1> QED
  BY <1>2, <1>3, IssuanceEvents

(* One event makes of the exchange what it is.                               *)
LEMMA IssuanceHandled ==
    ASSUME I!Types, NEW e \in I!Events
    PROVE  I!Handled(e) \in I!Exchanges
<1>1. s8 \in I!Exchanges
  BY DEF I!Types
<1>2. e.method \notin {"loaded", "end"} => e.request \in Calls
  BY IssuanceEvents
<1>3. TRUE \in BOOLEAN
  OBVIOUS
<1>4. [s8 EXCEPT !.loaded = TRUE] \in I!Exchanges
  BY <1>1, <1>3 DEF I!Exchanges
<1>5. [s8 EXCEPT !.at = "failed"] \in I!Exchanges
  BY <1>1 DEF I!Exchanges
<1>6. ASSUME e.request \in Calls
      PROVE  /\ [s8 EXCEPT !.posts = @ \cup {e.request}] \in I!Exchanges
             /\ [s8 EXCEPT !.cached = @ \cup {e.request}] \in I!Exchanges
             /\ [s8 EXCEPT !.responses = @ \cup {e.request}] \in I!Exchanges
             /\ [s8 EXCEPT !.at = e.request] \in I!Exchanges
  BY <1>1, <1>6 DEF I!Exchanges
<1> QED
  BY <1>1, <1>2, <1>4, <1>5, <1>6 DEF I!Handled

(* What the browser sends goes to the end of the wire.                       *)
LEMMA IssuanceEmits ==
    ASSUME I!Types, NEW e \in I!Events, s4' = Append(s4, e)
    PROVE  /\ Len(s4') = Len(s4) + 1 /\ Len(s4) \in Nat /\ s4'[Len(s4) + 1] = e
           /\ \A i \in 1..Len(s4) : s4'[i] = s4[i]
           /\ \A i \in 1..Len(s4') : i \in 1..Len(s4) \/ i = Len(s4) + 1
  BY AppendProperties DEF I!Types

(* The three ends of a receipt: dropped, queued, or the end.                 *)
LEMMA IssuanceReceives ==
    ASSUME I!Types, I!Receive
    PROVE  /\ UNCHANGED <<s1, s2, s3, s8, s9, s10>>
           /\ s4 # <<>> /\ s4[1] \in I!Events /\ Len(s4) \in Nat \ {0}
           /\ \/ /\ s4' = Tail(s4) /\ s7' = s7
                 /\ \/ s6' = s6 /\ s4[1].method \in {"finished", "end"}
                    \/ s6' = Append(s6, s4[1])
              \/ I!Closes
           /\ s4' = Tail(s4) =>
                /\ Len(s4') = Len(s4) - 1
                /\ \A i \in 1..Len(s4') : s4'[i] = s4[i + 1] /\ i + 1 \in 1..Len(s4)
<1>1. s4 # <<>> /\ s4 \in Seq(I!Events)
  BY DEF I!Receive, I!Types
<1>2. s4[1] \in I!Events /\ Head(s4) = s4[1] /\ Len(s4) \in Nat \ {0}
  BY <1>1
<1>3. s4' = Tail(s4) =>
                /\ Len(s4') = Len(s4) - 1
                /\ \A i \in 1..Len(s4') : s4'[i] = s4[i + 1] /\ i + 1 \in 1..Len(s4)
  BY <1>1, <1>2, HeadTailProperties
<1>4. s4[1].method \in {"loaded", "end"} \cup I!Methods
  BY <1>2 DEF I!Events
<1>5. \/ /\ s4' = Tail(s4) /\ s7' = s7
         /\ \/ s6' = s6 /\ ~I!Relevant(s4[1])
            \/ s6' = Append(s6, s4[1])
      \/ I!Closes
  BY <1>2 DEF I!Receive
<1>6. ~I!Relevant(s4[1]) => s4[1].method \in {"finished", "end"}
  BY <1>4 DEF I!Relevant, I!Methods
<1>7. UNCHANGED <<s1, s2, s3, s8, s9, s10>>
  BY DEF I!Receive, I!browser
<1> QED
  BY <1>1, <1>2, <1>3, <1>5, <1>6, <1>7

(* What the queue gives up.                                                  *)
LEMMA IssuanceQueued ==
    ASSUME I!Types, NEW e \in I!Events, s6' = Append(s6, e)
    PROVE  /\ Len(s6') = Len(s6) + 1 /\ Len(s6) \in Nat /\ s6'[Len(s6) + 1] = e
           /\ \A i \in 1..Len(s6) : s6'[i] = s6[i]
           /\ \A i \in 1..Len(s6') : i \in 1..Len(s6) \/ i = Len(s6) + 1
  BY AppendProperties DEF I!Types

LEMMA IssuanceTaken ==
    ASSUME I!Types, I!Handle
    PROVE  /\ s6[1] \in I!Events /\ Len(s6) \in Nat \ {0}
           /\ s8' = I!Handled(s6[1])
           /\ Len(s6') = Len(s6) - 1
           /\ \A i \in 1..Len(s6') : s6'[i] = s6[i + 1] /\ i + 1 \in 1..Len(s6)
           /\ UNCHANGED <<s1, s2, s3, s4, s7>>
<1>1. s6 # <<>> /\ s6 \in Seq(I!Events)
  BY DEF I!Handle, I!Types
<1>2. s6[1] \in I!Events /\ Head(s6) = s6[1] /\ Len(s6) \in Nat \ {0}
  BY <1>1
<1>3. s6' = Tail(s6) /\ s8' = I!Handled(Head(s6)) /\ UNCHANGED <<s1, s2, s3, s4, s7>>
  BY DEF I!Handle, I!browser
<1> QED
  BY <1>1, <1>2, <1>3, HeadTailProperties

(* Only two kinds of events teach the exchange anything of a response.       *)
LEMMA IssuanceLearns ==
    ASSUME I!Types, NEW e \in I!Events
    PROVE  /\ I!Handled(e).responses =
                IF e.method = "response" /\ e.request \in s8.posts
                THEN s8.responses \cup {e.request} ELSE s8.responses
           /\ I!Handled(e).cached =
                IF e.method = "cached" THEN s8.cached \cup {e.request} ELSE s8.cached
<1>1. s8 \in I!Exchanges
  BY DEF I!Types
<1> QED
  BY <1>1 DEF I!Handled, I!Exchanges

LEMMA IssuanceTypes ==
    ASSUME I!ConstantsOK, I!Inv, I!Next \/ UNCHANGED I!vars
    PROVE  I!Types'
<1> USE DEF I!ConstantsOK, I!Inv, I!Types, I!Request
<1>1. ASSUME I!Load PROVE I!Types'
  BY <1>1, IssuanceEvents DEF I!Load, I!Emit
<1>2. ASSUME I!Receive PROVE I!Types'
  <2>1. s4 # <<>> /\ Head(s4) \in I!Events /\ Tail(s4) \in Seq(I!Events)
    BY <1>2 DEF I!Receive
  <2>2. UNCHANGED <<s1, s2, s3, s8, s9, s10>>
    BY <1>2 DEF I!Receive, I!browser
  <2>3. \/ s4' = Tail(s4) /\ s6' \in {s6, Append(s6, Head(s4))} /\ s7' = s7
        \/ I!Closes
    BY <1>2 DEF I!Receive
  <2>4. I!Closes => s4' = <<>> /\ s7' = FALSE /\ s6' \in Seq(I!Events)
    BY IssuanceCloses
  <2>5. s7' \in BOOLEAN
    <3>1. s7 \in BOOLEAN /\ FALSE \in BOOLEAN
      OBVIOUS
    <3> QED
      BY <2>3, <2>4, <3>1, Zenon
  <2>6. Append(s6, Head(s4)) \in Seq(I!Events) /\ s6 \in Seq(I!Events)
    BY <2>1, AppendProperties
  <2>7. s4' \in Seq(I!Events) /\ s6' \in Seq(I!Events)
    <3>1. <<>> \in Seq(I!Events)
      OBVIOUS
    <3> QED
      BY <2>1, <2>3, <2>4, <2>6, <3>1, Zenon
  <2> QED
    BY <2>2, <2>5, <2>7
<1>3. ASSUME I!Disconnect PROVE I!Types'
  <2>1. UNCHANGED <<s1, s2, s3, s5, s8, s9, s10>> /\ I!Closes
    BY <1>3 DEF I!Disconnect, I!browser
  <2>2. s4' = <<>> /\ s7' = FALSE /\ s6' \in Seq(I!Events)
    BY <2>1, IssuanceCloses
  <2>3. FALSE \in BOOLEAN
    OBVIOUS
  <2>4. s7' \in BOOLEAN
    BY <2>2, <2>3, Zenon
  <2> QED
    BY <2>1, <2>2, <2>4
<1>4. ASSUME I!Handle PROVE I!Types'
  <2>1. Head(s6) \in I!Events /\ Tail(s6) \in Seq(I!Events)
    BY <1>4 DEF I!Handle
  <2>2. s8' \in I!Exchanges
    BY <1>4, <2>1, IssuanceHandled DEF I!Handle
  <2> QED
    BY <1>4, <2>1, <2>2 DEF I!Handle, I!browser
<1>5. ASSUME I!Body PROVE I!Types'
  <2>1. UNCHANGED <<s1, s2, s3, s4, s5, s6, s7, s9, s10>> /\ s8.at \in Calls
    BY <1>5 DEF I!Body, I!browser
  <2>2. \/ s8' = [s8 EXCEPT !.at = "events", !.proof = IF @ = NoCall THEN s8.at ELSE @]
        \/ s8' = [s8 EXCEPT !.at = "failed"]
    BY <1>5 DEF I!Body
  <2>3. s8' \in I!Exchanges
    BY <2>1, <2>2 DEF I!Exchanges
  <2> QED
    BY <2>1, <2>3
<1>6. ASSUME I!Navigate PROVE I!Types'
  BY <1>6
     DEF I!Navigate, I!Acquire, I!browser
<1>7. ASSUME I!Loaded PROVE I!Types'
  BY <1>7
     DEF I!Loaded, I!Acquire, I!browser
<1>8. ASSUME I!Evaluated PROVE I!Types'
  BY <1>8
     DEF I!Evaluated, I!browser
<1>9. ASSUME I!Compared PROVE I!Types'
  BY <1>9
     DEF I!Compared, I!Acquire, I!browser
<1>10. ASSUME I!Returns PROVE I!Types'
  <2>1. s10' = s8.proof /\ s8.proof = s3 /\ s3 # NoCall
    BY <1>10 DEF I!Returns, I!Fetching
  <2> QED
    BY <1>10, <2>1 DEF I!Returns, I!browser
<1>11. ASSUME I!Fails PROVE I!Types'
  BY <1>11
     DEF I!Fails, I!browser
<1>12. ASSUME NEW r \in Calls, I!Send(r) PROVE I!Types'
  <2>1. PICK post, cached, good \in BOOLEAN :
           /\ s1' = [s1 EXCEPT ![r] = [stage |-> "sent", post |-> post,
                                       cached |-> cached, good |-> good]]
           /\ s4' \in {Append(s4, I!Event("sent", r)),
                      Append(Append(s4, I!Event("sent", r)), I!Event("cached", r))}
    BY <1>12 DEF I!Send
  <2>2. I!Event("sent", r) \in I!Events /\ I!Event("cached", r) \in I!Events
    BY IssuanceEvents DEF I!Methods
  <2>3. s4' \in Seq(I!Events)
    <3>1. s4 \in Seq(I!Events)
      OBVIOUS
    <3>2. Append(s4, I!Event("sent", r)) \in Seq(I!Events)
      BY <2>2, <3>1, AppendProperties
    <3>3. Append(Append(s4, I!Event("sent", r)), I!Event("cached", r)) \in Seq(I!Events)
      BY <2>2, <3>2, AppendProperties
    <3> QED
      BY <2>1, <3>2, <3>3
  <2>4. s1' \in [Calls -> I!Request]
    BY <2>1
  <2> QED
    BY <1>12, <2>3, <2>4 DEF I!Send
<1>13. ASSUME NEW r \in Calls, I!Respond(r) PROVE I!Types'
  <2>1. I!Event("response", r) \in I!Events /\ I!Event("failed", r) \in I!Events
    BY IssuanceEvents DEF I!Methods
  <2>2. s4' \in {Append(s4, I!Event("response", r)), Append(s4, I!Event("failed", r))}
    BY <1>13 DEF I!Respond, I!Emit
  <2>3. s4' \in Seq(I!Events)
    <3>1. \A e \in I!Events : Append(s4, e) \in Seq(I!Events)
      BY AppendProperties
    <3> QED
      BY <2>1, <2>2, <3>1
  <2>4. s1' \in [Calls -> I!Request]
    <3>1. \E stage \in {"responded", "failed"} : s1' = [s1 EXCEPT ![r].stage = stage]
      BY <1>13 DEF I!Respond
    <3> QED
      BY <3>1
  <2> QED
    BY <1>13, <2>3, <2>4 DEF I!Respond
<1>14. ASSUME NEW r \in Calls, I!Finish(r) PROVE I!Types'
  <2>1. s4' \in Seq(I!Events)
    BY <1>14, IssuanceEvents DEF I!Finish, I!Emit, I!Methods
  <2> QED
    BY <1>14, <2>1 DEF I!Finish
<1>15. ASSUME NEW r \in Calls, I!Fetch(r) PROVE I!Types'
  BY <1>15
     DEF I!Fetch
<1>16. ASSUME UNCHANGED I!vars PROVE I!Types'
  BY <1>16 DEF I!vars
<1> QED
  BY <1>1, <1>2, <1>3, <1>4, <1>5, <1>6, <1>7, <1>8, <1>9, <1>10, <1>11,
     <1>12, <1>13, <1>14, <1>15, <1>16
  DEF I!Next

LEMMA IssuanceFetching ==
    ASSUME I!ConstantsOK, I!Inv, I!Next \/ UNCHANGED I!vars
    PROVE  I!Fetching'
<1> USE DEF I!ConstantsOK, I!Inv, I!Types, I!Fetching, I!Proven, I!Request, I!Exchanges
<1>1. ASSUME I!Load PROVE I!Fetching'
  BY <1>1
     DEF I!Load, I!Emit, I!Event
<1>2. ASSUME I!Receive PROVE I!Fetching'
  BY <1>2
     DEF I!Receive, I!Relevant, I!Closes, I!Event, I!browser
<1>3. ASSUME I!Disconnect PROVE I!Fetching'
  BY <1>3
     DEF I!Disconnect, I!Closes, I!Event, I!browser
<1>4. ASSUME I!Handle PROVE I!Fetching'
  BY <1>4
     DEF I!Handle, I!Handled, I!Issued, I!browser
<1>5. ASSUME I!Body PROVE I!Fetching'
  BY <1>5
     DEF I!Body, I!browser
<1>6. ASSUME I!Navigate PROVE I!Fetching'
  BY <1>6
     DEF I!Navigate, I!Acquire, I!browser
<1>7. ASSUME I!Loaded PROVE I!Fetching'
  BY <1>7
     DEF I!Loaded, I!Acquire, I!browser
<1>8. ASSUME I!Evaluated PROVE I!Fetching'
  BY <1>8
     DEF I!Evaluated, I!browser
<1>9. ASSUME I!Compared PROVE I!Fetching'
  BY <1>9
     DEF I!Compared, I!Acquire, I!browser
<1>10. ASSUME I!Returns PROVE I!Fetching'
  BY <1>10
     DEF I!Returns, I!browser
<1>11. ASSUME I!Fails PROVE I!Fetching'
  BY <1>11
     DEF I!Fails, I!browser
<1>12. ASSUME NEW r \in Calls, I!Send(r) PROVE I!Fetching'
  BY <1>12
     DEF I!Send, I!Event
<1>13. ASSUME NEW r \in Calls, I!Respond(r) PROVE I!Fetching'
  BY <1>13
     DEF I!Respond, I!Emit, I!Event
<1>14. ASSUME NEW r \in Calls, I!Finish(r) PROVE I!Fetching'
  BY <1>14
     DEF I!Finish, I!Emit, I!Event
<1>15. ASSUME NEW r \in Calls, I!Fetch(r) PROVE I!Fetching'
  BY <1>15
     DEF I!Fetch
<1>16. ASSUME UNCHANGED I!vars PROVE I!Fetching'
  BY <1>16 DEF I!vars
<1> QED
  BY <1>1, <1>2, <1>3, <1>4, <1>5, <1>6, <1>7, <1>8, <1>9, <1>10, <1>11,
     <1>12, <1>13, <1>14, <1>15, <1>16
  DEF I!Next

(* A request that was sent keeps its kind.                                   *)
LEMMA IssuanceKeeps ==
    ASSUME I!ConstantsOK, I!Inv, I!Next
    PROVE  \A q \in Calls : I!Sent(q) => I!Sent(q)' /\ s1'[q].cached = s1[q].cached
<1> USE DEF I!Inv, I!Types, I!Request, I!Sent
<1>1. ASSUME NEW r \in Calls, I!Send(r)
      PROVE  \A q \in Calls : I!Sent(q) => I!Sent(q)' /\ s1'[q].cached = s1[q].cached
  BY <1>1 DEF I!Send
<1>2. ASSUME NEW r \in Calls, I!Respond(r) \/ I!Finish(r)
      PROVE  \A q \in Calls : I!Sent(q) => I!Sent(q)' /\ s1'[q].cached = s1[q].cached
  <2>1. \E stage \in {"responded", "failed", "finished"} :
           s1' = [s1 EXCEPT ![r].stage = stage]
    BY <1>2 DEF I!Respond, I!Finish
  <2> QED
    BY <2>1
<1>3. ASSUME I!Next, \A r \in Calls : ~I!Send(r) /\ ~I!Respond(r) /\ ~I!Finish(r)
      PROVE  s1' = s1
  BY <1>3 DEF I!Next, I!Load, I!Receive, I!Disconnect, I!Handle, I!Body, I!Navigate,
     I!Loaded, I!Evaluated, I!Compared, I!Returns, I!Fails, I!Fetch, I!Acquire, I!browser
<1> QED
  BY <1>1, <1>2, <1>3

LEMMA IssuanceAllSent ==
    ASSUME I!ConstantsOK, I!Inv, I!Next
    PROVE  I!AllSent'
<1> DEFINE Fine(e) == e.request \in Calls => s1'[e.request].stage # "none"
<1>1. /\ \A i \in 1..Len(s4) : Fine(s4[i])
      /\ \A i \in 1..Len(s6) : Fine(s6[i])
      /\ \A q \in s8.responses : s1'[q].stage # "none"
  <2>1. s8.responses \subseteq Calls
    BY DEF I!Inv, I!Types, I!Exchanges
  <2> QED
    BY <2>1, IssuanceKeeps DEF I!Inv, I!AllSent, I!Sent
<1>2. SUFFICES /\ \A i \in 1..Len(s4') : Fine(s4'[i])
               /\ \A i \in 1..Len(s6') : Fine(s6'[i])
               /\ \A q \in s8'.responses : s1'[q].stage # "none"
  BY DEF I!AllSent, I!Sent
<1>3. I!Types
  BY DEF I!Inv
<1>4. Fine(I!Event("loaded", NoCall)) /\ Fine(I!Event("end", NoCall))
  BY DEF I!Event, I!ConstantsOK
<1> HIDE DEF Fine
<1>5. CASE I!Load
  <2>1. UNCHANGED <<s6, s8>> /\ s4' = Append(s4, I!Event("loaded", NoCall))
    BY <1>5 DEF I!Load, I!Emit
  <2> QED
    BY <1>1, <1>3, <1>4, <2>1, IssuanceEmits, IssuanceEvents
<1>6. CASE I!Receive
  <2>1. Fine(s4[1])
    BY <1>1, <1>3, <1>6, IssuanceReceives
  <2>2. CASE I!Closes
    <3>1. s8' = s8 /\ s4' = <<>>
      BY <1>3, <1>6, <2>2, IssuanceCloses, IssuanceReceives
    <3>2. \A i \in 1..Len(s6') : Fine(s6'[i])
      BY <1>1, <1>3, <1>4, <2>2, IssuanceCloses
    <3> QED
      BY <1>1, <3>1, <3>2
  <2>3. CASE ~I!Closes
    <3>1. /\ \A i \in 1..Len(s4') : \E j \in 1..Len(s4) : s4'[i] = s4[j]
          /\ s8' = s8
      BY <1>3, <1>6, <2>3, IssuanceReceives
    <3>2. s6' = s6 \/ s6' = Append(s6, s4[1])
      BY <1>3, <1>6, <2>3, IssuanceReceives
    <3>3. \A i \in 1..Len(s6') : Fine(s6'[i])
      BY <1>1, <1>3, <1>6, <2>1, <3>2, IssuanceReceives, IssuanceQueued
    <3> QED
      BY <1>1, <3>1, <3>3
  <2> QED
    BY <2>2, <2>3
<1>7. CASE I!Disconnect
  <2>1. UNCHANGED s8 /\ I!Closes
    BY <1>7 DEF I!Disconnect
  <2> QED
    BY <1>1, <1>3, <1>4, <2>1, IssuanceCloses
<1>8. CASE I!Handle
  <2>1. \A i \in 1..Len(s6') : Fine(s6'[i])
    BY <1>1, <1>3, <1>8, IssuanceTaken
  <2>2. /\ \/ s8'.responses = s8.responses
           \/ s8'.responses = s8.responses \cup {s6[1].request} /\ s6[1].request \in Calls
        /\ s6[1].request \in Calls => s1'[s6[1].request].stage # "none"
    <3>1. s8.posts \subseteq Calls
      BY <1>3 DEF I!Types, I!Exchanges
    <3>2. s6[1] \in I!Events /\ 1 \in 1..Len(s6) /\ s8' = I!Handled(s6[1])
      BY <1>3, <1>8, IssuanceTaken
    <3>3. Fine(s6[1])
      BY <1>1, <3>2
    <3>4. \/ s8'.responses = s8.responses
          \/ /\ s8'.responses = s8.responses \cup {s6[1].request}
             /\ s6[1].request \in s8.posts
      BY <1>3, <3>2, IssuanceLearns
    <3> QED
      BY <3>1, <3>3, <3>4 DEF Fine
  <2> QED
    BY <1>1, <1>3, <1>8, <2>1, <2>2, IssuanceTaken
<1>9. CASE I!Body
  <2>1. s8'.responses = s8.responses /\ UNCHANGED <<s4, s6>>
    BY <1>3, <1>9 DEF I!Body, I!Types, I!Exchanges
  <2> QED
    BY <1>1, <2>1
<1>10. CASE \/ I!Navigate \/ I!Loaded \/ I!Evaluated \/ I!Compared \/ I!Returns \/ I!Fails
            \/ \E r \in Calls : I!Fetch(r)
  <2>1. UNCHANGED <<s4, s6, s8>>
    BY <1>10 DEF I!Navigate, I!Loaded, I!Evaluated, I!Compared, I!Returns, I!Fails,
       I!Fetch, I!Acquire
  <2> QED
    BY <1>1, <2>1
<1>11. ASSUME NEW r \in Calls, I!Send(r) \/ I!Respond(r) \/ I!Finish(r)
       PROVE  /\ \A i \in 1..Len(s4') : Fine(s4'[i])
              /\ UNCHANGED <<s6, s8>>
  <2>1. UNCHANGED <<s6, s8>>
    BY <1>11 DEF I!Send, I!Respond, I!Finish
  <2>2. s1'[r].stage # "none"
    BY <1>3, <1>11 DEF I!Send, I!Respond, I!Finish, I!Types, I!Request
  <2>3. \A m \in I!Methods : Fine(I!Event(m, r)) /\ I!Event(m, r) \in I!Events
    BY <2>2, IssuanceEvents DEF Fine
  <2>4. \/ \E m \in I!Methods : s4' = Append(s4, I!Event(m, r))
        \/ s4' = Append(Append(s4, I!Event("sent", r)), I!Event("cached", r))
    BY <1>11 DEF I!Send, I!Respond, I!Finish, I!Emit, I!Methods
  <2>5. ASSUME NEW m \in I!Methods, s4' = Append(s4, I!Event(m, r))
        PROVE  \A i \in 1..Len(s4') : Fine(s4'[i])
    BY <1>1, <1>3, <2>3, <2>5, IssuanceEmits
  <2>6. ASSUME s4' = Append(Append(s4, I!Event("sent", r)), I!Event("cached", r))
        PROVE  \A i \in 1..Len(s4') : Fine(s4'[i])
    <3> DEFINE one == Append(s4, I!Event("sent", r))
    <3>1. /\ "sent" \in I!Methods /\ "cached" \in I!Methods
      BY DEF I!Methods
    <3>2. /\ one \in Seq(I!Events) /\ Len(one) = Len(s4) + 1 /\ Len(s4) \in Nat
          /\ \A i \in 1..Len(s4) : one[i] = s4[i]
          /\ one[Len(s4) + 1] = I!Event("sent", r)
      BY <1>3, <2>3, <3>1, AppendProperties DEF I!Types
    <3>3. \A i \in 1..Len(one) : Fine(one[i])
      BY <1>1, <2>3, <3>1, <3>2
    <3> HIDE DEF one
    <3>4. /\ Len(Append(one, I!Event("cached", r))) = Len(one) + 1
          /\ \A i \in 1..Len(one) : Append(one, I!Event("cached", r))[i] = one[i]
          /\ Append(one, I!Event("cached", r))[Len(one) + 1] = I!Event("cached", r)
      BY <2>3, <3>1, <3>2, AppendProperties
    <3>5. s4' = Append(one, I!Event("cached", r))
      BY <2>6 DEF one
    <3> QED
      BY <2>3, <3>1, <3>2, <3>3, <3>4, <3>5
  <2> QED
    BY <2>1, <2>4, <2>5, <2>6
<1> QED
  BY <1>1, <1>5, <1>6, <1>7, <1>8, <1>9, <1>10, <1>11 DEF I!Next

LEMMA IssuanceProven ==
    ASSUME I!ConstantsOK, I!Inv, I!Next
    PROVE  I!Proven'
<1> USE DEF I!ConstantsOK, I!Inv, I!Types, I!Proven, I!InOrder, I!AllSent,
           I!Sent, I!FromCache, I!Request, I!Exchanges, I!Events, I!Methods
<1>a. ASSUME UNCHANGED <<s7, s8>>, I!Next PROVE I!Proven'
  BY <1>a, IssuanceKeeps
<1>1. ASSUME I!Load PROVE I!Proven'
  BY <1>1
     DEF I!Load, I!Emit, I!Event
<1>2. ASSUME I!Receive PROVE I!Proven'
  BY <1>2
     DEF I!Receive, I!Relevant, I!Closes, I!Event, I!browser
<1>3. ASSUME I!Disconnect PROVE I!Proven'
  BY <1>3
     DEF I!Disconnect, I!Closes, I!Event, I!browser
<1>4. ASSUME I!Handle PROVE I!Proven'
  BY <1>4
     DEF I!Handle, I!Handled, I!Issued, I!browser
<1>5. ASSUME I!Body PROVE I!Proven'
  BY <1>5
     DEF I!Body, I!browser
<1>6. ASSUME I!Navigate PROVE I!Proven'
  BY <1>6
     DEF I!Navigate, I!Acquire, I!browser
<1>7. ASSUME I!Loaded PROVE I!Proven'
  BY <1>7
     DEF I!Loaded, I!Acquire, I!browser
<1>8. ASSUME I!Evaluated PROVE I!Proven'
  BY <1>8
     DEF I!Evaluated, I!browser
<1>9. ASSUME I!Compared PROVE I!Proven'
  BY <1>9
     DEF I!Compared, I!Acquire, I!browser
<1>10. ASSUME I!Returns PROVE I!Proven'
  BY <1>10
     DEF I!Returns, I!browser
<1>11. ASSUME I!Fails PROVE I!Proven'
  BY <1>11
     DEF I!Fails, I!browser
<1>12. ASSUME NEW r \in Calls, I!Send(r) PROVE I!Proven'
  <2>1. UNCHANGED <<s7, s8>>
    BY <1>12 DEF I!Send
  <2> QED
    BY <1>a, <2>1
<1>13. ASSUME NEW r \in Calls, I!Respond(r) PROVE I!Proven'
  <2>1. UNCHANGED <<s7, s8>>
    BY <1>13 DEF I!Respond
  <2> QED
    BY <1>a, <2>1
<1>14. ASSUME NEW r \in Calls, I!Finish(r) PROVE I!Proven'
  <2>1. UNCHANGED <<s7, s8>>
    BY <1>14 DEF I!Finish
  <2> QED
    BY <1>a, <2>1
<1>15. ASSUME NEW r \in Calls, I!Fetch(r) PROVE I!Proven'
  BY <1>15
     DEF I!Fetch
<1> QED
  BY <1>1, <1>2, <1>3, <1>4, <1>5, <1>6, <1>7, <1>8, <1>9, <1>10, <1>11,
     <1>12, <1>13, <1>14, <1>15
  DEF I!Next

(* InOrder, with what the page tells of the requests as a parameter.         *)
LEMMA IssuanceInOrder ==
    ASSUME I!ConstantsOK, I!Inv, I!Next, s7'
    PROVE  I!InOrder'
<1> DEFINE Old(q) == q \in Calls /\ s1[q].stage # "none" /\ s1[q].cached
           New(q) == q \in Calls /\ s1'[q].stage # "none" /\ s1'[q].cached
           Is(e, q) == e = I!Event("cached", q)
           Resp(e, q) == e = I!Event("response", q)
           Goal ==
             /\ \A q \in s8'.responses : New(q) => q \in s8'.cached
             /\ \A q \in Calls : New(q) =>
                   \/ q \in s8'.cached \/ \E j \in 1..Len(s6') : Is(s6'[j], q)
                   \/ \E j \in 1..Len(s4') : Is(s4'[j], q)
             /\ \A i \in 1..Len(s6') : \A q \in Calls : Resp(s6'[i], q) /\ New(q) =>
                   q \in s8'.cached \/ \E j \in 1..i : Is(s6'[j], q)
             /\ \A i \in 1..Len(s4') : \A q \in Calls : Resp(s4'[i], q) /\ New(q) =>
                   \/ q \in s8'.cached \/ \E j \in 1..Len(s6') : Is(s6'[j], q)
                   \/ \E j \in 1..i : Is(s4'[j], q)
<1>1. I!Types /\ s8.responses \subseteq Calls /\ s8.posts \subseteq Calls
  BY DEF I!Inv, I!Types, I!Exchanges
<1>2. s7
  BY <1>1 DEF I!Next, I!Load, I!Receive, I!Disconnect, I!Handle, I!Body, I!Navigate,
     I!Loaded, I!Evaluated, I!Compared, I!Returns, I!Fails, I!Fetch, I!Acquire, I!Send,
     I!Respond, I!Finish, I!Closes
<1>3. /\ \A q \in s8.responses : Old(q) => q \in s8.cached
      /\ \A q \in Calls : Old(q) =>
            \/ q \in s8.cached \/ \E j \in 1..Len(s6) : Is(s6[j], q)
            \/ \E j \in 1..Len(s4) : Is(s4[j], q)
      /\ \A i \in 1..Len(s6) : \A q \in Calls : Resp(s6[i], q) /\ Old(q) =>
            q \in s8.cached \/ \E j \in 1..i : Is(s6[j], q)
      /\ \A i \in 1..Len(s4) : \A q \in Calls : Resp(s4[i], q) /\ Old(q) =>
            \/ q \in s8.cached \/ \E j \in 1..Len(s6) : Is(s6[j], q)
            \/ \E j \in 1..i : Is(s4[j], q)
  BY <1>1, <1>2 DEF I!Inv, I!InOrder, I!FromCache, I!Sent, I!Learns, I!CachedAmong
<1>4. SUFFICES Goal
  <2>1. \A q \in s8'.responses : I!FromCache(q)' => New(q)
    BY IssuanceTypes DEF I!Types, I!Exchanges, I!FromCache, I!Sent
  <2> QED
    BY <2>1 DEF I!InOrder, I!FromCache, I!Sent, I!Learns, I!CachedAmong
\* A request on its way is as it was.
<1>5. \A q : (q \in Calls /\ s1[q].stage # "none") => (New(q) <=> Old(q))
  BY IssuanceKeeps DEF I!Sent
<1>6. /\ \A q \in s8.responses : New(q) => Old(q)
      /\ \A i \in 1..Len(s6) : \A q \in Calls : Resp(s6[i], q) /\ New(q) => Old(q)
      /\ \A i \in 1..Len(s4) : \A q \in Calls : Resp(s4[i], q) /\ New(q) => Old(q)
  <2>1. \A q \in Calls : I!Event("response", q).request = q
    BY IssuanceEvents DEF I!Methods
  <2> QED
    BY <1>1, <1>5, <2>1 DEF I!Inv, I!AllSent, I!Sent
<1>7. \A e, q, p : ~(Is(e, q) /\ Resp(e, p))
  BY DEF I!Event
<1>8. \A q \in Calls : \A p : ~Resp(I!Event("sent", p), q) /\ ~Resp(I!Event("finished", p), q)
                             /\ ~Resp(I!Event("loaded", p), q) /\ ~Resp(I!Event("cached", p), q)
                             /\ ~Resp(I!Event("failed", p), q)
  BY DEF I!Event
<1>9. I!Event("loaded", NoCall) \in I!Events
      /\ \A m \in I!Methods, q \in Calls : I!Event(m, q) \in I!Events
  BY IssuanceEvents
<1> HIDE DEF Old, New, Is, Resp
\* The page sends or answers.
<1>10. ASSUME NEW e \in I!Events, s4' = Append(s4, e), UNCHANGED <<s6, s8>>,
              \A q \in Calls : New(q) => Old(q),
              \A q \in Calls : Resp(e, q) /\ Old(q) =>
                 \/ q \in s8.cached \/ \E j \in 1..Len(s6) : Is(s6[j], q)
                 \/ \E j \in 1..Len(s4) : Is(s4[j], q)
       PROVE  Goal
  <2>1. /\ Len(s4') = Len(s4) + 1 /\ Len(s4) \in Nat /\ s4'[Len(s4) + 1] = e
        /\ \A i \in 1..Len(s4) : s4'[i] = s4[i]
        /\ \A i \in 1..Len(s4') : i \in 1..Len(s4) \/ i = Len(s4) + 1
    BY <1>1, <1>10, IssuanceEmits
  <2>2. \A i \in 1..Len(s4') : 1..i \subseteq 1..Len(s4')
    BY <2>1
  <2>3. \A i \in 1..Len(s4) : 1..i \subseteq 1..Len(s4)
    BY <2>1
  <2>4. 1..Len(s4) \subseteq 1..Len(s4') /\ 1..Len(s4) \subseteq 1..(Len(s4) + 1)
    BY <2>1
  <2>5. /\ \A q \in s8'.responses : New(q) => q \in s8'.cached
        /\ \A i \in 1..Len(s6') : \A q \in Calls : Resp(s6'[i], q) /\ New(q) =>
              q \in s8'.cached \/ \E j \in 1..i : Is(s6'[j], q)
    BY <1>3, <1>6, <1>10
  <2>6. \A q \in Calls : New(q) =>
            \/ q \in s8'.cached \/ \E j \in 1..Len(s6') : Is(s6'[j], q)
            \/ \E j \in 1..Len(s4') : Is(s4'[j], q)
    BY <1>3, <1>10, <2>1, <2>4
  <2>7. ASSUME NEW i \in 1..Len(s4'), NEW q \in Calls, Resp(s4'[i], q), New(q)
        PROVE  \/ q \in s8'.cached \/ \E j \in 1..Len(s6') : Is(s6'[j], q)
               \/ \E j \in 1..i : Is(s4'[j], q)
    <3>1. CASE i \in 1..Len(s4)
      BY <1>3, <1>6, <1>10, <2>1, <2>3, <2>7, <3>1
    <3>2. CASE i = Len(s4) + 1
      BY <1>10, <2>1, <2>4, <2>7, <3>2
    <3> QED
      BY <2>1, <3>1, <3>2
  <2> QED
    BY <2>5, <2>6, <2>7
<1>11. CASE I!Load
  <2>1. UNCHANGED <<s1, s6, s8>> /\ s4' = Append(s4, I!Event("loaded", NoCall))
    BY <1>11 DEF I!Load, I!Emit
  <2>2. \A q \in Calls : New(q) => Old(q)
    BY <2>1 DEF New, Old
  <2>3. \A q \in Calls : ~Resp(I!Event("loaded", NoCall), q)
    BY <1>8
  <2> QED
    BY <1>9, <1>10, <2>1, <2>2, <2>3
<1>12. ASSUME NEW r \in Calls, I!Respond(r) \/ I!Finish(r) PROVE Goal
  <2>1. PICK m \in {"response", "failed", "finished"} :
           s4' = Append(s4, I!Event(m, r)) /\ UNCHANGED <<s6, s8>>
    BY <1>12 DEF I!Respond, I!Finish, I!Emit
  <2>2. s1[r].stage # "none" /\ \A q \in Calls \ {r} : s1'[q] = s1[q]
    BY <1>1, <1>12 DEF I!Respond, I!Finish, I!Types
  <2>3. \A q \in Calls : New(q) => Old(q)
    BY <1>5, <2>2 DEF New, Old
  <2>4. \A q \in Calls : Resp(I!Event(m, r), q) /\ Old(q) =>
                 \/ q \in s8.cached \/ \E j \in 1..Len(s6) : Is(s6[j], q)
                 \/ \E j \in 1..Len(s4) : Is(s4[j], q)
    BY <1>3
  <2>5. I!Event(m, r) \in I!Events
    BY <1>9 DEF I!Methods
  <2> QED
    BY <1>10, <2>1, <2>3, <2>4, <2>5
<1>13. CASE I!Receive
  <2>1. /\ UNCHANGED <<s1, s8>> /\ s4[1] \in I!Events /\ Len(s4) \in Nat \ {0}
        /\ s4' = Tail(s4) /\ (s6' = Append(s6, s4[1]) \/ s6' = s6)
        /\ s6' = s6 => s4[1].method \in {"finished", "end"} \/ s6' = Append(s6, s4[1])
        /\ Len(s4') = Len(s4) - 1
        /\ \A i \in 1..Len(s4') : s4'[i] = s4[i + 1] /\ i + 1 \in 1..Len(s4)
    <3>1. ~I!Closes
      BY DEF I!Closes
    <3> QED
      BY <1>1, <1>13, <3>1, IssuanceReceives
  <2>2. \A q : New(q) <=> Old(q)
    BY <2>1 DEF New, Old
  <2>3. CASE s6' = s6
    <3>1. \A q : ~Is(s4[1], q)
      <4>1. s6 # Append(s6, s4[1])
        BY <1>1, <2>1, AppendProperties DEF I!Types
      <4>2. s4[1].method # "cached"
        BY <2>1, <2>3, <4>1
      <4> QED
        BY <4>2 DEF Is, I!Event
    <3>2. \A q, i : i \in 1..Len(s4) /\ (\E j \in 1..i : Is(s4[j], q)) =>
             \E j \in 1..(i - 1) : Is(s4'[j], q)
      <4> SUFFICES ASSUME NEW q, NEW i \in 1..Len(s4), NEW j \in 1..i, Is(s4[j], q)
                   PROVE  \E k \in 1..(i - 1) : Is(s4'[k], q)
        OBVIOUS
      <4>1. j # 1
        BY <3>1
      <4>2. j - 1 \in 1..(i - 1) /\ j - 1 \in 1..Len(s4') /\ (j - 1) + 1 = j
        BY <2>1, <4>1
      <4> QED
        BY <2>1, <4>2
    <3>3. \A q \in Calls : New(q) =>
            \/ q \in s8'.cached \/ \E j \in 1..Len(s6') : Is(s6'[j], q)
            \/ \E j \in 1..Len(s4') : Is(s4'[j], q)
      <4>1. Len(s4) \in 1..Len(s4) /\ Len(s4) - 1 = Len(s4')
        BY <2>1
      <4> QED
        BY <1>3, <2>1, <2>2, <2>3, <3>2, <4>1
    <3>4. ASSUME NEW i \in 1..Len(s4'), NEW q \in Calls, Resp(s4'[i], q), New(q)
          PROVE  \/ q \in s8'.cached \/ \E j \in 1..Len(s6') : Is(s6'[j], q)
                 \/ \E j \in 1..i : Is(s4'[j], q)
      <4>1. i + 1 \in 1..Len(s4) /\ (i + 1) - 1 = i /\ s4'[i] = s4[i + 1]
        BY <2>1
      <4>2. \/ q \in s8.cached \/ \E j \in 1..Len(s6) : Is(s6[j], q)
            \/ \E j \in 1..(i + 1) : Is(s4[j], q)
        BY <1>3, <2>2, <3>4, <4>1
      <4> QED
        BY <2>1, <2>3, <3>2, <4>1, <4>2
    <3> QED
      BY <1>3, <2>1, <2>2, <2>3, <3>3, <3>4
  <2>4. CASE s6' = Append(s6, s4[1])
    <3>1. /\ Len(s6') = Len(s6) + 1 /\ Len(s6) \in Nat /\ s6'[Len(s6) + 1] = s4[1]
          /\ \A i \in 1..Len(s6) : s6'[i] = s6[i]
          /\ \A i \in 1..Len(s6') : i \in 1..Len(s6) \/ i = Len(s6) + 1
      BY <1>1, <2>1, <2>4, IssuanceQueued
    <3>2. /\ 1..Len(s6) \subseteq 1..Len(s6') /\ Len(s6) + 1 \in 1..Len(s6')
          /\ \A i \in 1..Len(s6) : 1..i \subseteq 1..Len(s6)
          /\ 1..Len(s6) \subseteq 1..(Len(s6) + 1)
      BY <3>1
    <3>3. \A q, i : i \in 1..Len(s4) /\ (\E j \in 1..i : Is(s4[j], q)) =>
             \/ \E j \in 1..Len(s6') : Is(s6'[j], q)
             \/ \E j \in 1..(i - 1) : Is(s4'[j], q)
      <4> SUFFICES ASSUME NEW q, NEW i \in 1..Len(s4), NEW j \in 1..i, Is(s4[j], q), j # 1
                   PROVE  \E k \in 1..(i - 1) : Is(s4'[k], q)
        BY <3>1, <3>2
      <4>1. j - 1 \in 1..(i - 1) /\ j - 1 \in 1..Len(s4') /\ (j - 1) + 1 = j
        BY <2>1
      <4> QED
        BY <2>1, <4>1
    <3>4. \A q : (\E j \in 1..Len(s6) : Is(s6[j], q)) => \E j \in 1..Len(s6') : Is(s6'[j], q)
      BY <3>1, <3>2
    <3>5. \A q \in Calls : New(q) =>
            \/ q \in s8'.cached \/ \E j \in 1..Len(s6') : Is(s6'[j], q)
            \/ \E j \in 1..Len(s4') : Is(s4'[j], q)
      <4>1. Len(s4) \in 1..Len(s4) /\ Len(s4) - 1 = Len(s4')
        BY <2>1
      <4> QED
        BY <1>3, <2>1, <2>2, <3>3, <3>4, <4>1
    <3>6. ASSUME NEW i \in 1..Len(s4'), NEW q \in Calls, Resp(s4'[i], q), New(q)
          PROVE  \/ q \in s8'.cached \/ \E j \in 1..Len(s6') : Is(s6'[j], q)
                 \/ \E j \in 1..i : Is(s4'[j], q)
      <4>1. i + 1 \in 1..Len(s4) /\ (i + 1) - 1 = i /\ s4'[i] = s4[i + 1]
        BY <2>1
      <4>2. \/ q \in s8.cached \/ \E j \in 1..Len(s6) : Is(s6[j], q)
            \/ \E j \in 1..(i + 1) : Is(s4[j], q)
        BY <1>3, <2>2, <3>6, <4>1
      <4> QED
        BY <2>1, <3>3, <3>4, <4>1, <4>2
    <3>7. ASSUME NEW i \in 1..Len(s6'), NEW q \in Calls, Resp(s6'[i], q), New(q)
          PROVE  q \in s8'.cached \/ \E j \in 1..i : Is(s6'[j], q)
      <4>1. CASE i \in 1..Len(s6)
        BY <1>3, <2>1, <2>2, <3>1, <3>2, <3>7, <4>1
      <4>2. CASE i = Len(s6) + 1
        <5>1. Resp(s4[1], q) /\ 1 \in 1..Len(s4)
          BY <2>1, <3>1, <3>7, <4>2
        <5>2. \/ q \in s8.cached \/ \E j \in 1..Len(s6) : Is(s6[j], q)
              \/ \E j \in 1..1 : Is(s4[j], q)
          BY <1>3, <2>2, <3>7, <5>1
        <5>3. ~\E j \in 1..1 : Is(s4[j], q)
          BY <1>7, <5>1
        <5> QED
          BY <2>1, <3>1, <3>2, <4>2, <5>2, <5>3
      <4> QED
        BY <3>1, <4>1, <4>2
    <3> QED
      BY <1>3, <2>1, <2>2, <3>5, <3>6, <3>7
  <2> QED
    BY <2>1, <2>3, <2>4
<1>14. CASE I!Handle
  <2>1. /\ UNCHANGED <<s1, s4>> /\ s6[1] \in I!Events /\ Len(s6) \in Nat \ {0}
        /\ s8' = I!Handled(s6[1])
        /\ Len(s6') = Len(s6) - 1
        /\ \A i \in 1..Len(s6') : s6'[i] = s6[i + 1] /\ i + 1 \in 1..Len(s6)
    BY <1>1, <1>14, IssuanceTaken
  <2>2. \A q : New(q) <=> Old(q)
    BY <2>1 DEF New, Old
  <2>3. /\ s8.cached \subseteq s8'.cached
        /\ \A q : Is(s6[1], q) => q \in s8'.cached
        /\ \A q \in s8'.responses : q \in s8.responses \/ (q \in Calls /\ Resp(s6[1], q))
    <3>1. s6[1] = I!Event(s6[1].method, s6[1].request)
      BY <2>1 DEF I!Event, I!Events
    <3>2. \A q : Is(s6[1], q) => s6[1].method = "cached" /\ s6[1].request = q
      BY DEF Is, I!Event
    <3>3. /\ s8'.responses =
                IF s6[1].method = "response" /\ s6[1].request \in s8.posts
                THEN s8.responses \cup {s6[1].request} ELSE s8.responses
          /\ s8'.cached =
                IF s6[1].method = "cached" THEN s8.cached \cup {s6[1].request} ELSE s8.cached
      BY <1>1, <2>1, IssuanceLearns
    <3>4. s6[1].method = "response" => Resp(s6[1], s6[1].request)
      BY <3>1 DEF Resp
    <3> QED
      BY <1>1, <3>2, <3>3, <3>4
  <2>4. \A q, i : i \in 1..Len(s6) /\ (\E j \in 1..i : Is(s6[j], q)) =>
           q \in s8'.cached \/ \E j \in 1..(i - 1) : Is(s6'[j], q)
    <3> SUFFICES ASSUME NEW q, NEW i \in 1..Len(s6), NEW j \in 1..i, Is(s6[j], q), j # 1
                 PROVE  \E k \in 1..(i - 1) : Is(s6'[k], q)
      BY <2>3
    <3>1. j - 1 \in 1..(i - 1) /\ j - 1 \in 1..Len(s6') /\ (j - 1) + 1 = j
      BY <2>1
    <3> QED
      BY <2>1, <3>1
  <2>5. \A q : (\E j \in 1..Len(s6) : Is(s6[j], q)) =>
           q \in s8'.cached \/ \E j \in 1..Len(s6') : Is(s6'[j], q)
    <3>1. Len(s6) \in 1..Len(s6) /\ Len(s6) - 1 = Len(s6')
      BY <2>1
    <3> QED
      BY <2>4, <3>1
  <2>6. ASSUME NEW q \in s8'.responses, New(q) PROVE q \in s8'.cached
    <3>1. CASE q \in s8.responses
      BY <1>3, <2>2, <2>3, <2>6, <3>1
    <3>2. CASE q \in Calls /\ Resp(s6[1], q)
      <4>1. 1 \in 1..Len(s6) /\ ~\E j \in 1..1 : Is(s6[j], q)
        BY <1>7, <2>1, <3>2
      <4> QED
        BY <1>3, <2>2, <2>3, <2>6, <3>2, <4>1
    <3> QED
      BY <2>3, <2>6, <3>1, <3>2
  <2>7. ASSUME NEW i \in 1..Len(s6'), NEW q \in Calls, Resp(s6'[i], q), New(q)
        PROVE  q \in s8'.cached \/ \E j \in 1..i : Is(s6'[j], q)
    <3>1. i + 1 \in 1..Len(s6) /\ (i + 1) - 1 = i /\ s6'[i] = s6[i + 1]
      BY <2>1
    <3>2. q \in s8.cached \/ \E j \in 1..(i + 1) : Is(s6[j], q)
      BY <1>3, <2>2, <2>7, <3>1
    <3> QED
      BY <2>3, <2>4, <3>1, <3>2
  <2> QED
    BY <1>3, <2>1, <2>2, <2>3, <2>5, <2>6, <2>7
<1>15. CASE I!Body
  <2>1. UNCHANGED <<s1, s4, s6>> /\ s8'.responses = s8.responses /\ s8'.cached = s8.cached
    BY <1>1, <1>15 DEF I!Body, I!browser, I!Types, I!Exchanges
  <2>2. \A q : New(q) <=> Old(q)
    BY <2>1 DEF New, Old
  <2> QED
    BY <1>3, <2>1, <2>2
<1>16. CASE \/ I!Navigate \/ I!Loaded \/ I!Evaluated \/ I!Compared \/ I!Returns \/ I!Fails
            \/ \E r \in Calls : I!Fetch(r)
  <2>1. UNCHANGED <<s1, s4, s6, s8>>
    BY <1>16 DEF I!Navigate, I!Loaded, I!Evaluated, I!Compared, I!Returns, I!Fails,
       I!Fetch, I!Acquire, I!browser
  <2>2. \A q : New(q) <=> Old(q)
    BY <2>1 DEF New, Old
  <2> QED
    BY <1>3, <2>1, <2>2
<1>17. ASSUME NEW r \in Calls, I!Send(r) PROVE Goal
  <2>1. PICK post, cached, good \in BOOLEAN :
           /\ s1' = [s1 EXCEPT ![r] = [stage |-> "sent", post |-> post,
                                       cached |-> cached, good |-> good]]
           /\ s4' = IF cached
                    THEN Append(Append(s4, I!Event("sent", r)), I!Event("cached", r))
                    ELSE Append(s4, I!Event("sent", r))
    BY <1>17 DEF I!Send
  <2>2. UNCHANGED <<s6, s8>> /\ s1[r].stage = "none"
    BY <1>17 DEF I!Send
  <2>3. /\ I!Event("sent", r) \in I!Events /\ I!Event("cached", r) \in I!Events
    BY <1>9 DEF I!Methods
  <2>4. CASE ~cached
    <3>1. \A q \in Calls : New(q) => Old(q)
      BY <1>1, <2>1, <2>4 DEF New, Old, I!Types
    <3>2. \A q \in Calls : ~Resp(I!Event("sent", r), q)
      BY <1>8
    <3> QED
      BY <1>10, <2>1, <2>2, <2>3, <2>4, <3>1, <3>2
  <2>5. CASE cached
    <3> DEFINE one == Append(s4, I!Event("sent", r))
    <3>1. /\ one \in Seq(I!Events) /\ Len(one) = Len(s4) + 1 /\ Len(s4) \in Nat
          /\ \A i \in 1..Len(s4) : one[i] = s4[i]
          /\ one[Len(s4) + 1] = I!Event("sent", r)
      BY <1>1, <2>3, AppendProperties DEF I!Types
    <3> HIDE DEF one
    <3>2. /\ Len(Append(one, I!Event("cached", r))) = Len(one) + 1
          /\ \A i \in 1..Len(one) : Append(one, I!Event("cached", r))[i] = one[i]
          /\ Append(one, I!Event("cached", r))[Len(one) + 1] = I!Event("cached", r)
      BY <2>3, <3>1, AppendProperties
    <3>3. s4' = Append(one, I!Event("cached", r))
      BY <2>1, <2>5 DEF one
    <3>4. /\ Len(s4') = Len(s4) + 2
          /\ \A i \in 1..Len(s4) : s4'[i] = s4[i]
          /\ s4'[Len(s4) + 1] = I!Event("sent", r)
          /\ s4'[Len(s4) + 2] = I!Event("cached", r)
      BY <3>1, <3>2, <3>3
    <3>5. /\ 1..Len(s4) \subseteq 1..Len(s4') /\ Len(s4) + 2 \in 1..Len(s4')
          /\ \A i \in 1..Len(s4) : 1..i \subseteq 1..Len(s4)
          /\ \A i \in 1..Len(s4') : i \in 1..Len(s4) \/ i = Len(s4) + 1 \/ i = Len(s4) + 2
      BY <3>1, <3>4
    <3>6. \A q \in Calls : New(q) => Old(q) \/ q = r
      BY <1>1, <2>1 DEF New, Old, I!Types
    <3>7. Is(s4'[Len(s4) + 2], r)
      BY <3>4 DEF Is
    <3>8. \A q \in Calls : New(q) =>
            \/ q \in s8'.cached \/ \E j \in 1..Len(s6') : Is(s6'[j], q)
            \/ \E j \in 1..Len(s4') : Is(s4'[j], q)
      BY <1>3, <2>2, <3>4, <3>5, <3>6, <3>7
    <3>9. ASSUME NEW i \in 1..Len(s4'), NEW q \in Calls, Resp(s4'[i], q), New(q)
          PROVE  \/ q \in s8'.cached \/ \E j \in 1..Len(s6') : Is(s6'[j], q)
                 \/ \E j \in 1..i : Is(s4'[j], q)
      <4>1. i \in 1..Len(s4)
        BY <1>8, <3>4, <3>5, <3>9
      <4>2. Resp(s4[i], q) /\ Old(q)
        BY <1>6, <3>4, <3>9, <4>1
      <4> QED
        BY <1>3, <2>2, <3>4, <3>5, <4>1, <4>2
    <3> QED
      BY <1>3, <1>6, <2>2, <3>8, <3>9
  <2> QED
    BY <2>4, <2>5
<1>18. ~I!Disconnect
  BY DEF I!Disconnect, I!Closes
<1> QED
  BY <1>11, <1>12, <1>13, <1>14, <1>15, <1>16, <1>17, <1>18 DEF I!Next

LEMMA IssuanceStays == IssuanceInv /\ [Next]_all => IssuanceInv'
<1> SUFFICES ASSUME IssuanceInv, [Next]_all, which' = "issuance" PROVE I!Inv'
  BY DEF IssuanceInv
<1>1. which = "issuance" /\ I!Inv /\ I!ConstantsOK
  BY ServicesAssumption DEF IssuanceInv, Next, ServicesAssumption
<1>2. I!Next \/ UNCHANGED I!vars
  BY <1>1 DEF Next, I!vars
<1>3. CASE I!Next
  BY <1>1, <1>3, IssuanceTypes, IssuanceFetching, IssuanceAllSent, IssuanceProven,
     IssuanceInOrder DEF I!Inv
<1>4. CASE UNCHANGED I!vars
  BY <1>1, <1>4
  DEF I!vars, I!Inv, I!Types, I!Fetching, I!AllSent, I!Sent, I!InOrder, I!FromCache,
      I!Learns, I!CachedAmong, I!Proven
<1> QED
  BY <1>2, <1>3, <1>4

(* What is returned as proof is the answer of Twitch to a POST of this page,  *)
(* over the network, in whatever order events and replies arrive.            *)
THEOREM ProofIsIssuedAlways == Spec => []ProofIsIssued
<1>1. IssuanceInv => ProofIsIssued
  BY ServicesAssumption DEF IssuanceInv, ProofIsIssued, I!Inv, I!Fetching, I!Proven,
     I!ProofIsIssued, ServicesAssumption, I!ConstantsOK
<1> QED
  BY <1>1, IssuanceStarts, IssuanceStays, PTL DEF Spec
=============================================================================
