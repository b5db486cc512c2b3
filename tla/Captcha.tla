------------------------------- MODULE Captcha -------------------------------
(***************************************************************************)
(* The captcha that logins and recovery mails ask for: images are issued,  *)
(* answered by concurrent requests, expire and are cleaned up.             *)
(***************************************************************************)
EXTENDS Integers

CONSTANT Images    \* identifiers of captcha images

VARIABLES
    images,      \* captcha_challenges
    required,    \* captcha_settings
    passed,      \* history: how often each image let a request pass
    mistaken     \* history: images that got a wrong answer

capVars == <<images, required, passed, mistaken>>

NoImage == [exists |-> FALSE, used |-> FALSE, age |-> 0]
Image == [exists : BOOLEAN, used : BOOLEAN, age : 0..2]

Good(i) == images[i].exists /\ images[i].age = 0

\* An image is not reissued: identifiers are random.
NewCaptcha(i) ==
    /\ images[i] = NoImage /\ passed[i] = 0
    /\ images' = [k \in Images |->
         IF k = i THEN [exists |-> TRUE, used |-> FALSE, age |-> 0]
         ELSE IF images[k].used \/ images[k].age = 2
         THEN [images[k] EXCEPT !.exists = FALSE] ELSE images[k]]
    /\ UNCHANGED <<required, passed, mistaken>>

UpdateCaptchaSettings(on) ==
    /\ required' = on
    /\ UNCHANGED <<images, passed, mistaken>>

\* Mutant: the answer is compared, and the image marked only afterwards.
ConsumeSeen(i) == Good(i)

Consumable(i) == Good(i) /\ ~images[i].used

\* One conditional update; without the setting no image is asked for.
ConsumeCaptchaChallenge(i, right) ==
    /\ required
    /\ IF right /\ Consumable(i)
       THEN /\ images' = [images EXCEPT ![i].used = TRUE]
            /\ passed' = [passed EXCEPT ![i] = @ + 1]
            /\ UNCHANGED mistaken
       ELSE /\ ~right /\ Good(i)
            /\ mistaken' = mistaken \cup {i}
            /\ UNCHANGED <<images, passed>>
    /\ UNCHANGED required

\* Five minutes and an hour later.
ImageAges(i) ==
    /\ images[i].exists /\ images[i].age < 2
    /\ images' = [images EXCEPT ![i].age = @ + 1]
    /\ UNCHANGED <<required, passed, mistaken>>

CapInit ==
    /\ images = [i \in Images |-> NoImage]
    /\ required = FALSE
    /\ passed = [i \in Images |-> 0]
    /\ mistaken = {}

CapNext ==
    \/ \E i \in Images :
         \/ NewCaptcha(i) \/ ImageAges(i)
         \/ \E right \in BOOLEAN : ConsumeCaptchaChallenge(i, right)
    \/ \E on \in BOOLEAN : UpdateCaptchaSettings(on)

CapSpec == CapInit /\ [][CapNext]_capVars

-----------------------------------------------------------------------------
(* Properties *)

\* An image lets one request pass at most, also when used images are deleted
\* while others answer them (ConsumeCaptchaChallenge, the clean-up).
CaptchaOnce == \A i \in Images : passed[i] <= 1

\* An image is tried once, right or wrong (the comment of
\* ConsumeCaptchaChallenge).
CaptchaTriedOnce ==
    [][\A i \in Images : passed'[i] > passed[i] => i \notin mistaken]_capVars
=============================================================================
