------------------------------ MODULE MCCaptcha ------------------------------
(* Two images, for the run that answers one of them again. *)
EXTENDS Captcha
=============================================================================
