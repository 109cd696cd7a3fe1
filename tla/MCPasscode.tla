------------------------------ MODULE MCPasscode ------------------------------
(* PasscodeScreen with the stored passcode and another.                    *)
EXTENDS PasscodeScreen

CONSTANTS code, other

MCCodes == {code, other}
=============================================================================
