------------------------------- MODULE Money -------------------------------
(***************************************************************************)
(* Conversions between the amounts Odoo keeps and the integer minor units  *)
(* XPay takes (xpay/money.py).  An amount of Odoo's is an integer number   *)
(* of 1 / 10^Fine of the major unit, Fine being the finest precision of    *)
(* any currency.  The two sides may give one currency different decimals:  *)
(* a merchant can change Odoo's, XPay's are the table DECIMALS.            *)
(***************************************************************************)
EXTENDS Integers

Fine == 3

\* ROUND_HALF_UP of n / d, for natural numbers.
HalfUp(n, d) == (2 * n + d) \div (2 * d)

\* A multiple of 10^-digits of the major unit, in Odoo's unit.
Unit(digits) == 10 ^ (Fine - digits)

\* currency.round: an amount at the decimals Odoo gives its currency.
OdooRound(amount, digits) == HalfUp(amount, Unit(digits)) * Unit(digits)

ToMinor(amount, digits) == HalfUp(amount, Unit(digits))

FromMinor(minor, digits) == minor * Unit(digits)

SessionCharge_ProcessingFirst(session) == session.processing

(***************************************************************************)
(* session_charge: the amount a session says it charges.  A session of an  *)
(* account that settles in another currency carries the customer-facing    *)
(* figure in presentmentDetails, which is read first.                      *)
(***************************************************************************)
SessionCharge(session) ==
    IF session.presentment # <<>> THEN session.presentment[1]
    ELSE session.processing

\* The framework's float_compare at a number of digits.
SameAmount(a, b, digits) == HalfUp(a, Unit(digits)) = HalfUp(b, Unit(digits))
=============================================================================
