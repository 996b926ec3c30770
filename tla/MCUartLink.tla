----------------------------- MODULE MCUartLink -----------------------------
EXTENDS UartLink
=============================================================================
