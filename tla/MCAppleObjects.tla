----------------------------- MODULE MCAppleObjects -----------------------------
EXTENDS AppleObjects

OneText == {"a"}
===============================================================================
