CONSTANT Images = {1, 2}
SPECIFICATION CapSpec
CHECK_DEADLOCK FALSE
PROPERTY CaptchaTriedOnce
