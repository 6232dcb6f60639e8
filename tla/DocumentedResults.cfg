SPECIFICATION SampleSpec
INVARIANT SomeResultDocumented
